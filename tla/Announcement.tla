---------------------------- MODULE Announcement ----------------------------
(***************************************************************************)
(* The way of one wiring endpoint through etcd: a node publishes its text  *)
(* at its key; another node takes the key apart, reads the text, makes a   *)
(* description of it and looks it up in a hash map; the node that leaves   *)
(* deletes its directory.  EndpointText has the conversions.               *)
(***************************************************************************)
EXTENDS EndpointText

CONSTANTS
  MaxKey, MaxValue,  \* bounds: the lengths of a property's name and value
  Escaped            \* bound: what the digits behind a percent sign may say

ASSUME AnnounceAssumption ==
  MaxKey \in Nat \ {0} /\ MaxValue \in Nat /\ Escaped \subseteq Decoded

Name == UNION {[1..n -> Char] : n \in 1..MaxKey}
Value == UNION {[1..n -> Char] : n \in 0..MaxValue}

VARIABLES
  stage,       \* "described", "published", "discovered", "withdrawn"
  name, value, \* the property that the endpoint has, besides its wire id
  root,        \* the configured root path, a sequence of segments
  key,         \* the key in etcd, or the key of the event of the deletion
  text,        \* the text in etcd
  event,       \* what the other node took from the last key
  known        \* the description that the other node has made

announceVars == <<stage, name, value, root, key, text, event, known>>

(***************************************************************************)
(* The behaviour.                                                          *)
(***************************************************************************)
AnnounceInit ==
  /\ stage = "described"
  /\ name \in Name /\ value \in Value
  /\ root \in {<<"inaetics", "discovery">>, <<"inaetics", "">>}
  /\ key = <<>> /\ text = <<>> /\ event = <<>> /\ known = {}

\* etcdWatcher_addOwnNode, for one endpoint.
Publish ==
  /\ stage = "described"
  /\ stage' = "published"
  /\ \E stored \in Store(name, value) : text' \in FormValues(stored, Escaped)
  /\ key' = WireKey(root)
  /\ UNCHANGED <<name, value, root, event, known>>

\* The other node hears of the key, by its listing or by its watch.
Discover ==
  /\ stage = "published"
  /\ stage' = "discovered"
  /\ event' = Parse(root, key)
  /\ known' = IF event' = <<>> THEN {} ELSE Describe(Load(text), event'[3])
  /\ UNCHANGED <<name, value, root, key, text>>

\* The watcher of the leaving node deletes the directory of the node in one
\* call, and the other node hears of the directory.
Withdraw ==
  /\ stage = "discovered"
  /\ stage' = "withdrawn"
  /\ key' = LocalNodePath(root)
  /\ event' = Parse(root, key')
  /\ UNCHANGED <<name, value, root, text, known>>

AnnounceNext == Publish \/ Discover \/ Withdraw

AnnounceSpec == AnnounceInit /\ [][AnnounceNext]_announceVars

-----------------------------------------------------------------------------
(***************************************************************************)
(* Properties.                                                             *)
(***************************************************************************)

\* The other node reads exactly the property that was described, if and only
\* if it is portable: the reader undoes the marks of the writer, for "=" and the
\* comment characters wherever they stand, and nothing else that is special to
\* it, to the form (a percent sign among it, with digits or without) or to the
\* lines comes through.
ArrivesIfPortable ==
  stage \in {"discovered", "withdrawn"} /\ Last(root) # "" =>
    (known = {<<name, value>>, <<WireIdKey, <<WireId>>>>} <=> Portable(name, value))

\* A key of an endpoint is understood exactly under a root path without a
\* slash at its end (the path that is set takes the slash away, the pattern
\* that is matched doubles it), and the key of the deletion never is.
KeyUnderstood ==
  /\ stage = "discovered" =>
       IF Last(root) = "" THEN event = <<>> ELSE event = <<"zone", "node", WireId>>
  /\ stage = "withdrawn" => event = <<>>
=============================================================================
