----------------------------- MODULE EndpointText -----------------------------
(***************************************************************************)
(* The texts by which a wiring endpoint travels through etcd, as pure      *)
(* operators: its properties are written as text (wiring_endpoint_writer.c)*)
(* and sent in the body of a form (etcd.c); another node reads the text    *)
(* (wiring_endpoint_reader.c) and makes a description of it.  And the key  *)
(* under which they are, made of the root path, the zone, the node and the *)
(* wire (etcd_watcher.c), that the other node takes apart.                 *)
(*                                                                         *)
(* A text is a sequence of letters, of which only the ones that the code   *)
(* or the form treats differently are told apart; "x" stands for all other *)
(* characters, "#" for the two that begin a comment, ";" for the two that  *)
(* end a value in a form, " " for a blank and a tab, and "%" for a percent *)
(* sign together with the two digits behind it, if it has them.  A path is *)
(* a sequence of segments.                                                 *)
(***************************************************************************)
EXTENDS Naturals, Sequences, SequencesExt

Special == {"#", "="}        \* the characters that the writer marks
Char == Special \cup {"x", " ", ":", "\\", "\n", ";", "+", "%"}

\* The name of the property and a wire id: texts of one letter that no other
\* text has.
WireIdKey == <<"wire id">>
WireId == "wire"
Letter == Char \cup {"wire id", WireId}
Text == Seq(Letter)

\* The loops over a text: what step, a function of a state and then of a letter,
\* makes of start.
After(step, start, s) ==
  LET at[i \in 0..Len(s)] == IF i = 0 THEN start ELSE step[at[i - 1]][s[i]]
  IN  at[Len(s)]

(***************************************************************************)
(* wiringEndpoint_properties_store.                                        *)
(***************************************************************************)

\* mutant: the value is written as it is
StoreUnmarked(s) == s

MarkLetter == [done \in Text |-> [c \in Letter |->
                 done \o IF c \in Special THEN <<"\\", c>> ELSE <<c>>]]

Mark(s) == After(MarkLetter, <<>>, s)

StoreLine(n, v) == Mark(n) \o <<"=">> \o Mark(v) \o <<"\n">>

\* The wire id is a property too, behind or in front of the other one.
Store(n, v) == {StoreLine(n, v) \o StoreLine(WireIdKey, <<WireId>>),
                StoreLine(WireIdKey, <<WireId>>) \o StoreLine(n, v)}

(***************************************************************************)
(* etcd_set sends "value=...;ttl=..." without encoding the value: the form *)
(* ends the value at a separator, takes a plus for a blank and a percent   *)
(* sign with two digits for the character that they say.  It takes nothing *)
(* of a value in which a percent sign is not followed by two digits.       *)
(***************************************************************************)
BeforeFirst(c, s) == IF Contains(s, c) THEN SubSeq(s, 1, CHOOSE i \in DOMAIN s :
                            s[i] = c /\ \A j \in 1..(i - 1) : s[j] # c) ELSE s

\* What digits may say: what only the form treats differently is ordinary to
\* the reader.
Decoded == Char \ {"%", ";", "+"}

\* The values that the form may have, with every percent sign read as one of
\* escaped.
FormValues(s, escaped) ==
  LET cut == IF Contains(s, ";") THEN Front(BeforeFirst(";", s)) ELSE s
      Escapes == {i \in DOMAIN cut : cut[i] = "%"}
      Read(d) == [i \in DOMAIN cut |-> IF i \in Escapes THEN d[i]
                                       ELSE IF cut[i] = "+" THEN " " ELSE cut[i]]
  IN  {Read(d) : d \in [Escapes -> escaped]} \cup IF Escapes = {} THEN {} ELSE {<<>>}

(***************************************************************************)
(* wiringEndpoint_properties_load.                                         *)
(***************************************************************************)

\* strtok_r: the lines that are not empty
SplitState == [line : Text, all : Seq(Text)]

EndLine(r) == IF r.line = <<>> THEN r
              ELSE [line |-> <<>>, all |-> Append(r.all, r.line)]

SplitLetter == [r \in SplitState |-> [c \in Letter |->
                  IF c = "\n" THEN EndLine(r) ELSE [r EXCEPT !.line = Append(@, c)]]]

Lines(s) == EndLine(After(SplitLetter, [line |-> <<>>, all |-> <<>>], s)).all

\* One line.
LineState == [out : {"none", "name", "value"}, marked : BOOLEAN, comment : BOOLEAN,
              name : Text, value : Text]

NewLine == [out |-> "none", marked |-> FALSE, comment |-> FALSE,
            name |-> <<>>, value |-> <<>>]

Put(r, s) == IF r.out = "value" THEN [r EXCEPT !.value = @ \o s]
             ELSE [r EXCEPT !.name = @ \o s]

Written(r) == IF r.out = "value" THEN r.value ELSE r.name

\* A blank inside a name or a value is put out twice: once as a blank and
\* once more as a normal character.
ReadChar(line, c) ==
  LET r == IF line.out = "none" THEN [line EXCEPT !.out = "name"] ELSE line
      plain == [r EXCEPT !.marked = FALSE]
  IN  CASE line.comment -> line
        [] c = " " -> IF line.out = "none" THEN line ELSE Put(plain, <<" ", " ">>)
        [] c \in {"=", ":", "#"} /\ r.marked -> Put(plain, <<c>>)
        [] c = "#" /\ ~r.marked -> IF Written(r) = <<>> THEN [r EXCEPT !.comment = TRUE]
                                   ELSE Put(r, <<c>>)
        [] c \in {"=", ":"} /\ ~r.marked -> IF r.out = "value" THEN Put(r, <<c>>)
                                            ELSE [r EXCEPT !.out = "value"]
        [] c = "\\" -> [(IF r.marked THEN Put(r, <<c>>) ELSE r) EXCEPT !.marked = TRUE]
        [] OTHER -> Put(plain, <<c>>)

ReadLetter == [line \in LineState |-> [c \in Letter |-> ReadChar(line, c)]]

Trim(s) ==
  LET Solid == {i \in DOMAIN s : s[i] # " "}
      first == CHOOSE i \in Solid : \A j \in Solid : i <= j
      last == CHOOSE i \in Solid : \A j \in Solid : i >= j
  IN  IF Solid = {} THEN <<>> ELSE SubSeq(s, first, last)

\* A line sets a property, a name and a value, in place of an earlier one of
\* the same name.
SetProperty(props, line) ==
  LET r == After(ReadLetter, NewLine, line)
      n == Trim(r.name)
  IN  IF r.comment THEN props
      ELSE {p \in props : p[1] # n} \cup {<<n, Trim(r.value)>>}

LoadLine == [props \in SUBSET (Text \X Text) |-> [line \in Text |-> SetProperty(props, line)]]

\* The properties that a text sets.
Load(s) == After(LoadLine, {}, Lines(s))

\* wiringEndpointDescription_create: the wire id is the one of the key.
Describe(props, wire) ==
  {p \in props : p[1] # WireIdKey} \cup {<<WireIdKey, <<wire>>>>}

\* What survives the way: no blank, line end or form character in either part,
\* no colon in the name, and backslashes only in a run that a character follows
\* which the writer marks (the reader drops the first of a run, and the mark is
\* one more).
Closed(s) ==
  \A i \in DOMAIN s : s[i] = "\\" => i < Len(s) /\ s[i + 1] \in Special \cup {"\\"}

Portable(n, v) ==
  /\ \A c \in {" ", "\n", ";", "+", "%"} : ~Contains(n \o v, c)
  /\ ~Contains(n, ":")
  /\ Closed(n) /\ Closed(v)

(***************************************************************************)
(* The key.  A root path that ends in a slash has an empty last segment.   *)
(***************************************************************************)
\* etcdWatcher_getLocalNodePath
LocalNodePath(root) == (IF Last(root) = "" THEN Front(root) ELSE root) \o <<"zone", "node">>

WireKey(root) == LocalNodePath(root) \o <<WireId>>

\* mutant: the key of a node is taken for one of an endpoint
ParseLoose(root, k) ==
  LET rest == SubSeq(k, Len(root) + 1, Len(k))
  IN  IF IsPrefix(root, k) /\ rest # <<>> /\ rest[1] # "" THEN rest ELSE <<>>

\* etcdWatcher_getWiringEndpointFromKey: root, zone, node and wire, none of
\* them empty; the rest of the key is not looked at.
Parse(root, k) ==
  LET rest == SubSeq(k, Len(root) + 1, Len(k))
  IN  IF /\ IsPrefix(root, k)
         /\ Len(rest) >= 3
         /\ \A i \in 1..3 : rest[i] # ""
      THEN SubSeq(rest, 1, 3)
      ELSE <<>>
=============================================================================
