--------------------------- MODULE WtmImportProofs ---------------------------
(* Proofs about WtmImport, for any requests, endpoints, admins and         *)
(* configurations: the lists of importers and the send services of the     *)
(* admins stay in step, the stop leaves none but what came too late, a     *)
(* request waits exactly as long as it has to, and what a step may lose.   *)
(*                                                                         *)
(* What Survivors makes of a list of any length is proved by induction on  *)
(* the places of the list, from the well-foundedness of the naturals.      *)
EXTENDS WtmImport, SequenceTheorems, FiniteSetTheorems, TLAPS

Pc == {"new", "listed", "tracked", "cleaned", "gone", "released"}

\* the part of TypeOK that does not depend on waitingForImport
TablesOK ==
  /\ waList \in Seq(WA)
  /\ waPc \in [WA -> Pc]
  /\ known \subseteq Endpoint
  /\ imp \in [Endpoint -> [WA -> Nat]]
  /\ send \in [WA -> SUBSET Endpoint]
  /\ late \subseteq WA \X Endpoint /\ early \subseteq WA \X Endpoint

\* an admin is in waList, once, from its first step to its last
ListInv ==
  /\ \A i, j \in DOMAIN waList : waList[i] = waList[j] => i = j
  /\ \A w \in WA : w \in Range(waList) <=> waPc[w] \in {"listed", "tracked", "cleaned"}

\* the counts: twice only for an admin that has been handled
CountInv ==
  \A e \in Endpoint, w \in WA :
    /\ imp[e][w] <= 2
    /\ waPc[w] = "listed" => imp[e][w] <= 1
    /\ waPc[w] = "new" => imp[e][w] = 0
    /\ e \notin known => imp[e][w] = 0

\* the send services of an admin that has not been handled as removed
SendInv ==
  fault = "none" =>
    \A w \in WA : waPc[w] \in {"new", "listed", "tracked"} =>
      \A e \in Endpoint : e \in send[w] <=> e \in known /\ imp[e][w] > 0

\* the first half of StopClean
SentClean ==
  \A w \in WA : waPc[w] \in {"cleaned", "gone", "released"} =>
    \A e \in send[w] : <<w, e>> \in late

IInv == TablesOK /\ ListInv /\ CountInv /\ SendInv /\ SentClean

\* the admins are tracked last, and nobody is told before the listeners are
PhaseInv ==
  /\ phase \in {"created", "listening", "serving"} => told = {}
  /\ phase \in {"created", "listening", "serving", "telling"} => waList = <<>>

\* a request that waits was asked for, and was not served
WaitInv ==
  /\ Range(waiting) \subseteq asked
  /\ \A x \in told : x[2] \in asked /\ x[2] \notin Range(waiting)

\* an admin that was handled as removed and is still in waList counts what it
\* imported since
LateInv ==
  fault = "none" => \A w \in WA, e \in Endpoint :
    waPc[w] = "cleaned" /\ e \in send[w] => imp[e][w] > 0

RInv == IInv /\ TypeOK /\ PhaseInv /\ WaitInv /\ LateInv /\ RequestsExact

-----------------------------------------------------------------------------
(* waList.                                                                 *)

LEMMA AppendRange ==
  ASSUME NEW s \in Seq(WA), NEW w \in WA, w \notin Range(s),
         \A i, j \in DOMAIN s : s[i] = s[j] => i = j
  PROVE  /\ Append(s, w) \in Seq(WA)
         /\ Range(Append(s, w)) = Range(s) \cup {w}
         /\ \A i, j \in DOMAIN Append(s, w) : Append(s, w)[i] = Append(s, w)[j] => i = j
<1> DEFINE t == Append(s, w)
<1>1. /\ t \in Seq(WA) /\ Len(t) = Len(s) + 1 /\ Len(s) \in Nat
      /\ DOMAIN t = 1..(Len(s) + 1) /\ DOMAIN s = 1..Len(s)
      /\ \A i \in 1..Len(s) : t[i] = s[i]
      /\ t[Len(s) + 1] = w
  BY AppendProperties
<1>2. \A i \in DOMAIN t : i \in DOMAIN s \/ i = Len(s) + 1
  BY <1>1
<1>3. Range(t) = Range(s) \cup {w}
  <2>1. Range(t) \subseteq Range(s) \cup {w}
    BY <1>1, <1>2 DEF Range
  <2>2. Range(s) \subseteq Range(t)
    BY <1>1 DEF Range
  <2>3. w \in Range(t)
    BY <1>1 DEF Range
  <2> QED
    BY <2>1, <2>2, <2>3
<1>4. ASSUME NEW i \in DOMAIN t, NEW j \in DOMAIN t, t[i] = t[j] PROVE i = j
  BY <1>1, <1>2, <1>4 DEF Range
<1> QED
  BY <1>1, <1>3, <1>4

LEMMA WithoutRange ==
  ASSUME NEW s \in Seq(WA), NEW w \in Range(s),
         \A i, j \in DOMAIN s : s[i] = s[j] => i = j
  PROVE  /\ Without(s, w) \in Seq(WA)
         /\ Range(Without(s, w)) = Range(s) \ {w}
         /\ \A i, j \in DOMAIN Without(s, w) :
              Without(s, w)[i] = Without(s, w)[j] => i = j
<1> DEFINE p == CHOOSE j \in DOMAIN s : s[j] = w
           t == Without(s, w)
           old(k) == IF k < p THEN k ELSE k + 1
<1>1. p \in DOMAIN s /\ s[p] = w
  BY DEF Range
<1>2. Len(s) \in Nat /\ DOMAIN s = 1..Len(s) /\ Len(s) > 0
  BY <1>1, LenProperties
<1>3. t = [k \in 1..(Len(s) - 1) |-> s[old(k)]]
  BY DEF Without
<1> HIDE DEF p, t
<1>4. \A k \in 1..(Len(s) - 1) : old(k) \in DOMAIN s /\ old(k) # p
  BY <1>1, <1>2
<1>5. t \in Seq(WA) /\ DOMAIN t = 1..(Len(s) - 1)
  <2>1. \A k \in DOMAIN s : s[k] \in WA
    BY <1>2, ElementOfSeq
  <2>2. \A k \in 1..(Len(s) - 1) : s[old(k)] \in WA
    BY <1>4, <2>1
  <2>3. Len(s) - 1 \in Nat
    BY <1>2
  <2> QED
    BY <1>3, <2>2, <2>3
<1>6. \A j, k \in 1..(Len(s) - 1) : old(j) = old(k) => j = k
  BY <1>1, <1>2
<1>7. \A i \in DOMAIN s : i # p => \E k \in 1..(Len(s) - 1) : old(k) = i
  <2>1. ASSUME NEW i \in DOMAIN s, i # p PROVE \E k \in 1..(Len(s) - 1) : old(k) = i
    <3>1. CASE i < p
      <4>1. i \in 1..(Len(s) - 1) /\ old(i) = i
        BY <1>1, <1>2, <3>1
      <4> QED
        BY <4>1
    <3>2. CASE i > p
      <4>1. i - 1 \in 1..(Len(s) - 1) /\ old(i - 1) = i
        BY <1>1, <1>2, <3>2
      <4> QED
        BY <4>1
    <3> QED
      BY <1>1, <1>2, <2>1, <3>1, <3>2
  <2> QED
    BY <2>1
<1> HIDE DEF old
<1>8. Range(t) = Range(s) \ {w}
  <2>1. ASSUME NEW k \in DOMAIN t PROVE t[k] \in Range(s) \ {w}
    BY <1>1, <1>3, <1>4, <1>5 DEF Range
  <2>2. ASSUME NEW i \in DOMAIN s, s[i] # w PROVE s[i] \in Range(t)
    <3>1. PICK k \in 1..(Len(s) - 1) : old(k) = i
      BY <1>1, <1>7, <2>2
    <3> QED
      BY <1>3, <1>5, <3>1 DEF Range
  <2> QED
    BY <2>1, <2>2 DEF Range
<1>9. \A i, j \in DOMAIN t : t[i] = t[j] => i = j
  BY <1>3, <1>4, <1>5, <1>6
<1> QED
  BY <1>5, <1>8, <1>9 DEF t

-----------------------------------------------------------------------------
(* The steps in which admins import.                                       *)

\* Every import of N is by a listed admin that is not in the list of the
\* endpoint, or by the one whose arrival is being handled.
LEMMA ImportKeeps ==
  ASSUME IInv, fault = "none", UNCHANGED waList,
         known \subseteq known', known' \subseteq Endpoint,
         waPc' \in [WA -> Pc],
         \A w \in WA : waPc'[w] = waPc[w] \/ (waPc[w] = "listed" /\ waPc'[w] = "tracked"),
         NEW N \in SUBSET (WA \X known'),
         \A w \in WA, e \in Endpoint : <<w, e>> \in N =>
           \/ imp[e][w] = 0 /\ w \in Range(waList)
           \/ waPc[w] = "listed" /\ waPc'[w] = "tracked",
         Import(N, imp, send)
  PROVE  IInv'
<1>1. \A e \in Endpoint, w \in WA :
        imp'[e][w] = imp[e][w] + (IF <<w, e>> \in N THEN 1 ELSE 0)
  BY DEF Import, Added
<1>2. \A w \in WA, e \in Endpoint : e \in send'[w] <=> e \in send[w] \/ <<w, e>> \in N
  BY DEF Import, IInv, TablesOK
<1>3. late' = late \cup {x \in N : waPc[x[1]] = "cleaned"}
  BY DEF Import
<1>4. \A w \in WA, e \in Endpoint : imp[e][w] \in Nat
  BY DEF IInv, TablesOK
<1>5. TablesOK'
  <2>1. imp' \in [Endpoint -> [WA -> Nat]]
    BY <1>4 DEF Import, Added
  <2>2. send' \in [WA -> SUBSET Endpoint]
    BY DEF Import, IInv, TablesOK
  <2>3. late' \subseteq WA \X Endpoint /\ early' \subseteq WA \X Endpoint
    BY <1>3 DEF Import, IInv, TablesOK
  <2> QED
    BY <2>1, <2>2, <2>3 DEF IInv, TablesOK
<1>6. ListInv'
  BY DEF IInv, ListInv, Range
<1>7. CountInv'
  <2>1. ASSUME NEW e \in Endpoint, NEW w \in WA, <<w, e>> \notin N
        PROVE  imp'[e][w] = imp[e][w]
    BY <1>1, <1>4, <2>1
  <2>2. ASSUME NEW e \in Endpoint, NEW w \in WA, <<w, e>> \in N
        PROVE  imp'[e][w] = imp[e][w] + 1 /\ e \in known'
    BY <1>1, <1>4, <2>2
  <2>3. ASSUME NEW e \in Endpoint, NEW w \in WA, <<w, e>> \in N
        PROVE  /\ imp'[e][w] <= 2
               /\ waPc'[w] = "listed" => imp'[e][w] <= 1
               /\ waPc'[w] # "new"
    <3>1. CASE imp[e][w] = 0 /\ w \in Range(waList)
      BY <2>2, <2>3, <3>1 DEF IInv, ListInv
    <3>2. CASE waPc[w] = "listed" /\ waPc'[w] = "tracked"
      BY <1>4, <2>2, <2>3, <3>2 DEF IInv, CountInv
    <3> QED
      BY <2>3, <3>1, <3>2
  <2> QED
    BY <2>1, <2>2, <2>3 DEF IInv, CountInv
<1>8. SendInv'
  <2>1. ASSUME NEW w \in WA, NEW e \in Endpoint,
               waPc'[w] \in {"new", "listed", "tracked"}
        PROVE  e \in send'[w] <=> e \in known' /\ imp'[e][w] > 0
    <3>1. e \in send[w] <=> e \in known /\ imp[e][w] > 0
      BY <2>1 DEF IInv, SendInv
    <3>2. CASE <<w, e>> \in N
      BY <1>1, <1>2, <1>4, <3>2
    <3>3. CASE <<w, e>> \notin N
      BY <1>1, <1>2, <1>4, <3>1, <3>3 DEF IInv, CountInv
    <3> QED
      BY <3>2, <3>3
  <2> QED
    BY <2>1 DEF SendInv
<1>9. SentClean'
  <2>1. ASSUME NEW w \in WA, waPc'[w] \in {"cleaned", "gone", "released"},
               NEW e \in send'[w]
        PROVE  <<w, e>> \in late'
    <3>1. waPc'[w] = waPc[w] /\ e \in Endpoint
      BY <1>5, <2>1 DEF TablesOK
    <3>2. CASE e \in send[w]
      BY <1>3, <2>1, <3>1, <3>2 DEF IInv, SentClean
    <3>3. CASE <<w, e>> \in N
      <4>1. waPc[w] = "cleaned"
        BY <2>1, <3>1, <3>3 DEF IInv, ListInv
      <4> QED
        BY <1>3, <3>3, <4>1
    <3> QED
      BY <1>2, <2>1, <3>1, <3>2, <3>3
  <2> QED
    BY <2>1 DEF SentClean
<1> QED
  BY <1>5, <1>6, <1>7, <1>8, <1>9 DEF IInv

\* What checkWaitingForImportServices imports, besides N, is in no list yet.
LEMMA CheckWaitingImports ==
  ASSUME NEW K \in SUBSET Endpoint, NEW N \in SUBSET (WA \X K),
         IInv, CheckWaiting(K, imp, N, send)
  PROVE  \E M \in SUBSET (WA \X K) :
           /\ Import(M, imp, send)
           /\ \A w \in WA, e \in Endpoint : <<w, e>> \in M =>
                \/ imp[e][w] = 0 /\ w \in Range(waList)
                \/ <<w, e>> \in N
<1> DEFINE I1 == Added(imp, N)
           U == UNION {NewImports(r, K, I1) : r \in Range(waiting)}
<1>1. Import(N \cup U, imp, send)
  BY DEF CheckWaiting
<1>2. ASSUME NEW r, NEW x \in NewImports(r, K, I1)
      PROVE  /\ x \in WA \X K
             /\ x[1] \in Range(waList) /\ I1[x[2]][x[1]] = 0
  <2>1. Range(waList) \subseteq WA
    BY DEF IInv, TablesOK, Range
  <2> QED
    BY <1>2, <2>1 DEF NewImports
<1>3. \A w \in WA, e \in Endpoint : I1[e][w] = 0 => imp[e][w] = 0
  <2>1. \A w \in WA, e \in Endpoint : imp[e][w] \in Nat
    BY DEF IInv, TablesOK
  <2> QED
    BY <2>1 DEF Added
<1> HIDE DEF I1
<1>4. \A x \in U : x \in WA \X K /\ x[1] \in Range(waList) /\ I1[x[2]][x[1]] = 0
  BY <1>2
<1>5. N \cup U \in SUBSET (WA \X K)
  BY <1>4
<1>6. ASSUME NEW w \in WA, NEW e \in Endpoint, <<w, e>> \in N \cup U
      PROVE  \/ imp[e][w] = 0 /\ w \in Range(waList)
             \/ <<w, e>> \in N
  <2>1. CASE <<w, e>> \in U
    <3>1. w \in Range(waList) /\ I1[e][w] = 0
      BY <1>4, <2>1
    <3> QED
      BY <1>3, <3>1
  <2> QED
    BY <1>6, <2>1
<1> HIDE DEF U
<1> QED
  BY <1>1, <1>5, <1>6

LEMMA AddedStep ==
  ASSUME IInv, NEW e \in Endpoint, WiringEndpointAdded(e)
  PROVE  IInv'
<1> DEFINE K == known \cup {e}
           N == {}
<1>1. /\ fault = "none" /\ known' = K
      /\ CheckWaiting(K, imp, N, send)
      /\ UNCHANGED <<waList, waPc>>
  BY DEF WiringEndpointAdded
<1>2. K \in SUBSET Endpoint /\ known \subseteq K /\ waPc' \in [WA -> Pc]
  BY <1>1 DEF IInv, TablesOK
<1>3. N \in SUBSET (WA \X K) /\ \A x : x \notin N
  OBVIOUS
<1> HIDE DEF K, N
<1>4. PICK M \in SUBSET (WA \X K) :
        /\ Import(M, imp, send)
        /\ \A w \in WA, d \in Endpoint : <<w, d>> \in M =>
             \/ imp[d][w] = 0 /\ w \in Range(waList)
             \/ <<w, d>> \in N
  BY <1>1, <1>2, <1>3, CheckWaitingImports
<1> QED
  BY <1>1, <1>2, <1>3, <1>4, ImportKeeps

LEMMA RequestStep ==
  ASSUME IInv, NEW r \in Request, ImportWiringEndpoint(r)
  PROVE  IInv'
<1> DEFINE N == NewImports(r, known, imp)
<1>1. /\ fault = "none" /\ Import(N, imp, send)
      /\ UNCHANGED <<known, waList, waPc, fault>>
  BY DEF ImportWiringEndpoint
<1>2. Range(waList) \subseteq WA /\ known \subseteq Endpoint /\ waPc \in [WA -> Pc]
  BY DEF IInv, TablesOK, Range
<1>3. N \in SUBSET (WA \X known)
  BY <1>2 DEF NewImports
<1>4. \A w \in WA, e \in Endpoint : <<w, e>> \in N => imp[e][w] = 0 /\ w \in Range(waList)
  BY DEF NewImports
<1> HIDE DEF N
<1> QED
  BY <1>1, <1>2, <1>3, <1>4, ImportKeeps

LEMMA WaAddedStep ==
  ASSUME IInv, NEW w \in WA, WaAddedImport(w)
  PROVE  IInv'
<1> DEFINE N == {w} \X {e \in known : Same(w, e)}
<1>1. /\ fault = "none" /\ waPc[w] = "listed"
      /\ waPc' = [waPc EXCEPT ![w] = "tracked"]
      /\ CheckWaiting(known, imp, N, send)
      /\ UNCHANGED <<known, waList>>
  BY DEF WaAddedImport
<1>2. known \in SUBSET Endpoint /\ N \in SUBSET (WA \X known)
  BY DEF IInv, TablesOK
<1>3. /\ waPc' \in [WA -> Pc] /\ waPc'[w] = "tracked"
      /\ \A v \in WA : v # w => waPc'[v] = waPc[v]
  BY <1>1 DEF IInv, TablesOK, Pc
<1>4. \A v \in WA, e \in Endpoint : <<v, e>> \in N => v = w
  OBVIOUS
<1> HIDE DEF N
<1>5. PICK M \in SUBSET (WA \X known) :
        /\ Import(M, imp, send)
        /\ \A v \in WA, e \in Endpoint : <<v, e>> \in M =>
             \/ imp[e][v] = 0 /\ v \in Range(waList)
             \/ <<v, e>> \in N
  BY <1>1, <1>2, CheckWaitingImports
<1>6. \A v \in WA, e \in Endpoint : <<v, e>> \in M =>
        \/ imp[e][v] = 0 /\ v \in Range(waList)
        \/ waPc[v] = "listed" /\ waPc'[v] = "tracked"
  BY <1>1, <1>3, <1>4, <1>5
<1> QED
  BY <1>1, <1>2, <1>3, <1>5, <1>6, ImportKeeps

-----------------------------------------------------------------------------
(* The steps in which admins stop importing, and the others.               *)

\* The lists of the endpoints in E are emptied, and their importers told.
LEMMA StopKeeps ==
  ASSUME IInv, fault = "none", UNCHANGED <<waList, waPc, late, early>>,
         NEW E \in SUBSET Endpoint,
         known' \subseteq known, known \ E \subseteq known',
         imp' = [e \in Endpoint |-> IF e \in E THEN NoList ELSE imp[e]],
         StopImport(ImportersOf(E))
  PROVE  IInv'
<1>1. \A e \in Endpoint, w \in WA : imp'[e][w] = IF e \in E THEN 0 ELSE imp[e][w]
  BY DEF NoList
<1>2. \A w \in WA, e \in Endpoint :
        e \in send'[w] <=> e \in send[w] /\ ~(e \in E /\ imp[e][w] > 0)
  BY DEF StopImport, ImportersOf, IInv, TablesOK
<1>3. \A w \in WA, e \in Endpoint : imp[e][w] \in Nat
  BY DEF IInv, TablesOK
<1>4. TablesOK'
  BY DEF StopImport, NoList, IInv, TablesOK
<1>5. ListInv'
  BY DEF IInv, ListInv, Range
<1>6. CountInv'
  BY <1>1 DEF IInv, CountInv
<1>7. SendInv'
  BY <1>1, <1>2 DEF IInv, SendInv
<1>8. SentClean'
  BY <1>2, <1>4 DEF TablesOK, IInv, SentClean
<1> QED
  BY <1>4, <1>5, <1>6, <1>7, <1>8 DEF IInv

LEMMA RemovedStep ==
  ASSUME IInv, NEW e \in Endpoint, WiringEndpointRemoved(e)
  PROVE  IInv'
<1>1. /\ fault = "none" /\ known' = known \ {e}
      /\ imp' = [imp EXCEPT ![e] = NoList]
      /\ StopImport(ImportersOf({e}))
      /\ UNCHANGED <<waList, waPc, late, early>>
  BY DEF WiringEndpointRemoved
<1>2. imp' = [d \in Endpoint |-> IF d \in {e} THEN NoList ELSE imp[d]]
  BY <1>1 DEF IInv, TablesOK
<1> QED
  BY <1>1, <1>2, StopKeeps

LEMMA RemoveImportedStep ==
  ASSUME IInv, NEW r \in Request, RemoveImportedWiringEndpoint(r)
  PROVE  IInv'
<1> DEFINE M == known \cap Matches[r]
<1>1. /\ fault = "none" /\ known' = known
      /\ imp' = [e \in Endpoint |-> IF e \in M THEN NoList ELSE imp[e]]
      /\ StopImport(ImportersOf(M))
      /\ UNCHANGED <<waList, waPc, late, early>>
  BY DEF RemoveImportedWiringEndpoint
<1>2. M \in SUBSET Endpoint
  BY DEF IInv, TablesOK
<1> HIDE DEF M
<1> QED
  BY <1>1, <1>2, StopKeeps

LEMMA WaListStep ==
  ASSUME IInv, NEW w \in WA, WaAddedList(w) \/ WaRemovedList(w)
  PROVE  IInv'
<1>1. fault = "none" /\ UNCHANGED <<known, imp, send, late, early, fault>>
  BY DEF WaAddedList, WaRemovedList
<1>2. waList \in Seq(WA) /\ \A i, j \in DOMAIN waList : waList[i] = waList[j] => i = j
  BY DEF IInv, TablesOK, ListInv
<1>3. CASE WaAddedList(w)
  <2>1. /\ waPc[w] = "new" /\ waPc' = [waPc EXCEPT ![w] = "listed"]
        /\ waList' = Append(waList, w)
    BY <1>3 DEF WaAddedList
  <2>2. w \notin Range(waList)
    BY <2>1 DEF IInv, ListInv
  <2>3. /\ waList' \in Seq(WA) /\ Range(waList') = Range(waList) \cup {w}
        /\ \A i, j \in DOMAIN waList' : waList'[i] = waList'[j] => i = j
    BY <1>2, <2>1, <2>2, AppendRange
  <2>4. waPc'[w] = "listed" /\ \A v \in WA : v # w => waPc'[v] = waPc[v]
    BY <2>1 DEF IInv, TablesOK
  <2>5. TablesOK' /\ ListInv'
    BY <1>1, <2>1, <2>3, <2>4 DEF IInv, TablesOK, ListInv, Range, Pc
  <2>6. CountInv' /\ SendInv' /\ SentClean'
    BY <1>1, <2>1, <2>4 DEF IInv, CountInv, SendInv, SentClean
  <2> QED
    BY <2>5, <2>6 DEF IInv
<1>4. CASE WaRemovedList(w)
  <2>1. /\ waPc[w] = "cleaned" /\ waList' = Without(waList, w)
        /\ \E pc \in {"gone", "released"} : waPc' = [waPc EXCEPT ![w] = pc]
    BY <1>4 DEF WaRemovedList
  <2>2. w \in Range(waList)
    BY <2>1 DEF IInv, ListInv
  <2>3. /\ waList' \in Seq(WA) /\ Range(waList') = Range(waList) \ {w}
        /\ \A i, j \in DOMAIN waList' : waList'[i] = waList'[j] => i = j
    BY <1>2, <2>1, <2>2, WithoutRange
  <2>4. waPc'[w] \in {"gone", "released"} /\ \A v \in WA : v # w => waPc'[v] = waPc[v]
    BY <2>1 DEF IInv, TablesOK
  <2>5. waPc' \in [WA -> Pc]
    BY <2>1 DEF IInv, TablesOK, Pc
  <2>6. TablesOK'
    BY <1>1, <2>3, <2>5 DEF IInv, TablesOK
  <2>7. ListInv'
    BY <2>3, <2>4 DEF IInv, ListInv
  <2>8. CountInv' /\ SendInv' /\ SentClean'
    BY <1>1, <2>1, <2>4 DEF IInv, CountInv, SendInv, SentClean
  <2> QED
    BY <2>6, <2>7, <2>8 DEF IInv
<1> QED
  BY <1>3, <1>4

LEMMA WaRemovedStep ==
  ASSUME IInv, NEW w \in WA, WaRemovedImport(w)
  PROVE  IInv'
<1>1. /\ fault = "none" /\ waPc[w] = "tracked"
      /\ waPc' = [waPc EXCEPT ![w] = "cleaned"]
      /\ imp' = [e \in Endpoint |->
                   IF e \in known /\ imp[e][w] = 0 THEN [imp[e] EXCEPT ![w] = 1] ELSE imp[e]]
      /\ StopImport({w} \X {e \in known : imp[e][w] > 0})
      /\ UNCHANGED <<waList, known, late, early>>
  BY DEF WaRemovedImport
<1>2. waPc'[w] = "cleaned" /\ \A v \in WA : v # w => waPc'[v] = waPc[v]
  BY <1>1 DEF IInv, TablesOK
<1>3. \A v \in WA, e \in Endpoint : v # w => imp'[e][v] = imp[e][v]
  BY <1>1 DEF IInv, TablesOK
<1>4. \A e \in Endpoint :
        imp'[e][w] = IF e \in known /\ imp[e][w] = 0 THEN 1 ELSE imp[e][w]
  BY <1>1 DEF IInv, TablesOK
<1>5. \A v \in WA : send'[v] = IF v = w THEN {e \in send[w] : ~(e \in known /\ imp[e][w] > 0)}
                                       ELSE send[v]
  BY <1>1 DEF StopImport, IInv, TablesOK
<1>6. TablesOK'
  <2>1. imp' \in [Endpoint -> [WA -> Nat]]
    <3>1. \A e \in Endpoint : imp[e] \in [WA -> Nat]
      BY DEF IInv, TablesOK
    <3>2. \A e \in Endpoint : [imp[e] EXCEPT ![w] = 1] \in [WA -> Nat]
      BY <3>1
    <3> QED
      BY <1>1, <3>1, <3>2
  <2>2. send' \in [WA -> SUBSET Endpoint]
    BY <1>1 DEF StopImport, IInv, TablesOK
  <2> QED
    BY <1>1, <2>1, <2>2 DEF IInv, TablesOK, Pc
<1>7. ListInv'
  BY <1>1, <1>2 DEF IInv, ListInv, Range
<1>8. CountInv'
  BY <1>1, <1>2, <1>3, <1>4 DEF IInv, CountInv
<1>9. SendInv'
  BY <1>1, <1>2, <1>3, <1>5 DEF IInv, SendInv
<1>10. SentClean'
  <2>1. send'[w] = {}
    BY <1>1, <1>5 DEF IInv, TablesOK, SendInv
  <2> QED
    BY <1>1, <1>2, <1>5, <2>1 DEF IInv, SentClean
<1> QED
  BY <1>6, <1>7, <1>8, <1>9, <1>10 DEF IInv

LEMMA LifeStep ==
  ASSUME IInv,
         \/ StartListening \/ StartServing \/ StartTelling \/ StartTracking
         \/ StopTelling \/ StopTracking \/ StopListening \/ StopServing \/ Destroy
         \/ UNCHANGED vars
  PROVE  IInv'
<1>1. UNCHANGED <<waList, waPc, known, imp, send, late, early, fault>>
  BY DEF StartListening, StartServing, StartTelling, StartTracking, StopTelling,
     StopTracking, StopListening, StopServing, Destroy, Goes, vars
<1> QED
  BY <1>1 DEF IInv, TablesOK, ListInv, Range, CountInv, SendInv, SentClean

LEMMA InitInv == ASSUME Init PROVE IInv
<1>1. Range(waList) = {} /\ DOMAIN waList = {} /\ waList \in Seq(WA)
  BY DEF Init, Range
<1> QED
  BY <1>1 DEF Init, NoList, IInv, TablesOK, ListInv, CountInv, SendInv, SentClean, Pc

LEMMA Inductive == Spec => []IInv
<1>1. Init => IInv
  BY InitInv
<1>2. IInv /\ [Next]_vars => IInv'
  BY AddedStep, RemovedStep, RequestStep, RemoveImportedStep, WaAddedStep, WaListStep,
     WaRemovedStep, LifeStep DEF Next
<1> QED
  BY <1>1, <1>2, PTL DEF Spec

-----------------------------------------------------------------------------

(* While an admin runs, the lists of importers and its send services       *)
(* agree, and it is in no list more than twice.                            *)
THEOREM ImportersAgree == Spec => []ListedExact
<1>1. ASSUME IInv, fault = "none", NEW w \in WA, waPc[w] \in {"new", "listed", "tracked"}
      PROVE  send[w] = {e \in known : imp[e][w] > 0}
  BY <1>1 DEF IInv, TablesOK, SendInv
<1>2. IInv => ListedExact
  BY <1>1 DEF IInv, CountInv, ListedExact
<1> QED
  BY <1>2, Inductive, PTL

-----------------------------------------------------------------------------
(* The requests that stay in waitingForImport, by induction over the list. *)

LEMMA NatLeast ==
  ASSUME NEW T \in SUBSET Nat, T # {}
  PROVE  \E x \in T : \A y \in T : x <= y
<1> DEFINE R == {p \in Nat \X Nat : p[1] < p[2]}
<1>1. OpToRel(<, Nat) = R
  BY Zenon DEF OpToRel
<1>2. IsWellFoundedOn(R, Nat)
  BY <1>1, NatLessThanWellFounded, Zenon
<1>3. PICK x \in T : \A y \in T : <<y, x>> \notin R
  BY <1>2, WFMin, Zenon
<1>4. \A y \in T : ~(y < x)
  BY <1>3
<1> QED
  BY <1>4

LEMMA SetInduction ==
  ASSUME NEW T \in SUBSET Nat, 0 \in T, \A n \in T : n + 1 \in T
  PROVE  T = Nat
<1>1. SUFFICES ASSUME T # Nat PROVE FALSE
  OBVIOUS
<1>2. PICK x \in Nat \ T : \A y \in Nat \ T : x <= y
  BY <1>1, NatLeast
<1>3. x # 0 /\ x - 1 \in Nat /\ x - 1 \notin T
  BY <1>2
<1> QED
  BY <1>2, <1>3

\* what one turn of the loop of checkWaitingForImportServices leaves of a list:
\* n times the element at i is removed
Cut(s, i, n) == SubSeq(s, 1, i - 1) \o SubSeq(s, i + n, Len(s))

LEMMA CutProperties ==
  ASSUME NEW s \in Seq(Request), NEW i \in Nat, i >= 1, i <= Len(s), NEW n \in Nat
  PROVE  /\ Cut(s, i, n) \in Seq(Request)
         /\ Len(Cut(s, i, n)) = i - 1 + (IF i + n <= Len(s) THEN Len(s) - (i + n) + 1 ELSE 0)
         /\ \A k \in 1..(i - 1) : Cut(s, i, n)[k] = s[k]
         /\ \A k \in i..Len(Cut(s, i, n)) : Cut(s, i, n)[k] = s[k + n]
<1> DEFINE a == SubSeq(s, 1, i - 1)
           b == SubSeq(s, i + n, Len(s))
<1>1. Len(s) \in Nat /\ \A k \in 1..Len(s) : s[k] \in Request
  BY ElementOfSeq
<1>2. /\ a \in Seq(Request) /\ Len(a) = i - 1
      /\ \A k \in 1..(i - 1) : a[k] = s[k]
  <2>1. \A k \in 1..(i - 1) : s[k] \in Request
    BY <1>1
  <2>2. /\ a \in Seq(Request) /\ Len(a) = IF 1 <= i - 1 THEN (i - 1) - 1 + 1 ELSE 0
        /\ \A k \in 1..((i - 1) - 1 + 1) : a[k] = s[1 + k - 1]
    BY <2>1, SubSeqProperties
  <2> HIDE DEF a
  <2> QED
    BY <2>2
<1>3. /\ b \in Seq(Request)
      /\ Len(b) = IF i + n <= Len(s) THEN Len(s) - (i + n) + 1 ELSE 0
      /\ \A k \in 1..(Len(s) - (i + n) + 1) : b[k] = s[(i + n) + k - 1]
  <2>1. \A k \in (i + n)..Len(s) : s[k] \in Request
    BY <1>1
  <2> QED
    BY <1>1, <2>1, SubSeqProperties
<1> HIDE DEF a, b
<1>4. /\ a \o b \in Seq(Request) /\ Len(a \o b) = Len(a) + Len(b)
      /\ \A k \in 1..(Len(a) + Len(b)) :
           (a \o b)[k] = IF k <= Len(a) THEN a[k] ELSE b[k - Len(a)]
  BY <1>2, <1>3, ConcatProperties
<1>5. Cut(s, i, n) = a \o b
  BY DEF Cut, a, b
<1>6. Len(b) \in Nat
  BY <1>1, <1>3
<1>7. ASSUME NEW k \in 1..(i - 1) PROVE (a \o b)[k] = s[k]
  BY <1>2, <1>4, <1>6, <1>7
<1>8. ASSUME NEW k \in i..Len(a \o b) PROVE (a \o b)[k] = s[k + n]
  <2>1. k - Len(a) \in 1..Len(b) /\ ~(k <= Len(a)) /\ k \in 1..(Len(a) + Len(b))
    BY <1>2, <1>4, <1>6, <1>8
  <2>2. (a \o b)[k] = b[k - Len(a)]
    BY <1>4, <2>1
  <2>3. k - (i - 1) \in 1..(Len(s) - (i + n) + 1)
    BY <1>1, <1>2, <1>3, <2>1
  <2>4. b[k - (i - 1)] = s[(i + n) + (k - (i - 1)) - 1]
    BY <1>3, <2>3
  <2>5. (i + n) + (k - (i - 1)) - 1 = k + n
    BY <1>8
  <2> QED
    BY <1>2, <2>2, <2>4, <2>5
<1> QED
  BY <1>2, <1>3, <1>4, <1>5, <1>7, <1>8

\* how many times checkWaitingForImportServices removes at the place i
Served(K, I, i) == Cardinality(Usable(waiting[i], K, I))

LEMMA ServedNumber ==
  ASSUME NEW K \in SUBSET Endpoint, NEW I, NEW i
  PROVE  /\ Served(K, I, i) \in Nat
         /\ Served(K, I, i) = 0 <=> Usable(waiting[i], K, I) = {}
         /\ Served(K, I, i) >= 2 => \E d, e \in Usable(waiting[i], K, I) : d # e
<1> DEFINE U == Usable(waiting[i], K, I)
<1>1. U \subseteq Endpoint
  BY DEF Usable
<1> HIDE DEF U
<1>2. IsFiniteSet(U)
  BY <1>1, ImportAssumption, FS_Subset
<1>3. Cardinality(U) \in Nat
  BY <1>2, FS_CardinalityType
<1>4. Cardinality(U) = 0 <=> U = {}
  BY <1>2, FS_EmptySet
<1>5. ASSUME Cardinality(U) >= 2 PROVE \E d, e \in U : d # e
  <2>1. U # {} /\ \A x : U # {x}
    BY <1>2, <1>3, <1>5, FS_EmptySet, FS_Singleton
  <2> QED
    BY <2>1
<1> QED
  BY <1>3, <1>4, <1>5 DEF Served, U

\* the lists that the loop makes on its way from the last request to the first
Loop(K, I, f, D) ==
  f = [i \in D |-> IF i > Len(waiting) THEN waiting ELSE Cut(f[i + 1], i, Served(K, I, i))]

LEMMA LoopExists ==
  ASSUME waiting \in Seq(Request), NEW K, NEW I
  PROVE  \E f : Loop(K, I, f, 1..(Len(waiting) + 1))
<1> DEFINE L == Len(waiting)
           D(n) == {i \in 1..(L + 1) : i + n >= L + 1}
           T == {n \in Nat : \E f : Loop(K, I, f, D(n))}
<1>1. L \in Nat
  BY LenProperties
<1>2. 0 \in T
  <2> DEFINE f == [i \in D(0) |-> waiting]
  <2>1. \A i \in D(0) : i > L
    BY <1>1
  <2>2. f = [i \in D(0) |-> IF i > L THEN waiting ELSE Cut(f[i + 1], i, Served(K, I, i))]
    BY <2>1
  <2>3. Loop(K, I, f, D(0))
    BY <2>2 DEF Loop
  <2> QED
    BY <2>3
<1>3. ASSUME NEW n \in T PROVE n + 1 \in T
  <2>1. PICK f : Loop(K, I, f, D(n))
    OBVIOUS
  <2> DEFINE turn(h, i) == Cut(h[i + 1], i, Served(K, I, i))
             g == [i \in D(n + 1) |-> IF i \in D(n) THEN f[i] ELSE turn(f, i)]
  <2>2. \A i \in D(n) : f[i] = IF i > L THEN waiting ELSE turn(f, i)
    BY <2>1 DEF Loop
  <2>3. n \in Nat /\ D(n) \subseteq D(n + 1)
    BY <1>1
  <2>4. ASSUME NEW i \in D(n + 1) PROVE g[i] = IF i > L THEN waiting ELSE turn(g, i)
    <3>1. CASE i > L
      <4>1. i \in D(n)
        BY <1>1, <2>3, <2>4, <3>1
      <4> QED
        BY <2>2, <3>1, <4>1
    <3>2. CASE ~(i > L)
      <4>1. i + 1 \in D(n)
        BY <1>1, <2>3, <2>4, <3>2
      <4>2. g[i + 1] = f[i + 1]
        BY <2>3, <4>1
      <4>3. turn(g, i) = turn(f, i)
        BY <4>2
      <4>4. g[i] = turn(f, i)
        BY <2>2, <2>4, <3>2
      <4> QED
        BY <3>2, <4>3, <4>4
    <3> QED
      BY <3>1, <3>2
  <2>5. g = [i \in D(n + 1) |-> IF i > L THEN waiting ELSE turn(g, i)]
    <3>1. g = [i \in D(n + 1) |-> g[i]]
      OBVIOUS
    <3> HIDE DEF g
    <3> QED
      BY <2>4, <3>1
  <2>6. Loop(K, I, g, D(n + 1))
    BY <2>5 DEF Loop
  <2> HIDE DEF g, D
  <2>7. \E h : Loop(K, I, h, D(n + 1))
    BY <2>6
  <2> QED
    BY <2>3, <2>7
<1>4. L \in T
  <2> HIDE DEF T
  <2>1. T \subseteq Nat
    BY DEF T
  <2>2. T = Nat
    BY <1>2, <1>3, <2>1, SetInduction
  <2> QED
    BY <1>1, <2>2
<1>5. D(L) = 1..(L + 1)
  BY <1>1
<1>6. PICK f : Loop(K, I, f, D(L))
  BY <1>4
<1> QED
  BY <1>5, <1>6

LEMMA SurvivorsLoop ==
  ASSUME waiting \in Seq(Request), NEW K, NEW I
  PROVE  \E f : Loop(K, I, f, 1..(Len(waiting) + 1)) /\ Survivors(K, I) = f[1]
<1> DEFINE left[i \in 1..(Len(waiting) + 1)] ==
             IF i > Len(waiting) THEN waiting
             ELSE SubSeq(left[i + 1], 1, i - 1)
                  \o SubSeq(left[i + 1], i + Cardinality(Usable(waiting[i], K, I)),
                            Len(left[i + 1]))
<1>1. Survivors(K, I) = left[1]
  BY DEF Survivors
<1>2. left = CHOOSE f : f =
        [i \in 1..(Len(waiting) + 1) |->
           IF i > Len(waiting) THEN waiting
           ELSE SubSeq(f[i + 1], 1, i - 1)
                \o SubSeq(f[i + 1], i + Cardinality(Usable(waiting[i], K, I)),
                          Len(f[i + 1]))]
  BY DEF left
<1> HIDE DEF left
<1>3. left = CHOOSE f : Loop(K, I, f, 1..(Len(waiting) + 1))
  BY <1>2 DEF Loop, Cut, Served
<1>4. Loop(K, I, left, 1..(Len(waiting) + 1))
  BY <1>3, LoopExists
<1> QED
  BY <1>1, <1>4

\* What is left of waitingForImport is of requests without a usable endpoint,
\* and a request that has left had one, unless some request had two.
LEMMA SurvivorsAre ==
  ASSUME waiting \in Seq(Request), NEW K \in SUBSET Endpoint, NEW I
  PROVE  /\ Survivors(K, I) \in Seq(Request)
         /\ \A r \in Range(Survivors(K, I)) : r \in Range(waiting) /\ Usable(r, K, I) = {}
         /\ \A r \in Range(waiting) \ Range(Survivors(K, I)) :
              \/ Usable(r, K, I) # {}
              \/ \E q \in Range(waiting) : \E d, e \in Usable(q, K, I) : d # e
<1> DEFINE L == Len(waiting)
           Two == \E q \in Range(waiting) : \E d, e \in Usable(q, K, I) : d # e
<1>1. L \in Nat /\ DOMAIN waiting = 1..L /\ \A k \in 1..L : waiting[k] \in Range(waiting)
  BY LenProperties DEF Range
<1>2. PICK f : Loop(K, I, f, 1..(L + 1)) /\ Survivors(K, I) = f[1]
  BY SurvivorsLoop
<1>3. f[L + 1] = waiting /\ \A i \in 1..L : f[i] = Cut(f[i + 1], i, Served(K, I, i))
  <2>1. \A i \in 1..(L + 1) :
          f[i] = IF i > L THEN waiting ELSE Cut(f[i + 1], i, Served(K, I, i))
    BY <1>2 DEF Loop
  <2> QED
    BY <1>1, <2>1
<1> DEFINE Good(i) ==
      /\ f[i] \in Seq(Request) /\ Len(f[i]) >= i - 1
      /\ \A k \in 1..(i - 1) : f[i][k] = waiting[k]
      /\ \A k \in i..Len(f[i]) : f[i][k] \in Range(waiting) /\ Usable(f[i][k], K, I) = {}
      /\ \A r \in Range(waiting) : r \in Range(f[i]) \/ Usable(r, K, I) # {} \/ Two
<1>4. Good(L + 1)
  <2>1. \A k \in (L + 1)..L : FALSE
    BY <1>1
  <2> QED
    BY <1>1, <1>3, <2>1
<1>5. ASSUME NEW i \in 1..L, Good(i + 1) PROVE Good(i)
  <2> DEFINE s == f[i + 1]
             n == Served(K, I, i)
             t == f[i]
  <2>1. /\ s \in Seq(Request) /\ Len(s) >= i /\ Len(s) \in Nat /\ DOMAIN s = 1..Len(s)
        /\ i \in Nat /\ i >= 1 /\ i <= L
        /\ \A k \in 1..i : s[k] = waiting[k]
        /\ \A k \in (i + 1)..Len(s) : s[k] \in Range(waiting) /\ Usable(s[k], K, I) = {}
        /\ \A r \in Range(waiting) : r \in Range(s) \/ Usable(r, K, I) # {} \/ Two
    <3>1. Len(s) >= (i + 1) - 1 /\ (i + 1) - 1 = i /\ i \in Nat /\ i >= 1 /\ i <= L
      BY <1>1, <1>5
    <3>2. Len(s) \in Nat /\ DOMAIN s = 1..Len(s)
      BY <1>5, LenProperties
    <3> QED
      BY <1>5, <3>1, <3>2
  <2>2. /\ n \in Nat /\ (n = 0 <=> Usable(waiting[i], K, I) = {})
        /\ n >= 2 => Two
    BY <1>1, ServedNumber
  <2>3. t = Cut(s, i, n)
    BY <1>3
  <2> HIDE DEF s, n, t, Two
  <2>4. /\ t \in Seq(Request)
        /\ Len(t) = i - 1 + (IF i + n <= Len(s) THEN Len(s) - (i + n) + 1 ELSE 0)
        /\ \A k \in 1..(i - 1) : t[k] = s[k]
        /\ \A k \in i..Len(t) : t[k] = s[k + n]
    BY <2>1, <2>2, <2>3, CutProperties
  <2>5. Len(t) \in Nat /\ Len(t) >= i - 1 /\ DOMAIN t = 1..Len(t)
    BY <2>1, <2>2, <2>4, LenProperties
  <2>6. ASSUME NEW k \in 1..(i - 1) PROVE t[k] = waiting[k]
    BY <2>1, <2>4
  <2>7. ASSUME NEW k \in i..Len(t)
        PROVE  t[k] \in Range(waiting) /\ Usable(t[k], K, I) = {}
    <3>1. t[k] = s[k + n] /\ k + n \in i..Len(s)
      BY <2>1, <2>2, <2>4
    <3>2. CASE k + n = i
      <4>1. n = 0 /\ s[i] = waiting[i]
        BY <2>1, <2>2, <3>2
      <4> QED
        BY <1>1, <2>1, <2>2, <3>1, <3>2, <4>1
    <3>3. CASE k + n # i
      <4>1. k + n \in (i + 1)..Len(s)
        BY <2>1, <2>2, <3>1, <3>3
      <4> QED
        BY <2>1, <3>1, <4>1
    <3> QED
      BY <3>2, <3>3
  <2>8. ASSUME NEW r \in Range(waiting), r \notin Range(t), Usable(r, K, I) = {} PROVE Two
    <3>1. SUFFICES ASSUME ~Two PROVE FALSE
      OBVIOUS
    <3>2. PICK k \in 1..Len(s) : s[k] = r
      BY <2>1, <2>8, <3>1 DEF Range
    <3>3. n \in {0, 1}
      BY <2>2, <3>1
    <3>4. \A j \in 1..Len(t) : t[j] # r
      BY <2>5, <2>8 DEF Range
    <3>5. CASE k < i
      <4>1. k \in 1..(i - 1) /\ k \in 1..Len(t)
        BY <2>1, <2>5, <3>5
      <4> QED
        BY <2>4, <3>2, <3>4, <4>1
    <3>6. CASE k >= i + n
      <4>1. k - n \in i..Len(t) /\ k - n \in 1..Len(t) /\ (k - n) + n = k
        BY <2>1, <2>2, <2>4, <2>5, <3>6
      <4>2. t[k - n] = s[(k - n) + n]
        BY <2>4, <4>1
      <4> QED
        BY <3>2, <3>4, <4>1, <4>2
    <3>7. CASE k >= i /\ k < i + n
      <4>1. k = i /\ n = 1
        BY <2>1, <3>3, <3>7
      <4>2. r = waiting[i]
        BY <2>1, <3>2, <4>1
      <4> QED
        BY <2>2, <2>8, <4>1, <4>2
    <3> QED
      BY <2>1, <2>2, <3>5, <3>6, <3>7
  <2> QED
    BY <2>4, <2>5, <2>6, <2>7, <2>8 DEF t
<1>6. Good(1)
  <2> DEFINE T == {n \in Nat : n <= L => Good(L + 1 - n)}
  <2> HIDE DEF Good
  <2>1. 0 \in T
    <3>1. L + 1 - 0 = L + 1
      BY <1>1
    <3> QED
      BY <1>4, <3>1
  <2>2. ASSUME NEW n \in T PROVE n + 1 \in T
    <3>1. CASE n + 1 <= L
      <4>1. L + 1 - n = (L + 1 - (n + 1)) + 1 /\ L + 1 - (n + 1) \in 1..L /\ n <= L
        BY <1>1, <3>1
      <4>2. Good(L + 1 - n)
        BY <4>1
      <4>3. Good(L + 1 - (n + 1))
        BY <1>5, <4>1, <4>2
      <4> QED
        BY <4>3
    <3>2. CASE ~(n + 1 <= L)
      BY <3>2
    <3> QED
      BY <3>1, <3>2
  <2>3. T = Nat
    <3>1. T \subseteq Nat
      OBVIOUS
    <3> HIDE DEF T
    <3> QED
      BY <2>1, <2>2, <3>1, SetInduction
  <2>4. L \in T
    BY <1>1, <2>3
  <2>5. L + 1 - L = 1 /\ L <= L
    BY <1>1
  <2> QED
    BY <2>4, <2>5
<1>7. f[1] \in Seq(Request) /\ DOMAIN f[1] = 1..Len(f[1])
  BY <1>6, LenProperties
<1>8. ASSUME NEW r \in Range(f[1]) PROVE r \in Range(waiting) /\ Usable(r, K, I) = {}
  <2>1. PICK k \in DOMAIN f[1] : r = f[1][k]
    BY DEF Range
  <2> QED
    BY <1>6, <1>7, <2>1
<1>9. ASSUME NEW r \in Range(waiting) \ Range(f[1]) PROVE Usable(r, K, I) # {} \/ Two
  BY <1>6, <1>9
<1> HIDE DEF Good
<1> QED
  BY <1>2, <1>7, <1>8, <1>9

-----------------------------------------------------------------------------
(* The requests, and what the RSA is told.                                 *)

RequestTypes ==
  /\ phase \in {"created", "listening", "serving", "telling", "running", "deaf",
                "closing", "unlistened", "stopped", "destroyed"}
  /\ waiting \in Seq(Request)
  /\ leaked \in [WA -> SUBSET Endpoint]
  /\ told \subseteq Endpoint \X Request
  /\ asked \subseteq Request /\ dropped \subseteq asked
  /\ fault \in {"none", "freed admin", "null admin", "null registration", "null service"}

\* TypeOK is in two parts
LEMMA TypeParts ==
  /\ TypeOK <=> /\ RequestTypes /\ waList \in Seq(WA) /\ waPc \in [WA -> Pc]
                /\ known \subseteq Endpoint /\ imp \in [Endpoint -> [WA -> Nat]]
                /\ send \in [WA -> SUBSET Endpoint]
                /\ late \subseteq WA \X Endpoint /\ early \subseteq WA \X Endpoint
  /\ IInv /\ RequestTypes => TypeOK
BY DEF TypeOK, RequestTypes, IInv, TablesOK, Pc

LEMMA Waiters ==
  ASSUME RInv
  PROVE  /\ Range(waiting) \subseteq Request /\ Range(waiting) \subseteq asked
         /\ Range(waList) \subseteq WA /\ (waList # <<>> => LastWA \in WA)
         /\ \A w \in WA : waPc[w] \in {"listed", "tracked"} => w \in Range(waList)
<1>1. /\ waiting \in Seq(Request) /\ waList \in Seq(WA) /\ Range(waiting) \subseteq asked
      /\ \A w \in WA : waPc[w] \in {"listed", "tracked"} => w \in Range(waList)
  BY DEF RInv, TypeOK, WaitInv, IInv, ListInv
<1>2. \A s \in Seq(Request) : Range(s) \subseteq Request
  BY DEF Range
<1>3. \A s \in Seq(WA) : Range(s) \subseteq WA
  BY DEF Range
<1>4. waList # <<>> => LastWA \in WA
  <2>1. ASSUME waList # <<>> PROVE Len(waList) \in 1..Len(waList)
    BY <1>1, <2>1, EmptySeq, LenProperties
  <2> QED
    BY <1>1, <2>1, ElementOfSeq DEF LastWA
<1> QED
  BY <1>1, <1>2, <1>3, <1>4

\* With admins of one configuration, every matching endpoint is usable as soon
\* as an admin is listed.
LEMMA UsableAll ==
  ASSUME RInv, \A w \in WA, e \in Endpoint : Same(w, e), waList # <<>>,
         NEW r, NEW K \in SUBSET Endpoint, NEW I
  PROVE  Usable(r, K, I) = K \cap Matches[r]
<1>1. \A e \in K : Same(LastWA, e)
  BY Waiters
<1> QED
  BY <1>1 DEF Usable

\* the step that looks at the waiting requests again
LEMMA ServeStep ==
  ASSUME RInv, NEW K \in SUBSET Endpoint, known \subseteq K, known' = K,
         NEW N, CheckWaiting(K, imp, N, send), UNCHANGED <<phase, waList, asked>>,
         \A w \in WA : waPc'[w] = "tracked" => w \in Range(waList)
  PROVE  /\ waiting' \in Seq(Request) /\ told' \subseteq Endpoint \X Request
         /\ WaitInv' /\ RequestsExact'
<1> DEFINE I == Added(imp, N)
           New == {x \in K \X Range(waiting) : x[1] \in Usable(x[2], K, I)}
<1>1. waiting' = Survivors(K, I) /\ told' = IF Telling THEN told \cup New ELSE told
  BY DEF CheckWaiting, Tell
<1> HIDE DEF I
<1>2. waiting \in Seq(Request) /\ told \subseteq Endpoint \X Request
  BY DEF RInv, TypeOK
<1>3. /\ waiting' \in Seq(Request)
      /\ \A r \in Range(waiting') : r \in Range(waiting) /\ Usable(r, K, I) = {}
  BY <1>1, <1>2, SurvivorsAre
<1>4. /\ New \subseteq Endpoint \X Request
      /\ \A x \in New : /\ x[1] \in K /\ x[2] \in Range(waiting)
                        /\ Usable(x[2], K, I) # {}
  BY Waiters
<1> HIDE DEF New
<1>5. told' \subseteq told \cup New
  BY <1>1
<1>6. told' \subseteq Endpoint \X Request
  BY <1>2, <1>4, <1>5
<1>7. ASSUME NEW x \in told' PROVE x[2] \in asked /\ x[2] \notin Range(waiting')
  <2>1. CASE x \in told
    BY <1>3, <2>1 DEF RInv, WaitInv
  <2>2. CASE x \in New
    BY <1>3, <1>4, <2>2, Waiters
  <2> QED
    BY <1>5, <1>7, <2>1, <2>2
<1>8. WaitInv'
  BY <1>3, <1>7, Waiters DEF WaitInv, Range
<1>9. ASSUME Telling, NEW x \in told' PROVE x[1] \in K
  BY <1>4, <1>5, <1>9 DEF RInv, RequestsExact
<1>10. ASSUME NEW r \in Range(waiting'), \A w \in WA, e \in Endpoint : Same(w, e),
              K \cap Matches[r] # {}, NEW w \in WA
       PROVE  waPc'[w] # "tracked"
  <2>1. SUFFICES ASSUME waPc'[w] = "tracked" PROVE FALSE
    OBVIOUS
  <2>2. waList # <<>>
    BY <2>1 DEF Range
  <2>3. Usable(r, K, I) = K \cap Matches[r]
    BY <1>10, <2>2, UsableAll
  <2> QED
    BY <1>3, <1>10, <2>3
<1>11. \A r \in Range(waiting') : \A e \in K : <<e, r>> \notin told'
  BY <1>7
<1>12. RequestsExact'
  BY <1>9, <1>10, <1>11 DEF RequestsExact, Telling, Range, Same
<1> QED
  BY <1>3, <1>6, <1>8, <1>12

-----------------------------------------------------------------------------
(* The steps, for the rest of the invariant.                               *)

ReqInv == RequestTypes /\ PhaseInv /\ WaitInv /\ LateInv /\ RequestsExact

LEMMA Parts == RInv <=> IInv /\ ReqInv
BY TypeParts DEF RInv, ReqInv

\* what the steps in which admins import keep
LEMMA ImportMore ==
  ASSUME RInv, fault = "none", NEW N, Import(N, imp, send),
         \A w \in WA : waPc'[w] = "cleaned" => waPc[w] = "cleaned"
  PROVE  leaked' \in [WA -> SUBSET Endpoint] /\ LateInv'
<1>1. /\ leaked \in [WA -> SUBSET Endpoint] /\ send \in [WA -> SUBSET Endpoint]
      /\ \A w \in WA, e \in Endpoint : imp[e][w] \in Nat
  BY DEF RInv, TypeOK
<1>2. leaked' \in [WA -> SUBSET Endpoint]
  BY <1>1 DEF Import
<1>3. \A e \in Endpoint, w \in WA :
        imp'[e][w] = imp[e][w] + (IF <<w, e>> \in N THEN 1 ELSE 0)
  BY DEF Import, Added
<1>4. \A w \in WA, e \in Endpoint : e \in send'[w] <=> e \in send[w] \/ <<w, e>> \in N
  BY <1>1 DEF Import
<1>5. ASSUME NEW w \in WA, NEW e \in Endpoint, waPc'[w] = "cleaned", e \in send'[w]
      PROVE  imp'[e][w] > 0
  <2>1. waPc[w] = "cleaned" /\ imp[e][w] \in Nat
    BY <1>1, <1>5
  <2>2. CASE <<w, e>> \in N
    BY <1>3, <2>1, <2>2
  <2>3. CASE <<w, e>> \notin N
    <3>1. e \in send[w]
      BY <1>4, <1>5, <2>3
    <3>2. imp[e][w] > 0
      BY <2>1, <3>1 DEF RInv, LateInv
    <3> QED
      BY <1>3, <2>1, <2>3, <3>2
  <2> QED
    BY <2>2, <2>3
<1> QED
  BY <1>2, <1>5 DEF LateInv

LEMMA AddedReq ==
  ASSUME RInv, NEW e \in Endpoint, WiringEndpointAdded(e)
  PROVE  ReqInv'
<1> DEFINE K == known \cup {e}
<1>1. /\ fault = "none" /\ known' = K /\ CheckWaiting(K, imp, {}, send)
      /\ UNCHANGED <<phase, waList, waPc, asked, dropped>>
      /\ fault' \in {"none", "null service"}
  BY DEF WiringEndpointAdded, CheckWaiting
<1>2. known \subseteq K /\ K \in SUBSET Endpoint
  BY DEF RInv, TypeOK
<1>3. \A w \in WA : waPc'[w] = "tracked" => w \in Range(waList)
  BY <1>1, Waiters
<1>4. PICK N : Import(N, imp, send)
  BY <1>1 DEF CheckWaiting
<1>5. ~Telling => told' = told
  BY <1>1 DEF CheckWaiting, Tell
<1> HIDE DEF K
<1>6. /\ waiting' \in Seq(Request) /\ told' \subseteq Endpoint \X Request
      /\ WaitInv' /\ RequestsExact'
  BY <1>1, <1>2, <1>3, ServeStep
<1>7. leaked' \in [WA -> SUBSET Endpoint] /\ LateInv'
  BY <1>1, <1>4, ImportMore
<1>8. PhaseInv'
  BY <1>1, <1>5 DEF RInv, PhaseInv, Telling
<1>9. RequestTypes'
  BY <1>1, <1>6, <1>7 DEF RInv, TypeOK, RequestTypes
<1> QED
  BY <1>6, <1>7, <1>8, <1>9 DEF ReqInv

LEMMA WaAddedReq ==
  ASSUME RInv, NEW w \in WA, WaAddedImport(w)
  PROVE  ReqInv'
<1> DEFINE M == {w} \X {e \in known : Same(w, e)}
<1>1. /\ fault = "none" /\ known' = known /\ CheckWaiting(known, imp, M, send)
      /\ waPc[w] = "listed" /\ waPc' = [waPc EXCEPT ![w] = "tracked"]
      /\ UNCHANGED <<phase, waList, asked, dropped>>
      /\ fault' \in {"none", "null service"}
  BY DEF WaAddedImport, CheckWaiting
<1> HIDE DEF M
<1>2. known \in SUBSET Endpoint /\ waPc \in [WA -> Pc]
  BY DEF RInv, TypeOK, Pc
<1>3. waPc'[w] = "tracked" /\ \A v \in WA : v # w => waPc'[v] = waPc[v]
  BY <1>1, <1>2
<1>4. \A v \in WA : waPc'[v] = "tracked" => v \in Range(waList)
  BY <1>1, <1>3, Waiters
<1>5. PICK N : Import(N, imp, send)
  BY <1>1 DEF CheckWaiting
<1>6. ~Telling => told' = told
  BY <1>1 DEF CheckWaiting, Tell
<1>7. /\ waiting' \in Seq(Request) /\ told' \subseteq Endpoint \X Request
      /\ WaitInv' /\ RequestsExact'
  BY <1>1, <1>2, <1>4, ServeStep
<1>8. leaked' \in [WA -> SUBSET Endpoint] /\ LateInv'
  BY <1>1, <1>3, <1>5, ImportMore
<1>9. PhaseInv'
  BY <1>1, <1>6 DEF RInv, PhaseInv, Telling
<1>10. RequestTypes'
  BY <1>1, <1>7, <1>8 DEF RInv, TypeOK, RequestTypes
<1> QED
  BY <1>7, <1>8, <1>9, <1>10 DEF ReqInv

LEMMA RequestReq ==
  ASSUME RInv, NEW r \in Request, ImportWiringEndpoint(r)
  PROVE  ReqInv'
<1> DEFINE U == Usable(r, known, imp)
<1>1. /\ fault = "none" /\ r \notin asked /\ asked' = asked \cup {r}
      /\ told' = IF Telling THEN told \cup (U \X ({r} \ Unnamed)) ELSE told
      /\ waiting' = IF U = {} THEN Append(waiting, r) ELSE waiting
      /\ Import(NewImports(r, known, imp), imp, send)
      /\ UNCHANGED <<phase, waList, waPc, known, dropped, fault>>
  BY DEF ImportWiringEndpoint, Tell
<1>2. U \subseteq known /\ known \in SUBSET Endpoint
  BY DEF Usable, RInv, TypeOK
<1>3. /\ waiting \in Seq(Request) /\ told \subseteq Endpoint \X Request
      /\ \A x \in told : x[2] \in asked /\ x[2] \notin Range(waiting)
      /\ \A w \in WA : waPc[w] = "tracked" => waList # <<>>
  <2>1. \A w \in WA : w \in Range(waList) => waList # <<>>
    BY DEF Range
  <2> QED
    BY <2>1, Waiters DEF RInv, TypeOK, WaitInv
<1>4. waiting' \in Seq(Request) /\ Range(waiting') = Range(waiting) \cup (IF U = {} THEN {r} ELSE {})
  <2>1. CASE U = {}
    <3>1. /\ Append(waiting, r) \in Seq(Request) /\ Len(waiting) \in Nat
          /\ DOMAIN Append(waiting, r) = 1..(Len(waiting) + 1) /\ DOMAIN waiting = 1..Len(waiting)
          /\ \A i \in 1..Len(waiting) : Append(waiting, r)[i] = waiting[i]
          /\ Append(waiting, r)[Len(waiting) + 1] = r
      BY <1>3, AppendProperties
    <3>2. \A i \in 1..(Len(waiting) + 1) : i \in 1..Len(waiting) \/ i = Len(waiting) + 1
      BY <3>1
    <3>3. Range(Append(waiting, r)) = Range(waiting) \cup {r}
      <4>1. Range(Append(waiting, r)) \subseteq Range(waiting) \cup {r}
        BY <3>1, <3>2 DEF Range
      <4>2. Range(waiting) \subseteq Range(Append(waiting, r))
        BY <3>1 DEF Range
      <4>3. r \in Range(Append(waiting, r))
        BY <3>1 DEF Range
      <4> QED
        BY <4>1, <4>2, <4>3
    <3> QED
      BY <1>1, <2>1, <3>1, <3>3
  <2>2. CASE U # {}
    BY <1>1, <1>3, <2>2
  <2> QED
    BY <2>1, <2>2
<1>6. ASSUME \A w \in WA, e \in Endpoint : Same(w, e), waList # <<>>
      PROVE  U = known \cap Matches[r]
  BY <1>2, <1>6, UsableAll
<1> HIDE DEF U
<1>7. \A x \in U \X ({r} \ Unnamed) : x[1] \in known /\ x[2] = r /\ x \in Endpoint \X Request
  BY <1>2
<1>8. told' \subseteq Endpoint \X Request
  BY <1>1, <1>3, <1>7
<1>9. ASSUME NEW x \in told' PROVE x[2] \in asked' /\ x[2] \notin Range(waiting')
  <2>1. CASE x \in told
    BY <1>1, <1>3, <1>4, <2>1
  <2>2. CASE x \notin told
    <3>1. x[2] = r /\ U # {}
      BY <1>1, <1>7, <1>9, <2>2
    <3>2. r \notin Range(waiting)
      BY <1>1, Waiters
    <3> QED
      BY <1>1, <1>4, <3>1, <3>2
  <2> QED
    BY <2>1, <2>2
<1>10. WaitInv'
  <2>1. Range(waiting') \subseteq asked'
    BY <1>1, <1>4, Waiters
  <2> QED
    BY <1>9, <2>1 DEF WaitInv, Range
<1>11. ASSUME Telling, NEW x \in told' PROVE x[1] \in known
  BY <1>1, <1>7, <1>11 DEF RInv, RequestsExact
<1>12. ASSUME NEW q \in Range(waiting'), \A w \in WA, e \in Endpoint : Same(w, e),
              known \cap Matches[q] # {}, NEW w \in WA
       PROVE  waPc[w] # "tracked"
  <2>1. CASE q \in Range(waiting)
    BY <1>12, <2>1 DEF RInv, RequestsExact
  <2>2. CASE q \notin Range(waiting)
    BY <1>3, <1>4, <1>6, <1>12, <2>2
  <2> QED
    BY <2>1, <2>2
<1>13. \A q \in Range(waiting') : \A e \in known : <<e, q>> \notin told'
  BY <1>9
<1>14. RequestsExact'
  BY <1>1, <1>11, <1>12, <1>13 DEF RequestsExact, Telling, Range, Same
<1>15. leaked' \in [WA -> SUBSET Endpoint] /\ LateInv'
  BY <1>1, ImportMore
<1>16. PhaseInv'
  BY <1>1 DEF RInv, PhaseInv, Telling
<1>17. RequestTypes'
  BY <1>1, <1>4, <1>8, <1>15 DEF RInv, TypeOK, RequestTypes
<1> QED
  BY <1>10, <1>14, <1>15, <1>16, <1>17 DEF ReqInv

\* what the steps in which admins stop importing keep
LEMMA StopMore ==
  ASSUME RInv, NEW E \in SUBSET Endpoint, UNCHANGED waPc,
         imp' = [e \in Endpoint |-> IF e \in E THEN NoList ELSE imp[e]],
         fault = "none", StopImport(ImportersOf(E))
  PROVE  LateInv'
<1>1. \A w \in WA, e \in Endpoint :
        e \in send'[w] <=> e \in send[w] /\ ~(e \in E /\ imp[e][w] > 0)
  BY DEF StopImport, ImportersOf, RInv, TypeOK
<1>2. ASSUME NEW w \in WA, NEW e \in Endpoint, waPc'[w] = "cleaned", e \in send'[w]
      PROVE  imp'[e][w] > 0
  <2>1. imp[e][w] > 0
    BY <1>1, <1>2 DEF RInv, LateInv
  <2>2. e \notin E
    BY <1>1, <1>2, <2>1
  <2> QED
    BY <2>1, <2>2
<1> QED
  BY <1>2 DEF LateInv

LEMMA RemovedReq ==
  ASSUME RInv, NEW e \in Endpoint, WiringEndpointRemoved(e)
  PROVE  ReqInv'
<1>1. /\ fault = "none" /\ known' = known \ {e}
      /\ imp' = [imp EXCEPT ![e] = NoList]
      /\ StopImport(ImportersOf({e}))
      /\ told' = IF Telling THEN {x \in told : x[1] # e} ELSE told
      /\ fault' \in {"none", "freed admin", "null registration"}
      /\ UNCHANGED <<phase, waList, waPc, waiting, leaked, asked, dropped>>
  BY DEF WiringEndpointRemoved
<1>2. told' \subseteq told
  BY <1>1
<1>3. LateInv'
  <2>1. imp' = [d \in Endpoint |-> IF d \in {e} THEN NoList ELSE imp[d]]
    BY <1>1 DEF RInv, TypeOK
  <2> QED
    BY <1>1, <2>1, StopMore
<1>4. RequestTypes'
  BY <1>1, <1>2 DEF RInv, TypeOK, RequestTypes
<1>5. PhaseInv' /\ WaitInv'
  BY <1>1, <1>2 DEF RInv, PhaseInv, WaitInv, Range
<1>6. ASSUME Telling, NEW x \in told' PROVE x[1] \in known'
  BY <1>1, <1>6 DEF RInv, RequestsExact
<1>7. RequestsExact'
  <2>1. \A r \in Range(waiting) : \A d \in known' : <<d, r>> \notin told'
    BY <1>1, <1>2 DEF RInv, RequestsExact
  <2>2. ASSUME NEW r \in Range(waiting), \A w \in WA, d \in Endpoint : Same(w, d),
               known' \cap Matches[r] # {}
        PROVE  \A w \in WA : waPc[w] # "tracked"
    BY <1>1, <2>2 DEF RInv, RequestsExact
  <2> QED
    BY <1>1, <1>6, <2>1, <2>2 DEF RequestsExact, Telling, Range, Same
<1> QED
  BY <1>3, <1>4, <1>5, <1>7 DEF ReqInv

LEMMA RemoveImportedReq ==
  ASSUME RInv, NEW r \in Request, RemoveImportedWiringEndpoint(r)
  PROVE  ReqInv'
<1> DEFINE M == known \cap Matches[r]
<1>1. /\ fault = "none" /\ r \in asked /\ dropped' = dropped \cup {r}
      /\ imp' = [e \in Endpoint |-> IF e \in M THEN NoList ELSE imp[e]]
      /\ StopImport(ImportersOf(M))
      /\ UNCHANGED <<phase, waList, waPc, known, waiting, leaked, told, asked>>
  BY DEF RemoveImportedWiringEndpoint
<1>2. fault' \in {"none", "freed admin", "null admin", "null registration"}
  BY DEF RemoveImportedWiringEndpoint
<1>3. LateInv'
  <2>1. M \in SUBSET Endpoint
    BY DEF RInv, TypeOK
  <2> HIDE DEF M
  <2> QED
    BY <1>1, <2>1, StopMore
<1>4. RequestTypes'
  BY <1>1, <1>2 DEF RInv, TypeOK, RequestTypes
<1>5. PhaseInv' /\ WaitInv' /\ RequestsExact'
  BY <1>1 DEF RInv, PhaseInv, WaitInv, RequestsExact, Telling, Range, Same
<1> QED
  BY <1>3, <1>4, <1>5 DEF ReqInv

LEMMA WaListReq ==
  ASSUME RInv, NEW w \in WA, WaAddedList(w) \/ WaRemovedList(w)
  PROVE  ReqInv'
<1>1. /\ fault = "none"
      /\ UNCHANGED <<phase, known, imp, waiting, send, leaked, told, asked, dropped, fault>>
  BY DEF WaAddedList, WaRemovedList
<1>2. \E pc \in {"listed", "gone", "released"} : waPc' = [waPc EXCEPT ![w] = pc]
  BY DEF WaAddedList, WaRemovedList
<1>3. \A v \in WA : waPc'[v] \in {"tracked", "cleaned"} => waPc'[v] = waPc[v]
  BY <1>2 DEF RInv, TypeOK
<1>4. PhaseInv'
  <2>1. waList # <<>> \/ phase \in {"running", "deaf"}
    <3>1. CASE WaAddedList(w)
      BY <3>1 DEF WaAddedList
    <3>2. CASE WaRemovedList(w)
      <4>1. w \in Range(waList)
        BY <3>2 DEF WaRemovedList, RInv, IInv, ListInv
      <4> QED
        BY <4>1 DEF Range
    <3> QED
      BY <3>1, <3>2
  <2>2. phase \notin {"created", "listening", "serving", "telling"}
    BY <2>1 DEF RInv, PhaseInv
  <2> QED
    BY <1>1, <2>2 DEF PhaseInv
<1>5. RequestTypes' /\ WaitInv'
  BY <1>1 DEF RInv, TypeOK, RequestTypes, WaitInv, Range
<1>6. LateInv'
  BY <1>1, <1>3 DEF RInv, LateInv
<1>7. RequestsExact'
  <2>1. Telling => \A x \in told : x[1] \in known
    BY DEF RInv, RequestsExact
  <2>2. ASSUME NEW r \in Range(waiting)
        PROVE  /\ \A e \in known : <<e, r>> \notin told
               /\ (\A v \in WA, e \in Endpoint : Same(v, e)) /\ known \cap Matches[r] # {} =>
                    \A v \in WA : waPc'[v] # "tracked"
    BY <1>3 DEF RInv, RequestsExact
  <2> QED
    BY <1>1, <2>1, <2>2 DEF RequestsExact, Telling, Range, Same
<1> QED
  BY <1>4, <1>5, <1>6, <1>7 DEF ReqInv

LEMMA WaRemovedReq ==
  ASSUME RInv, NEW w \in WA, WaRemovedImport(w)
  PROVE  ReqInv'
<1>1. /\ fault = "none" /\ waPc[w] = "tracked"
      /\ waPc' = [waPc EXCEPT ![w] = "cleaned"]
      /\ imp' = [e \in Endpoint |->
                   IF e \in known /\ imp[e][w] = 0 THEN [imp[e] EXCEPT ![w] = 1] ELSE imp[e]]
      /\ StopImport({w} \X {e \in known : imp[e][w] > 0})
      /\ fault' \in {"none", "null registration"}
      /\ UNCHANGED <<phase, waList, known, waiting, leaked, told, asked, dropped>>
  BY DEF WaRemovedImport
<1>2. waPc'[w] = "cleaned" /\ \A v \in WA : v # w => waPc'[v] = waPc[v]
  BY <1>1 DEF RInv, TypeOK
<1>3. \A v \in WA, e \in Endpoint : v # w => imp'[e][v] = imp[e][v]
  BY <1>1 DEF RInv, TypeOK
<1>4. \A v \in WA : send'[v] = IF v = w THEN {e \in send[w] : ~(e \in known /\ imp[e][w] > 0)}
                                       ELSE send[v]
  BY <1>1 DEF StopImport, RInv, TypeOK
<1>5. send'[w] = {}
  BY <1>1, <1>4 DEF RInv, IInv, TypeOK, SendInv
<1>6. LateInv'
  BY <1>1, <1>2, <1>3, <1>4, <1>5 DEF RInv, LateInv
<1>7. RequestTypes'
  BY <1>1 DEF RInv, TypeOK, RequestTypes
<1>8. PhaseInv' /\ WaitInv'
  BY <1>1 DEF RInv, PhaseInv, WaitInv, Range
<1>9. RequestsExact'
  <2>1. Telling => \A x \in told : x[1] \in known
    BY DEF RInv, RequestsExact
  <2>2. ASSUME NEW r \in Range(waiting)
        PROVE  /\ \A e \in known : <<e, r>> \notin told
               /\ (\A v \in WA, e \in Endpoint : Same(v, e)) /\ known \cap Matches[r] # {} =>
                    \A v \in WA : waPc'[v] # "tracked"
    BY <1>2 DEF RInv, RequestsExact
  <2> QED
    BY <1>1, <2>1, <2>2 DEF RequestsExact, Telling, Range, Same
<1> QED
  BY <1>6, <1>7, <1>8, <1>9 DEF ReqInv

LEMMA LifeReq ==
  ASSUME RInv,
         \/ StartListening \/ StartServing \/ StartTelling \/ StartTracking
         \/ StopTelling \/ StopTracking \/ StopListening \/ StopServing \/ Destroy
         \/ UNCHANGED vars
  PROVE  ReqInv'
<1>1. UNCHANGED <<waList, waPc, known, imp, waiting, send, leaked, told, asked, dropped, fault>>
  BY DEF StartListening, StartServing, StartTelling, StartTracking, StopTelling,
     StopTracking, StopListening, StopServing, Destroy, Goes, vars
<1>2. /\ phase' \in {"created", "listening", "serving"} => told = {}
      /\ phase' \in {"created", "listening", "serving", "telling"} => waList = <<>>
      /\ phase' \in {"telling", "running"} => Telling \/ told = {}
      /\ phase' \in {"created", "listening", "serving", "telling", "running", "deaf",
                     "closing", "unlistened", "stopped", "destroyed"}
  BY DEF StartListening, StartServing, StartTelling, StartTracking, StopTelling,
     StopTracking, StopListening, StopServing, Destroy, Goes, vars, RInv, PhaseInv,
     TypeOK, Telling
<1>3. RequestTypes'
  BY <1>1, <1>2 DEF RInv, TypeOK, RequestTypes
<1>4. PhaseInv'
  BY <1>1, <1>2 DEF PhaseInv
<1>5. WaitInv' /\ LateInv'
  BY <1>1 DEF RInv, WaitInv, LateInv, Range
<1>6. RequestsExact'
  BY <1>1, <1>2 DEF RInv, RequestsExact, Telling, Range, Same
<1> QED
  BY <1>3, <1>4, <1>5, <1>6 DEF ReqInv

LEMMA InitReq == ASSUME Init PROVE RInv
<1>1. waiting \in Seq(Request) /\ Range(waiting) = {}
  BY DEF Init, Range
<1>2. ReqInv
  BY <1>1 DEF Init, ReqInv, RequestTypes, PhaseInv, WaitInv, LateInv, RequestsExact, Telling
<1> QED
  BY <1>2, InitInv, Parts

LEMMA RInductive == Spec => []RInv
<1>1. Init => RInv
  BY InitReq
<1>2. IInv /\ [Next]_vars => IInv'
  BY AddedStep, RemovedStep, RequestStep, RemoveImportedStep, WaAddedStep, WaListStep,
     WaRemovedStep, LifeStep DEF Next
<1>3. RInv /\ [Next]_vars => ReqInv'
  BY AddedReq, RemovedReq, RequestReq, RemoveImportedReq, WaAddedReq, WaListReq,
     WaRemovedReq, LifeReq DEF Next
<1>4. RInv /\ [Next]_vars => RInv'
  <2>1. RInv <=> IInv /\ ReqInv
    BY Parts
  <2>2. IInv' /\ ReqInv' => RInv'
    BY Parts, PTL
  <2> QED
    BY <1>2, <1>3, <2>1, <2>2
<1> QED
  BY <1>1, <1>4, PTL DEF Spec

(* waList, waitingForImport, the tables of imports and of send services    *)
(* and what the listeners were told keep their types.                      *)
THEOREM TypeCorrect == Spec => []TypeOK
<1>1. RInv => TypeOK
  BY DEF RInv
<1> QED
  BY <1>1, RInductive, PTL

(* The RSA keeps no wire of a withdrawn endpoint, a request that waits was *)
(* not served, and with admins of one configuration none waits beside a    *)
(* matching endpoint once an admin has been handled.                       *)
THEOREM RequestsAreExact == Spec => []RequestsExact
<1>1. RInv => RequestsExact
  BY DEF RInv
<1> QED
  BY <1>1, RInductive, PTL

-----------------------------------------------------------------------------
(* What a step may lose.                                                   *)

\* An import of a listed admin that is in no list replaces no registration.
LEMMA NothingLeaks ==
  ASSUME RInv, fault = "none", NEW N, Import(N, imp, send),
         \A w \in WA, e \in Endpoint : <<w, e>> \in N => imp[e][w] = 0 /\ w \in Range(waList)
  PROVE  leaked' = leaked
<1>1. /\ leaked \in [WA -> SUBSET Endpoint] /\ send \in [WA -> SUBSET Endpoint]
      /\ leaked' = [w \in WA |-> leaked[w] \cup {e \in send[w] : <<w, e>> \in N}]
  BY DEF Import, RInv, TypeOK
<1>2. ASSUME NEW w \in WA, NEW e \in send[w], <<w, e>> \in N PROVE FALSE
  <2>1. e \in Endpoint
    BY <1>1
  <2>2. imp[e][w] = 0 /\ w \in Range(waList)
    BY <1>2, <2>1
  <2>3. waPc[w] \in {"listed", "tracked", "cleaned"}
    BY <2>2 DEF RInv, IInv, ListInv
  <2>4. imp[e][w] > 0
    BY <2>1, <2>3 DEF RInv, IInv, SendInv, LateInv
  <2> QED
    BY <2>2, <2>4
<1>3. \A w \in WA : leaked[w] \cup {e \in send[w] : <<w, e>> \in N} = leaked[w]
  BY <1>2
<1>4. leaked' = [w \in WA |-> leaked[w]]
  BY <1>1, <1>3
<1> QED
  BY <1>1, <1>4

LEMMA LeakedStep ==
  ASSUME RInv, [Next]_vars, leaked' # leaked
  PROVE  \E w \in WA : waPc[w] = "listed" /\ waPc'[w] = "tracked"
<1>1. CASE \E e \in Endpoint : WiringEndpointAdded(e)
  <2>1. PICK e \in Endpoint : WiringEndpointAdded(e)
    BY <1>1
  <2> DEFINE K == known \cup {e}
             none == {}
  <2>2. K \in SUBSET Endpoint /\ fault = "none" /\ IInv /\ CheckWaiting(K, imp, none, send)
    BY <2>1 DEF WiringEndpointAdded, RInv, TypeOK
  <2>3. none \in SUBSET (WA \X K) /\ \A x : x \notin none
    OBVIOUS
  <2> HIDE DEF K, none
  <2>4. PICK N \in SUBSET (WA \X K) :
          /\ Import(N, imp, send)
          /\ \A w \in WA, d \in Endpoint : <<w, d>> \in N =>
               \/ imp[d][w] = 0 /\ w \in Range(waList)
               \/ <<w, d>> \in none
    BY <2>2, <2>3, CheckWaitingImports
  <2>5. leaked' = leaked
    BY <2>2, <2>3, <2>4, NothingLeaks
  <2> QED
    BY <2>5
<1>2. CASE \E r \in Request : ImportWiringEndpoint(r)
  <2>1. PICK r \in Request : ImportWiringEndpoint(r)
    BY <1>2
  <2> DEFINE N == NewImports(r, known, imp)
  <2>2. fault = "none" /\ Import(N, imp, send)
    BY <2>1 DEF ImportWiringEndpoint
  <2>3. \A w \in WA, e \in Endpoint : <<w, e>> \in N => imp[e][w] = 0 /\ w \in Range(waList)
    BY DEF NewImports
  <2> HIDE DEF N
  <2>4. leaked' = leaked
    BY <2>2, <2>3, NothingLeaks
  <2> QED
    BY <2>4
<1>3. CASE \E w \in WA : WaAddedImport(w)
  <2>1. PICK w \in WA : WaAddedImport(w)
    BY <1>3
  <2>2. waPc[w] = "listed" /\ waPc'[w] = "tracked"
    BY <2>1 DEF WaAddedImport, RInv, TypeOK
  <2> QED
    BY <2>2
<1>4. \/ \E e \in Endpoint : WiringEndpointAdded(e)
      \/ \E r \in Request : ImportWiringEndpoint(r)
      \/ \E w \in WA : WaAddedImport(w)
  BY DEF Next, vars, StartListening, StartServing, StartTelling, StartTracking, StopTelling,
     StopTracking, StopListening, StopServing, Destroy, Goes, WiringEndpointRemoved,
     RemoveImportedWiringEndpoint, WaAddedList, WaRemovedImport, WaRemovedList
<1> QED
  BY <1>1, <1>2, <1>3, <1>4

\* What was imported before waAdded told the admin of the known endpoints, and
\* so what it may import again, is in early.
EarlyInv ==
  \A w \in WA :
    /\ \A e \in leaked[w] : <<w, e>> \in early
    /\ waPc[w] = "listed" => \A e \in send[w] : <<w, e>> \in early

LEMMA EarlyKeeps ==
  ASSUME RInv, EarlyInv, fault = "none",
         \A w \in WA : waPc'[w] = waPc[w] \/ (waPc[w] = "listed" /\ waPc'[w] = "tracked"),
         NEW N, Import(N, imp, send),
         \A w \in WA, e \in Endpoint : <<w, e>> \in N =>
           \/ imp[e][w] = 0 /\ w \in Range(waList)
           \/ waPc[w] = "listed"
  PROVE  EarlyInv'
<1>1. /\ leaked \in [WA -> SUBSET Endpoint] /\ send \in [WA -> SUBSET Endpoint]
      /\ early' = early \cup {x \in N : waPc'[x[1]] = "listed"}
      /\ \A w \in WA : /\ leaked'[w] = leaked[w] \cup {e \in send[w] : <<w, e>> \in N}
                        /\ send'[w] = send[w] \cup {e \in Endpoint : <<w, e>> \in N}
  BY DEF Import, RInv, TypeOK
<1>2. ASSUME NEW w \in WA, NEW e \in leaked'[w] PROVE <<w, e>> \in early'
  <2>1. CASE e \in leaked[w]
    BY <1>1, <2>1 DEF EarlyInv
  <2>2. CASE e \in send[w] /\ waPc[w] = "listed"
    BY <1>1, <2>2 DEF EarlyInv
  <2>3. CASE e \in send[w] /\ <<w, e>> \in N /\ waPc[w] # "listed"
    <3>1. e \in Endpoint /\ imp[e][w] = 0 /\ w \in Range(waList)
      BY <1>1, <2>3
    <3>2. waPc[w] \in {"listed", "tracked", "cleaned"}
      BY <3>1 DEF RInv, IInv, ListInv
    <3>3. imp[e][w] > 0
      BY <2>3, <3>1, <3>2 DEF RInv, IInv, SendInv, LateInv
    <3> QED
      BY <3>1, <3>3
  <2> QED
    BY <1>1, <1>2, <2>1, <2>2, <2>3
<1>3. ASSUME NEW w \in WA, waPc'[w] = "listed", NEW e \in send'[w]
      PROVE  <<w, e>> \in early'
  <2>1. waPc[w] = "listed"
    BY <1>3
  <2>2. CASE e \in send[w]
    BY <1>1, <2>1, <2>2 DEF EarlyInv
  <2>3. CASE <<w, e>> \in N
    BY <1>1, <1>3, <2>3
  <2> QED
    BY <1>1, <1>3, <2>2, <2>3
<1> QED
  BY <1>2, <1>3 DEF EarlyInv

LEMMA EarlyStep ==
  ASSUME RInv, EarlyInv, [Next]_vars
  PROVE  EarlyInv'
<1>1. ASSUME NEW e \in Endpoint, WiringEndpointAdded(e) PROVE EarlyInv'
  <2> DEFINE K == known \cup {e}
             none == {}
  <2>1. /\ K \in SUBSET Endpoint /\ fault = "none" /\ IInv /\ UNCHANGED waPc
        /\ CheckWaiting(K, imp, none, send)
    BY <1>1 DEF WiringEndpointAdded, RInv, TypeOK
  <2>2. none \in SUBSET (WA \X K) /\ \A x : x \notin none
    OBVIOUS
  <2> HIDE DEF K, none
  <2>3. PICK N \in SUBSET (WA \X K) :
          /\ Import(N, imp, send)
          /\ \A w \in WA, d \in Endpoint : <<w, d>> \in N =>
               \/ imp[d][w] = 0 /\ w \in Range(waList)
               \/ <<w, d>> \in none
    BY <2>1, <2>2, CheckWaitingImports
  <2> QED
    BY <2>1, <2>2, <2>3, EarlyKeeps
<1>2. ASSUME NEW r \in Request, ImportWiringEndpoint(r) PROVE EarlyInv'
  <2> DEFINE N == NewImports(r, known, imp)
  <2>1. fault = "none" /\ Import(N, imp, send) /\ UNCHANGED waPc
    BY <1>2 DEF ImportWiringEndpoint
  <2>2. \A w \in WA, e \in Endpoint : <<w, e>> \in N => imp[e][w] = 0 /\ w \in Range(waList)
    BY DEF NewImports
  <2> HIDE DEF N
  <2> QED
    BY <2>1, <2>2, EarlyKeeps
<1>3. ASSUME NEW w \in WA, WaAddedImport(w) PROVE EarlyInv'
  <2> DEFINE M == {w} \X {e \in known : Same(w, e)}
  <2>1. /\ fault = "none" /\ waPc[w] = "listed" /\ IInv
        /\ waPc' = [waPc EXCEPT ![w] = "tracked"]
        /\ CheckWaiting(known, imp, M, send)
    BY <1>3 DEF WaAddedImport, RInv
  <2>2. known \in SUBSET Endpoint /\ M \in SUBSET (WA \X known) /\ waPc \in [WA -> Pc]
    BY DEF RInv, TypeOK, Pc
  <2>3. \A v \in WA, e \in Endpoint : <<v, e>> \in M => v = w
    OBVIOUS
  <2> HIDE DEF M
  <2>4. PICK N \in SUBSET (WA \X known) :
          /\ Import(N, imp, send)
          /\ \A v \in WA, e \in Endpoint : <<v, e>> \in N =>
               \/ imp[e][v] = 0 /\ v \in Range(waList)
               \/ <<v, e>> \in M
    BY <2>1, <2>2, CheckWaitingImports
  <2>5. \A v \in WA : waPc'[v] = waPc[v] \/ (waPc[v] = "listed" /\ waPc'[v] = "tracked")
    BY <2>1, <2>2
  <2>6. \A v \in WA, e \in Endpoint : <<v, e>> \in N =>
          \/ imp[e][v] = 0 /\ v \in Range(waList)
          \/ waPc[v] = "listed"
    BY <2>1, <2>3, <2>4
  <2> QED
    BY <2>1, <2>4, <2>5, <2>6, EarlyKeeps
<1>4. ASSUME \/ \E e \in Endpoint : WiringEndpointRemoved(e)
             \/ \E r \in Request : RemoveImportedWiringEndpoint(r)
      PROVE  EarlyInv'
  <2>1. UNCHANGED <<waPc, leaked, early>> /\ \E N : StopImport(N)
    BY <1>4 DEF WiringEndpointRemoved, RemoveImportedWiringEndpoint
  <2>2. \A w \in WA : send'[w] \subseteq send[w]
    BY <2>1 DEF StopImport
  <2> QED
    BY <2>1, <2>2 DEF EarlyInv
<1>5. ASSUME NEW w \in WA, WaRemovedImport(w) PROVE EarlyInv'
  <2>1. /\ UNCHANGED <<leaked, early>> /\ \E N : StopImport(N)
        /\ waPc' = [waPc EXCEPT ![w] = "cleaned"] /\ waPc \in [WA -> Pc]
    BY <1>5 DEF WaRemovedImport, RInv, TypeOK, Pc
  <2>2. \A v \in WA : send'[v] \subseteq send[v]
    BY <2>1 DEF StopImport
  <2>3. \A v \in WA : waPc'[v] = "listed" => waPc[v] = "listed"
    BY <2>1
  <2> QED
    BY <2>1, <2>2, <2>3 DEF EarlyInv
<1>6. ASSUME NEW w \in WA, WaAddedList(w) \/ WaRemovedList(w) PROVE EarlyInv'
  <2>1. /\ UNCHANGED <<leaked, early, send>> /\ fault = "none"
        /\ \/ waPc[w] = "new" /\ waPc' = [waPc EXCEPT ![w] = "listed"]
           \/ \E pc \in {"gone", "released"} : waPc' = [waPc EXCEPT ![w] = pc]
    BY <1>6 DEF WaAddedList, WaRemovedList
  <2>2. waPc \in [WA -> Pc] /\ send \in [WA -> SUBSET Endpoint]
    BY DEF RInv, TypeOK, Pc
  <2>3. \A v \in WA : waPc'[v] = "listed" => waPc[v] \in {"listed", "new"}
    BY <2>1, <2>2
  <2>4. ASSUME NEW v \in WA, waPc[v] = "new", NEW e \in send[v] PROVE FALSE
    BY <2>1, <2>2, <2>4 DEF RInv, IInv, SendInv, CountInv
  <2> QED
    BY <2>1, <2>3, <2>4 DEF EarlyInv
<1>7. ASSUME \/ StartListening \/ StartServing \/ StartTelling \/ StartTracking
             \/ StopTelling \/ StopTracking \/ StopListening \/ StopServing \/ Destroy
             \/ UNCHANGED vars
      PROVE  EarlyInv'
  <2>1. UNCHANGED <<waPc, leaked, early, send>>
    BY <1>7 DEF StartListening, StartServing, StartTelling, StartTracking, StopTelling,
       StopTracking, StopListening, StopServing, Destroy, Goes, vars
  <2> QED
    BY <2>1 DEF EarlyInv
<1> QED
  BY <1>1, <1>2, <1>3, <1>4, <1>5, <1>6, <1>7 DEF Next

(* An admin that was handled as removed, on its own or in the stop of the  *)
(* WTM, keeps only the send services that were imported after that, and    *)
(* the registrations that waAdded replaced, of endpoints imported before   *)
(* the admin was told of the known ones.                                   *)
THEOREM StopLeavesNothing == Spec => []StopClean
<1>1. Init => EarlyInv
  BY DEF Init, EarlyInv
<1>2. RInv /\ EarlyInv /\ [Next]_vars => EarlyInv'
  BY EarlyStep
<1>3. RInv /\ EarlyInv => StopClean
  BY DEF RInv, IInv, SentClean, EarlyInv, StopClean
<1> QED
  BY <1>1, <1>2, <1>3, RInductive, PTL DEF Spec

\* The request r has got a wire, or another request has got two.
Got(r) ==
  \/ \E e \in Endpoint : <<e, r>> \in told'
  \/ \E q \in Range(waiting) : \E d, e \in Endpoint :
       d # e /\ {<<d, q>>, <<e, q>>} \subseteq told'

LEMMA ServedGot ==
  ASSUME RInv, NEW K \in SUBSET Endpoint, NEW N, CheckWaiting(K, imp, N, send),
         NEW r \in Range(waiting) \ Range(waiting'),
         phase \notin {"deaf", "closing", "unlistened", "stopped", "destroyed"}
  PROVE  Got(r)
<1> DEFINE I == Added(imp, N)
<1>1. /\ waiting' = Survivors(K, I)
      /\ told' = IF Telling
                 THEN told \cup {x \in K \X Range(waiting) : x[1] \in Usable(x[2], K, I)}
                 ELSE told
  BY DEF CheckWaiting, Tell
<1> HIDE DEF I
<1>2. waiting \in Seq(Request) /\ \A q : Usable(q, K, I) \subseteq K
  BY DEF RInv, TypeOK, Usable
<1>3. \/ Usable(r, K, I) # {}
      \/ \E q \in Range(waiting) : \E d, e \in Usable(q, K, I) : d # e
  BY <1>1, <1>2, SurvivorsAre
<1>4. Telling
  <2>1. waList # <<>>
    BY <1>3 DEF Usable
  <2> QED
    BY <2>1 DEF RInv, TypeOK, PhaseInv, Telling
<1>5. ASSUME NEW q \in Range(waiting), NEW e \in Usable(q, K, I)
      PROVE  <<e, q>> \in told' /\ e \in Endpoint
  <2>1. e \in K /\ <<e, q>> \in K \X Range(waiting)
    BY <1>2, <1>5
  <2> QED
    BY <1>1, <1>4, <1>5, <2>1
<1>6. CASE Usable(r, K, I) # {}
  <2>1. PICK e : e \in Usable(r, K, I)
    BY <1>6
  <2> QED
    BY <1>5, <2>1 DEF Got
<1>7. CASE \E q \in Range(waiting) : \E d, e \in Usable(q, K, I) : d # e
  <2>1. PICK q \in Range(waiting) : \E d, e \in Usable(q, K, I) : d # e
    BY <1>7
  <2>2. PICK d, e : d \in Usable(q, K, I) /\ e \in Usable(q, K, I) /\ d # e
    BY <2>1
  <2>3. {<<d, q>>, <<e, q>>} \subseteq told' /\ d \in Endpoint /\ e \in Endpoint
    BY <1>5, <2>2
  <2> QED
    BY <2>2, <2>3 DEF Got
<1> QED
  BY <1>3, <1>6, <1>7

LEMMA WaitingStep ==
  ASSUME RInv, [Next]_vars, NEW r \in Range(waiting) \ Range(waiting'),
         phase \notin {"deaf", "closing", "unlistened", "stopped", "destroyed"}
  PROVE  Got(r)
<1>1. CASE \E e \in Endpoint : WiringEndpointAdded(e)
  <2>1. PICK e \in Endpoint : WiringEndpointAdded(e)
    BY <1>1
  <2> DEFINE K == known \cup {e}
  <2>2. K \in SUBSET Endpoint /\ CheckWaiting(K, imp, {}, send)
    BY <2>1 DEF WiringEndpointAdded, RInv, TypeOK
  <2> HIDE DEF K
  <2> QED
    BY <2>2, ServedGot
<1>2. CASE \E w \in WA : WaAddedImport(w)
  <2>1. PICK w \in WA : WaAddedImport(w)
    BY <1>2
  <2>2. known \in SUBSET Endpoint
        /\ CheckWaiting(known, imp, {w} \X {e \in known : Same(w, e)}, send)
    BY <2>1 DEF WaAddedImport, RInv, TypeOK
  <2> QED
    BY <2>2, ServedGot
<1>3. CASE \E q \in Request : ImportWiringEndpoint(q)
  <2>1. PICK q \in Request : waiting' = waiting \/ waiting' = Append(waiting, q)
    BY <1>3 DEF ImportWiringEndpoint
  <2>2. waiting \in Seq(Request)
    BY DEF RInv, TypeOK
  <2>3. Range(waiting) \subseteq Range(Append(waiting, q))
    BY <2>1, <2>2, AppendProperties DEF Range
  <2> QED
    BY <2>1, <2>3
<1>4. waiting' # waiting
  OBVIOUS
<1>5. \/ \E e \in Endpoint : WiringEndpointAdded(e)
      \/ \E w \in WA : WaAddedImport(w)
      \/ \E q \in Request : ImportWiringEndpoint(q)
  BY <1>4 DEF Next, vars, StartListening, StartServing, StartTelling, StartTracking,
     StopTelling, StopTracking, StopListening, StopServing, Destroy, Goes,
     WiringEndpointRemoved, RemoveImportedWiringEndpoint, WaAddedList, WaRemovedImport,
     WaRemovedList
<1> QED
  BY <1>1, <1>2, <1>3, <1>5

(* A send service is lost only in the step that lets an added admin        *)
(* import; and a request leaves waitingForImport with a wire of its own,   *)
(* or beside a request that got two.                                       *)
THEOREM LossesExplained == Spec => LostOnlyByRace
<1>1. RInv /\ [Next]_vars =>
        [/\ leaked' # leaked => \E w \in WA : waPc[w] = "listed" /\ waPc'[w] = "tracked"
         /\ \A r \in Range(waiting) \ Range(waiting') :
              phase \notin {"deaf", "closing", "unlistened", "stopped", "destroyed"} =>
              \/ \E e \in Endpoint : <<e, r>> \in told'
              \/ \E q \in Range(waiting) : \E d, e \in Endpoint :
                   d # e /\ {<<d, q>>, <<e, q>>} \subseteq told']_vars
  BY LeakedStep, WaitingStep DEF Got
<1> QED
  BY <1>1, RInductive, PTL DEF Spec, LostOnlyByRace
=============================================================================
