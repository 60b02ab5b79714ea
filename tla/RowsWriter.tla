----------------------------- MODULE RowsWriter -----------------------------
(***************************************************************************)
(* What write.go's RowsWriter and WriteResult promise of any transport,    *)
(* seen from outside: rows are handed over, may reach the table, and are   *)
(* at some point counted as landed or named by an error.  The bundled      *)
(* transports, LoadJobsWriter and StorageWriter, implement it.             *)
(*                                                                         *)
(* A writer that buffers may never say of a landed row that it landed, and *)
(* an error does not take its rows back: they may land after it was        *)
(* returned.                                                               *)
(***************************************************************************)
EXTENDS Naturals, TLAPS

CONSTANT Rows    \* the rows handed over, each once

VARIABLES
    given,       \* rows handed to WriteRows
    landed,      \* rows in the table
    delivered,   \* rows a WriteResult counted as landed
    reported,    \* how many errors have named the row as not landed
    closed       \* Close has been called

vars == <<given, landed, delivered, reported, closed>>

Init ==
    /\ given = {}
    /\ landed = {}
    /\ delivered = {}
    /\ reported = [r \in Rows |-> 0]
    /\ closed = FALSE

Unsettled(r) == r \notin delivered /\ reported[r] = 0

Names(rs) == [r \in Rows |-> IF r \in rs THEN reported[r] + 1 ELSE reported[r]]

\* WriteRows takes rows nobody handed over before; only an open writer does.
Take(rs) ==
    /\ ~closed
    /\ rs \cap given = {}
    /\ given' = given \cup rs
    /\ UNCHANGED <<landed, delivered, reported, closed>>

\* WriteRows returns an error at once: the rows were not taken.
Refuse(rs) ==
    /\ rs \cap given = {}
    /\ given' = given \cup rs
    /\ reported' = Names(rs)
    /\ UNCHANGED <<landed, delivered, closed>>

\* BigQuery appends rows the writer sent, all of them at once.
Land(rs) ==
    /\ rs \subseteq given
    /\ landed' = landed \cup rs
    /\ UNCHANGED <<given, delivered, reported, closed>>

\* A result, a FlushRows or a Close returns: it counts the rows of one batch and
\* names those of others, and neither had been said of any of them before.
Tell(counted, lost) ==
    /\ counted \subseteq landed
    /\ lost \subseteq given
    /\ counted \cap lost = {}
    /\ \A r \in counted \cup lost : Unsettled(r)
    /\ delivered' = delivered \cup counted
    /\ reported' = Names(lost)
    /\ UNCHANGED <<given, landed, closed>>

Close ==
    /\ closed' = TRUE
    /\ UNCHANGED <<given, landed, delivered, reported>>

Next ==
    \/ \E rs \in SUBSET Rows : Take(rs) \/ Refuse(rs)
    \/ \E rs \in SUBSET given : Land(rs)
    \/ \E counted \in SUBSET landed, lost \in SUBSET given : Tell(counted, lost)
    \/ Close

Spec == Init /\ [][Next]_vars

-----------------------------------------------------------------------------
(* What the contract gives whoever uses a RowsWriter *)

\* A count is never an exaggeration and an error never a repetition: a counted
\* row is in the table and no error names it, whenever it was returned; a row is
\* named by one error at most; and nothing lands that was not handed over.
Truthful ==
    /\ \A r \in delivered : r \in landed /\ reported[r] = 0
    /\ \A r \in Rows : reported[r] <= 1
    /\ landed \subseteq given

\* A verdict is final and rows are only ever added to the table: a row that was counted
\* or named is neither counted nor named again.
Kept ==
    /\ landed \subseteq landed'
    /\ \A r \in Rows : ~Unsettled(r) =>
        (r \in delivered' <=> r \in delivered) /\ reported'[r] = reported[r]
VerdictsFinal == [][Kept]_vars

\* What makes Truthful inductive: that no error names a row twice needs that an error
\* only names rows that were handed over.
NamesGiven ==
    /\ given \in SUBSET Rows
    /\ reported \in [Rows -> Nat]
    /\ \A r \in Rows : r \notin given => reported[r] = 0

LEMMA ContractInvariant == Spec => [](NamesGiven /\ Truthful)
<1>1. Init => NamesGiven /\ Truthful
  BY DEF Init, NamesGiven, Truthful
<1>2. NamesGiven /\ Truthful /\ [Next]_vars => (NamesGiven /\ Truthful)'
  <2> SUFFICES ASSUME NamesGiven, Truthful, [Next]_vars PROVE (NamesGiven /\ Truthful)'
    OBVIOUS
  <2> USE DEF NamesGiven, Truthful
  <2>1. ASSUME NEW rs \in SUBSET Rows, Take(rs)
        PROVE  (NamesGiven /\ Truthful)'
    BY <2>1 DEF Take
  <2>2. ASSUME NEW rs \in SUBSET Rows, Refuse(rs)
        PROVE  (NamesGiven /\ Truthful)'
    <3>1. \A r \in Rows : reported'[r] = IF r \in rs THEN 1 ELSE reported[r]
      BY <2>2 DEF Refuse, Names
    <3>2. reported' \in [Rows -> Nat]
      BY <2>2 DEF Refuse, Names
    <3>. QED
      BY <2>2, <3>1, <3>2 DEF Refuse
  <2>3. ASSUME NEW rs \in SUBSET given, Land(rs)
        PROVE  (NamesGiven /\ Truthful)'
    BY <2>3 DEF Land
  <2>4. ASSUME NEW counted \in SUBSET landed, NEW lost \in SUBSET given, Tell(counted, lost)
        PROVE  (NamesGiven /\ Truthful)'
    <3>1. \A r \in Rows : reported'[r] = IF r \in lost THEN 1 ELSE reported[r]
      BY <2>4 DEF Tell, Names, Unsettled
    <3>2. reported' \in [Rows -> Nat]
      BY <2>4 DEF Tell, Names
    <3>3. \A r \in lost : r \notin delivered'
      BY <2>4 DEF Tell, Unsettled
    <3>4. \A r \in counted : reported[r] = 0 /\ r \in landed /\ r \in Rows
      BY <2>4 DEF Tell, Unsettled
    <3>. QED
      BY <2>4, <3>1, <3>2, <3>3, <3>4 DEF Tell
  <2>5. CASE Close
    BY <2>5 DEF Close
  <2>6. CASE UNCHANGED vars
    BY <2>6 DEF vars
  <2>. QED
    BY <2>1, <2>2, <2>3, <2>4, <2>5, <2>6 DEF Next
<1>. QED
  BY <1>1, <1>2, PTL DEF Spec

\* A row is counted or named, and the one or the other once, through any order of
\* WriteRows, appends, results, FlushRows and Close.
THEOREM ContractIsTruthful == Spec => []Truthful
BY ContractInvariant, PTL

\* What a caller was told of a row stands: no later result counts a row an error
\* named, no later error names a row that was counted or named, and a row that is in
\* the table stays there.
THEOREM VerdictsStand == Spec => VerdictsFinal
<1>1. NamesGiven /\ Truthful /\ [Next]_vars => [Kept]_vars
  <2> SUFFICES ASSUME NamesGiven, Truthful, Next PROVE Kept
    OBVIOUS
  <2>1. ASSUME NEW rs \in SUBSET Rows, Take(rs) PROVE Kept
    BY <2>1 DEF Take, Kept
  <2>2. ASSUME NEW rs \in SUBSET Rows, Refuse(rs) PROVE Kept
    <3>1. \A r \in rs : Unsettled(r)
      BY <2>2 DEF Refuse, Unsettled, NamesGiven, Truthful
    <3>. QED
      BY <2>2, <3>1 DEF Refuse, Names, Kept
  <2>3. ASSUME NEW rs \in SUBSET given, Land(rs) PROVE Kept
    BY <2>3 DEF Land, Kept
  <2>4. ASSUME NEW counted \in SUBSET landed, NEW lost \in SUBSET given, Tell(counted, lost)
        PROVE  Kept
    BY <2>4 DEF Tell, Names, Kept
  <2>5. CASE Close
    BY <2>5 DEF Close, Kept
  <2>. QED
    BY <2>1, <2>2, <2>3, <2>4, <2>5 DEF Next
<1>. QED
  BY <1>1, ContractInvariant, PTL DEF Spec, VerdictsFinal
=============================================================================
