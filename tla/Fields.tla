-------------------------------- MODULE Fields --------------------------------
(***************************************************************************)
(* collectFields of fields.go: which fields of a struct type become        *)
(* columns, once the fields of embedded structs are promoted and name      *)
(* collisions settled.                                                     *)
(*                                                                         *)
(* The walk is a state machine, one step per field visited, so that its    *)
(* visited and next sets have the state they have in the code.  It starts  *)
(* from any of the given type environments and is compared with the rule   *)
(* the documentation states, written over embedding paths with no visited  *)
(* set at all.                                                             *)
(***************************************************************************)
EXTENDS Naturals, Sequences, FiniteSets, SequencesExt

CONSTANTS
    Types,        \* the struct types there are
    Root,         \* the row type
    Environments  \* bound: the declarations tried, each a sequence of fields per type

None == "none"
NoType == "notype"
Tags == {"skip", "malformed", None}   \* any other tag is the column's name

ASSUME FieldsAssumption ==
    /\ IsFiniteSet(Types) /\ Root \in Types
    /\ Environments \subseteq [Types -> Seq([go : STRING, tag : STRING, anonymous : BOOLEAN,
                                             exported : BOOLEAN, struct : Types \cup {NoType}])]

VARIABLES
    env,      \* the declarations; never changes
    phase,    \* "walking", "resolving", "returned" or "failed"
    level,    \* the parents of this level still to be walked, the first one under way
    field,    \* the field of that parent to look at next
    queue,    \* the embedded structs of the next level
    visited,  \* struct types of the levels so far
    next,     \* struct types in queue
    found,    \* candidates, in the order they were met
    kept      \* the columns

vars == <<env, phase, level, field, queue, visited, next, found, kept>>

-----------------------------------------------------------------------------
(* What a field is *)

Named(f) == f.tag \notin Tags
Name(f) == IF Named(f) THEN f.tag ELSE f.go
Skipped(f) ==
    \/ f.tag = "skip"
    \/ ~f.exported /\ ~(f.anonymous /\ f.struct # NoType)
Embedded(f) == ~Skipped(f) /\ f.anonymous /\ f.struct # NoType /\ ~Named(f)
IsColumn(f) == ~Skipped(f) /\ ~Embedded(f)

Parent(t, index) == [type |-> t, index |-> index]
Candidate(f, index) ==
    [name |-> Name(f), index |-> index, depth |-> Len(index) - 1, tagged |-> Named(f)]

Init ==
    /\ env \in Environments
    /\ phase = "walking"
    /\ level = <<Parent(Root, <<>>)>>
    /\ field = 1
    /\ queue = <<>>
    /\ visited = {Root}
    /\ next = {}
    /\ found = <<>>
    /\ kept = <<>>

-----------------------------------------------------------------------------
(* collectFields *)

Here == env[Head(level).type]
SeenMutant(t) == FALSE
Seen(t) == t \in visited \/ t \in next

\* An embedded struct is descended into, exported or not, unless it was met before.
DescendsMutant(f) == Embedded(f) /\ f.exported /\ ~Seen(f.struct)
Descends(f) == Embedded(f) /\ ~Seen(f.struct)

\* One field of the parent under way.
Visit ==
    /\ phase = "walking" /\ level # <<>> /\ field <= Len(Here)
    /\ LET f == Here[field]
           index == Append(Head(level).index, field)
       IN  IF f.tag = "malformed"
           THEN phase' = "failed" /\ UNCHANGED <<field, queue, next, found>>
           ELSE /\ field' = field + 1
                /\ IF Descends(f)
                   THEN /\ next' = next \cup {f.struct}
                        /\ queue' = Append(queue, Parent(f.struct, index))
                   ELSE UNCHANGED <<next, queue>>
                /\ found' = IF IsColumn(f) THEN Append(found, Candidate(f, index)) ELSE found
                /\ UNCHANGED phase
    /\ UNCHANGED <<env, level, visited, kept>>

NextParent ==
    /\ phase = "walking" /\ level # <<>> /\ field > Len(Here)
    /\ level' = Tail(level)
    /\ field' = 1
    /\ UNCHANGED <<env, phase, queue, visited, next, found, kept>>

NextLevel ==
    /\ phase = "walking" /\ level = <<>>
    /\ visited' = visited \cup next
    /\ next' = {}
    /\ level' = queue
    /\ queue' = <<>>
    /\ phase' = IF queue = <<>> THEN "resolving" ELSE "walking"
    /\ UNCHANGED <<env, field, found, kept>>

-----------------------------------------------------------------------------
(* resolveCollisions *)

ShallowestMutant(cs) == cs
Shallowest(cs) == {c \in cs : \A d \in cs : c.depth <= d.depth}
TiebreakMutant(cs) == {}
Tiebreak(cs) == {c \in cs : c.tagged}

\* winnerFor: a set of at most one candidate.
winnerFor(cs) ==
    LET top == Shallowest(cs)
    IN  IF Cardinality(top) = 1 THEN top
        ELSE IF Cardinality(Tiebreak(top)) = 1 THEN Tiebreak(top)
        ELSE {}

\* slices.Compare on indexes.
Before(a, b) ==
    \/ IsStrictPrefix(a.index, b.index)
    \/ \E i \in DOMAIN a.index \cap DOMAIN b.index :
        /\ a.index[i] < b.index[i]
        /\ \A j \in 1..(i - 1) : a.index[j] = b.index[j]

\* In ascending order: a candidate's place is the number of those before it.
ByIndex(cs) ==
    [i \in 1..Cardinality(cs) |-> CHOOSE c \in cs : Cardinality({d \in cs : Before(d, c)}) = i - 1]

\* Of the candidates of a name, the one that wins it.
Winners(cs) == {c \in cs : c \in winnerFor({d \in cs : d.name = c.name})}

resolveCollisions ==
    /\ phase = "resolving"
    /\ kept' = ByIndex(Winners(ToSet(found)))
    /\ phase' = "returned"
    /\ UNCHANGED <<env, level, field, queue, visited, next, found>>

Next == Visit \/ NextParent \/ NextLevel \/ resolveCollisions

Spec == Init /\ [][Next]_vars

-----------------------------------------------------------------------------
(* The documented rule, over embedding paths *)

\* The structs embedded in the struct at p, by the index of the embedding field.
EmbeddedIn(e, p) ==
    {Parent(e[p.type][i].struct, Append(p.index, i)) :
        i \in {j \in DOMAIN e[p.type] : Embedded(e[p.type][j])}}
Onward(e, ps, k) == ps \cup UNION {EmbeddedIn(e, p) : p \in {q \in ps : Len(q.index) = k}}

\* Every way to reach a struct through embedded structs that are at most n deep.
Reached(e, n) ==
    LET reach[k \in Nat] ==
            IF k = 0 THEN {Parent(Root, <<>>)} ELSE Onward(e, reach[k - 1], k - 1)
    IN  reach[n]

\* A struct more than Cardinality(Types) deep was met before on its own path.
CandidatesOf(e, p) ==
    {Candidate(e[p.type][i], Append(p.index, i)) :
        i \in {j \in DOMAIN e[p.type] : IsColumn(e[p.type][j])}}
AllCandidates(e) == UNION {CandidatesOf(e, p) : p \in Reached(e, Cardinality(Types))}

\* A shallower field hides a deeper one of the same name, an explicit tag breaks a
\* tie at equal depth, and an unresolved tie removes every field involved.
Beats(c, d) ==
    \/ c.depth < d.depth
    \/ c.depth = d.depth /\ c.tagged /\ ~d.tagged
Promoted(e) ==
    LET cs == AllCandidates(e)
    IN  {c \in cs : \A d \in cs \ {c} : d.name = c.name => Beats(c, d)}

\* No struct is embedded twice at the depth it is first reached at.
DiamondFree(e) ==
    \A p, q \in Reached(e, Cardinality(Types)) :
        p.type = q.type /\ Len(p.index) = Len(q.index)
            => p = q \/ \E r \in Reached(e, Cardinality(Types)) :
                            r.type = p.type /\ Len(r.index) < Len(p.index)

-----------------------------------------------------------------------------
(* Properties *)

\* However structs embed one another, themselves included, the walk descends into
\* each type once, so that it ends and no candidate lies deeper than the number of
\* types.
DescentBounded ==
    /\ \A p \in ToSet(level) \cup ToSet(queue) : Len(p.index) < Cardinality(Types)
    /\ Len(found) <= Cardinality(UNION {{<<t, i>> : i \in DOMAIN env[t]} : t \in Types})

\* Where no struct is embedded twice at one depth, the columns are exactly those
\* the documented rule promotes, each read through the same field path: the walk's
\* visited set leaves nothing out that the rule would have kept or tied.
FollowsTheRule ==
    phase = "returned" /\ DiamondFree(env) => ToSet(kept) = Promoted(env)

\* In every case a column the rule promotes is a column of the table, and no two
\* columns have one name.
NothingLost ==
    phase = "returned" =>
        /\ Promoted(env) \subseteq ToSet(kept)
        /\ \A c, d \in ToSet(kept) : c.name = d.name => c = d

\* In diamonds too, where the walk keeps a column the rule has in a tie, a column is
\* never one the rule hides: no candidate of its name on any path, one inside a struct
\* the walk had met already and passed over included, is shallower, or as deep and
\* alone tagged.
NoneHidden ==
    phase = "returned" =>
        \A c \in ToSet(kept), d \in AllCandidates(env) : d.name = c.name => ~Beats(d, c)
=============================================================================
