---------------------------- MODULE FieldsProofs ----------------------------
(***************************************************************************)
(* collectFields is bounded and returns what the documented rule promotes, *)
(* for any struct types and any declarations of them, embedding one        *)
(* another in cycles included.                                             *)
(*                                                                         *)
(* The bound: a level's types are new to visited, so visited has at least  *)
(* one type per level and the levels are no more than the types; and a     *)
(* field is looked at once, since its type is in one level and once in it. *)
(*                                                                         *)
(* The rule speaks of embedding paths and of no visited set.  The walk is  *)
(* tied to it by where each type was met (w): at the end of a path of the  *)
(* level's length, and no path of at most that length leads to a type not  *)
(* met or met deeper (Nearest).  When the walk ends, the types met are     *)
(* closed under embedding, so what it skipped lies deeper than a candidate *)
(* of the same name it has, or, in a diamond, as deep.                     *)
(***************************************************************************)
EXTENDS Fields, FiniteSetTheorems, WellFoundedInduction, SequenceTheorems, TLAPS

Fs == [go : STRING, tag : STRING, anonymous : BOOLEAN, exported : BOOLEAN, struct : Types \cup {NoType}]
Parents == [type : Types, index : Seq(Nat)]
Candidates == [name : STRING, index : Seq(Nat), depth : Int, tagged : BOOLEAN]

\* What every variable the walk moves holds.
Shape ==
    /\ env \in [Types -> Seq(Fs)]
    /\ level \in Seq(Parents) /\ queue \in Seq(Parents)
    /\ field \in Nat \ {0}
    /\ visited \in SUBSET Types /\ next \in SUBSET Types
    /\ found \in Seq(Candidates)

\* The types still to be walked are each in one place.
Once ==
    /\ \A i, j \in DOMAIN level : level[i].type = level[j].type => i = j
    /\ \A i, j \in DOMAIN queue : queue[i].type = queue[j].type => i = j
    /\ \A i \in DOMAIN level : level[i].type \in visited
    /\ \A i \in DOMAIN queue : queue[i].type \in next
    /\ visited \cap next = {}

\* A level is as deep as the levels before it are many, and each brought a type.
Deep(k) ==
    /\ \A i \in DOMAIN level : Len(level[i].index) = k
    /\ \A i \in DOMAIN queue : Len(queue[i].index) = k + 1
    /\ Cardinality(visited) >= k + 1
Levels == \E k \in Nat : Deep(k)

\* The fields that have been looked at, and the one that is now.
AllFields == UNION {{<<t, i>> : i \in DOMAIN env[t]} : t \in Types}
Ahead == {level[i].type : i \in DOMAIN level}
Looked ==
    {x \in AllFields : \/ x[1] \in visited \ Ahead
                       \/ level # <<>> /\ x[1] = Head(level).type /\ x[2] < field}
Now == <<Head(level).type, field>>
Counted == Len(found) <= Cardinality(Looked)

WInv == Shape /\ Once /\ Levels /\ Counted

-----------------------------------------------------------------------------
(* Facts the steps share *)

LEMMA EnvironmentsShape == \A e \in Environments : e \in [Types -> Seq(Fs)]
BY FieldsAssumption DEF Fs

\* The fields there are, finitely many of them.
LEMMA FieldsFinite ==
    ASSUME Shape
    PROVE  /\ IsFiniteSet(AllFields)
           /\ \A x \in AllFields : x[1] \in Types /\ x[2] \in Nat /\ x[2] \in DOMAIN env[x[1]]
           /\ \A t \in Types : \A i \in DOMAIN env[t] : <<t, i>> \in AllFields
<1> DEFINE Of(t) == {<<t, i>> : i \in DOMAIN env[t]}
<1>1. ASSUME NEW t \in Types PROVE IsFiniteSet(Of(t))
  <2>1. DOMAIN env[t] = 1..Len(env[t]) /\ Len(env[t]) \in Nat
    BY DEF Shape
  <2>2. IsFiniteSet(1..Len(env[t]))
    BY <2>1, FS_Interval
  <2> DEFINE D == 1..Len(env[t])
             One == {t}
  <2>3. Of(t) = One \X D
    BY <2>1
  <2>4. IsFiniteSet(One)
    BY FS_Singleton
  <2> HIDE DEF D, One, Of
  <2>5. IsFiniteSet(One \X D)
    BY <2>2, <2>4, FS_Product DEF D
  <2> QED
    BY <2>3, <2>5
<1>2. IsFiniteSet({Of(t) : t \in Types})
  <2> DEFINE f == [t \in Types |-> Of(t)]
  <2>1. f \in Surjection(Types, {Of(t) : t \in Types})
    BY DEF Surjection
  <2> QED
    BY <2>1, FieldsAssumption, FS_Surjection
<1>3. IsFiniteSet(AllFields)
  <2>1. \A X \in {Of(t) : t \in Types} : IsFiniteSet(X)
    BY <1>1
  <2>2. IsFiniteSet(UNION {Of(t) : t \in Types})
    BY <1>2, <2>1, FS_UNION
  <2> QED
    BY <2>2 DEF AllFields
<1>4. \A x \in AllFields : x[1] \in Types /\ x[2] \in Nat /\ x[2] \in DOMAIN env[x[1]]
  BY DEF AllFields, Shape
<1>5. \A t \in Types : \A i \in DOMAIN env[t] : <<t, i>> \in AllFields
  BY DEF AllFields
<1> QED
  BY <1>3, <1>4, <1>5

LEMMA TypesCounted ==
    ASSUME NEW A \in SUBSET Types
    PROVE  /\ IsFiniteSet(A) /\ Cardinality(A) \in Nat
           /\ Cardinality(A) <= Cardinality(Types) /\ Cardinality(Types) \in Nat
BY FieldsAssumption, FS_Subset, FS_CardinalityType

\* A level that brings a type adds one to the types.
LEMMA LevelBrings ==
    ASSUME Shape, Once, NEW i \in DOMAIN queue
    PROVE  Cardinality(visited) + 1 <= Cardinality(visited \cup next)
<1> DEFINE t == queue[i].type
<1>1. t \in next /\ t \notin visited /\ visited \cup {t} \in SUBSET Types /\ visited \cup next \in SUBSET Types
  BY DEF Shape, Once
<1>2. Cardinality(visited \cup {t}) = Cardinality(visited) + 1
  BY <1>1, TypesCounted, FS_AddElement DEF Shape
<1>3. Cardinality(visited \cup {t}) <= Cardinality(visited \cup next)
  BY <1>1, TypesCounted, FS_Subset
<1> QED
  BY <1>2, <1>3

LEMMA LookedFinite ==
    Shape => /\ IsFiniteSet(Looked) /\ Cardinality(Looked) \in Nat
             /\ Cardinality(Looked) <= Cardinality(AllFields) /\ Cardinality(AllFields) \in Nat
<1> HAVE Shape
<1>1. Looked \subseteq AllFields
  BY DEF Looked
<1> QED
  BY <1>1, FieldsFinite, FS_Subset, FS_CardinalityType

-----------------------------------------------------------------------------
(* One lemma per action *)

LEMMA InitWInv == Init => WInv
<1> SUFFICES ASSUME Init PROVE WInv
  OBVIOUS
<1>1. Shape
  BY EnvironmentsShape, FieldsAssumption DEF Init, Shape, Parents, Parent
<1>2. Once
  BY DEF Init, Once, Parent
<1>3. Deep(0)
  <2>1. Cardinality({Root}) = 1
    BY FS_Singleton
  <2> QED
    BY <2>1 DEF Init, Deep, Parent
<1>4. Counted
  <2>1. Len(found) = 0
    BY DEF Init
  <2> QED
    BY <1>1, <2>1, LookedFinite DEF Counted
<1> QED
  BY <1>1, <1>2, <1>3, <1>4 DEF WInv, Levels

\* The parent under way and the field it has come to.
LEMMA HereFacts ==
    ASSUME Shape, Once, level # <<>>
    PROVE  /\ Head(level) = level[1] /\ 1 \in DOMAIN level /\ level[1] \in Parents
           /\ Head(level).type \in Types /\ Head(level).type \in visited
           /\ Here \in Seq(Fs) /\ DOMAIN Here = 1..Len(Here) /\ Len(Here) \in Nat
           /\ Head(level).type \in Ahead
<1>1. Head(level) = level[1] /\ 1 \in DOMAIN level /\ level[1] \in Parents
  BY DEF Shape
<1> QED
  BY <1>1 DEF Shape, Once, Here, Ahead, Parents

\* A field is looked at once.
LEMMA VisitLooks ==
    ASSUME Shape, Once, Visit, Here[field].tag # "malformed"
    PROVE  Now \in AllFields /\ Now \notin Looked /\ Looked' = Looked \cup {Now}
<1> DEFINE p == Head(level)
<1>1. /\ level # <<>> /\ field \in Nat /\ field' = field + 1 /\ field <= Len(Here)
      /\ UNCHANGED <<env, level, visited>>
  BY DEF Visit, Shape
<1>2. p.type \in Types /\ p.type \in Ahead /\ field \in DOMAIN env[p.type]
  BY <1>1, HereFacts DEF Shape, Here
<1>3. Now \in AllFields /\ Now \notin Looked
  BY <1>1, <1>2, FieldsFinite DEF Looked, Now
<1>4. AllFields' = AllFields /\ Ahead' = Ahead
  BY <1>1 DEF AllFields, Ahead
<1>5. \A y \in AllFields : y[1] = p.type /\ y[2] < field + 1 <=> y = Now \/ (y[1] = p.type /\ y[2] < field)
  BY <1>1, FieldsFinite DEF AllFields, Now
<1> QED
  BY <1>1, <1>3, <1>4, <1>5 DEF Looked

LEMMA NextParentLooks ==
    ASSUME Shape, Once, NextParent
    PROVE  Looked' = Looked
<1> DEFINE p == Head(level)
<1>1. /\ level # <<>> /\ field > Len(Here) /\ level' = Tail(level) /\ field' = 1
      /\ UNCHANGED <<env, queue, visited, next, found>>
  BY DEF NextParent
<1>2. /\ p = level[1] /\ 1 \in DOMAIN level /\ p.type \in visited
      /\ Here = env[p.type] /\ DOMAIN Here = 1..Len(Here) /\ Len(Here) \in Nat
  BY <1>1, HereFacts DEF Here
<1>3. /\ DOMAIN level = 1..Len(level) /\ DOMAIN level' = 1..(Len(level) - 1) /\ Len(level) \in Nat \ {0}
      /\ \A i \in DOMAIN level' : i + 1 \in DOMAIN level /\ level'[i] = level[i + 1]
  BY <1>1 DEF Shape
<1>4. Ahead' = Ahead \ {p.type}
  <2>1. \A i \in DOMAIN level' : level'[i].type \in Ahead /\ level'[i].type # p.type
    BY <1>2, <1>3 DEF Ahead, Once
  <2>2. \A i \in DOMAIN level \ {1} : i - 1 \in DOMAIN level' /\ level'[i - 1] = level[i]
    BY <1>3
  <2> QED
    BY <1>2, <2>1, <2>2 DEF Ahead
<1>5. AllFields' = AllFields
  BY <1>1 DEF AllFields
<1>6. \A x \in AllFields : x[2] >= 1 /\ (x[1] = p.type => x[2] < field)
  BY <1>1, <1>2, FieldsFinite DEF Shape
<1>7. ASSUME NEW x \in AllFields
      PROVE  x \in Looked' <=> x \in Looked
  <2>1. x[2] \in Nat /\ ~(x[2] < 1)
    BY <1>6, FieldsFinite
  <2>2. x \in Looked' <=> x[1] \in visited \ Ahead'
    BY <1>1, <1>5, <2>1 DEF Looked
  <2>3. x \in Looked <=> x[1] \in visited \ Ahead \/ x[1] = p.type
    BY <1>1, <1>6 DEF Looked
  <2> QED
    BY <1>2, <1>4, <2>2, <2>3
<1> QED
  BY <1>5, <1>7 DEF Looked

LEMMA VisitStep == WInv /\ Visit => WInv'
<1> SUFFICES ASSUME WInv, Visit PROVE WInv'
  OBVIOUS
<1> USE DEF WInv
<1> DEFINE p == Head(level)
           f == Here[field]
           index == Append(p.index, field)
<1>0. /\ level # <<>> /\ field <= Len(Here)
      /\ UNCHANGED <<env, level, visited>>
  BY DEF Visit
<1>1. /\ p = level[1] /\ 1 \in DOMAIN level /\ p \in Parents /\ p.type \in Types /\ p.type \in Ahead
      /\ field \in DOMAIN env[p.type] /\ f \in Fs /\ field \in Nat
      /\ index \in Seq(Nat) /\ Len(index) = Len(p.index) + 1
  <2>1. p = level[1] /\ 1 \in DOMAIN level /\ p \in Parents /\ p.type \in Types /\ p.type \in Ahead
    BY <1>0, HereFacts
  <2>2. field \in DOMAIN Here /\ f \in Fs /\ field \in Nat
    BY <1>0, HereFacts DEF Shape
  <2>3. index \in Seq(Nat) /\ Len(index) = Len(p.index) + 1
    BY <2>1, <2>2 DEF Parents
  <2> QED
    BY <2>1, <2>2, <2>3 DEF Here
<1>2. CASE f.tag = "malformed"
  <2>1. UNCHANGED <<field, queue, next, found>>
    BY <1>2 DEF Visit, Descends
  <2>2. Shape' /\ Once'
    BY <1>0, <2>1 DEF Shape, Once
  <2>3. Levels'
    <3>1. PICK k \in Nat : Deep(k)
      BY DEF Levels
    <3>2. Deep(k)'
      BY <1>0, <2>1, <3>1 DEF Deep
    <3> QED
      BY <3>2 DEF Levels
  <2>4. Counted'
    <3>1. Looked' = Looked
      BY <1>0, <2>1 DEF Looked, AllFields, Ahead
    <3> QED
      BY <2>1, <3>1 DEF Counted
  <2> QED
    BY <2>2, <2>3, <2>4
<1>3. CASE f.tag # "malformed"
  <2>1. /\ field' = field + 1
        /\ \/ queue' = queue /\ next' = next
           \/ /\ f.struct \in Types /\ f.struct \notin visited \cup next
              /\ next' = next \cup {f.struct}
              /\ queue' = Append(queue, Parent(f.struct, index))
        /\ found' = found \/ found' = Append(found, Candidate(f, index))
    BY <1>1, <1>3 DEF Visit, Descends, Embedded, Seen, Fs
  <2>2. Shape'
    <3>1. Candidate(f, index) \in Candidates
      BY <1>1 DEF Candidate, Candidates, Name, Named, Fs
    <3>2. f.struct \in Types => Parent(f.struct, index) \in Parents
      BY <1>1 DEF Parent, Parents
    <3>3. found' \in Seq(Candidates)
      <4> DEFINE c == Candidate(f, index)
      <4>1. found \in Seq(Candidates) /\ c \in Candidates /\ (found' = found \/ found' = Append(found, c))
        BY <2>1, <3>1 DEF Shape
      <4> HIDE DEF c
      <4> QED
        BY <4>1
    <3>4. queue' \in Seq(Parents) /\ next' \in SUBSET Types
      <4> DEFINE q == Parent(f.struct, index)
      <4>1. /\ queue \in Seq(Parents) /\ next \in SUBSET Types
            /\ \/ queue' = queue /\ next' = next
               \/ q \in Parents /\ queue' = Append(queue, q) /\ next' \in SUBSET Types
        BY <2>1, <3>2 DEF Shape
      <4> HIDE DEF q
      <4> QED
        BY <4>1
    <3>5. field' \in Nat \ {0}
      BY <1>1, <2>1
    <3> QED
      BY <1>0, <3>3, <3>4, <3>5 DEF Shape
  <2>3. Once'
    <3>1. CASE queue' = queue /\ next' = next
      BY <1>0, <3>1 DEF Once
    <3>2. CASE /\ f.struct \in Types /\ f.struct \notin visited \cup next
               /\ next' = next \cup {f.struct}
               /\ queue' = Append(queue, Parent(f.struct, index))
      <4>1. /\ DOMAIN queue' = 1..Len(queue) + 1 /\ Len(queue) \in Nat /\ DOMAIN queue = 1..Len(queue)
            /\ \A i \in DOMAIN queue : queue'[i] = queue[i]
            /\ queue'[Len(queue) + 1].type = f.struct
        BY <3>2 DEF Shape, Parent
      <4> QED
        BY <1>0, <3>2, <4>1 DEF Once
    <3> QED
      BY <2>1, <3>1, <3>2
  <2>4. Levels'
    <3>1. PICK k \in Nat : Deep(k)
      BY DEF Levels
    <3>2. Len(p.index) = k
      BY <1>1, <3>1 DEF Deep
    <3>3. \A i \in DOMAIN queue' : Len(queue'[i].index) = k + 1
      <4>1. CASE queue' = queue
        BY <3>1, <4>1 DEF Deep
      <4>2. CASE queue' = Append(queue, Parent(f.struct, index))
        <5>1. /\ DOMAIN queue' = 1..Len(queue) + 1 /\ Len(queue) \in Nat /\ DOMAIN queue = 1..Len(queue)
              /\ \A i \in DOMAIN queue : queue'[i] = queue[i]
              /\ queue'[Len(queue) + 1].index = index
          BY <4>2 DEF Shape, Parent
        <5> QED
          BY <1>1, <3>1, <3>2, <5>1 DEF Deep
      <4> QED
        BY <2>1, <4>1, <4>2
    <3>4. Deep(k)'
      BY <1>0, <3>1, <3>3 DEF Deep
    <3> QED
      BY <3>4 DEF Levels
  <2>5. Counted'
    <3>1. Now \in AllFields /\ Now \notin Looked /\ Looked' = Looked \cup {Now}
      BY <1>3, VisitLooks
    <3>3. Cardinality(Looked') = Cardinality(Looked) + 1
      BY <3>1, LookedFinite, FS_AddElement
    <3>4. Len(found') <= Len(found) + 1 /\ Len(found) \in Nat
      BY <2>1 DEF Shape
    <3>5. Len(found') \in Nat
      BY <2>2 DEF Shape
    <3> QED
      BY <3>3, <3>4, <3>5, LookedFinite DEF Counted
  <2> QED
    BY <2>2, <2>3, <2>4, <2>5
<1> QED
  BY <1>2, <1>3

LEMMA NextParentStep == WInv /\ NextParent => WInv'
<1> SUFFICES ASSUME WInv, NextParent PROVE WInv'
  OBVIOUS
<1> USE DEF WInv
<1> DEFINE p == Head(level)
<1>1. /\ level # <<>> /\ field > Len(Here) /\ level' = Tail(level) /\ field' = 1
      /\ UNCHANGED <<env, queue, visited, next, found>>
  BY DEF NextParent
<1>2. /\ p = level[1] /\ 1 \in DOMAIN level /\ p.type \in visited
      /\ Here = env[p.type] /\ DOMAIN Here = 1..Len(Here) /\ Len(Here) \in Nat
  BY <1>1, HereFacts DEF Here
<1>3. /\ DOMAIN level = 1..Len(level) /\ DOMAIN level' = 1..(Len(level) - 1) /\ Len(level) \in Nat \ {0}
      /\ \A i \in DOMAIN level' : i + 1 \in DOMAIN level /\ level'[i] = level[i + 1]
  BY <1>1 DEF Shape
<1>4. Shape'
  BY <1>1 DEF Shape
<1>5. Once'
  <2>1. \A i, j \in DOMAIN level' : level'[i].type = level'[j].type => i = j
    BY <1>3 DEF Once
  <2>2. \A i \in DOMAIN level' : level'[i].type \in visited'
    BY <1>1, <1>3 DEF Once
  <2> QED
    BY <1>1, <2>1, <2>2 DEF Once
<1>6. Levels'
  <2>1. PICK k \in Nat : Deep(k)
    BY DEF Levels
  <2>2. \A i \in DOMAIN level' : Len(level'[i].index) = k
    BY <1>3, <2>1 DEF Deep
  <2>3. Deep(k)'
    BY <1>1, <2>1, <2>2 DEF Deep
  <2> QED
    BY <2>3 DEF Levels
<1>7. Counted'
  BY <1>1, NextParentLooks DEF Counted
<1> QED
  BY <1>4, <1>5, <1>6, <1>7

LEMMA NextLevelStep == WInv /\ NextLevel => WInv'
<1> SUFFICES ASSUME WInv, NextLevel PROVE WInv'
  OBVIOUS
<1> USE DEF WInv
<1>1. /\ level = <<>> /\ visited' = visited \cup next /\ next' = {}
      /\ level' = queue /\ queue' = <<>> /\ UNCHANGED <<env, field, found>>
  BY DEF NextLevel
<1>2. Shape'
  BY <1>1 DEF Shape
<1>3. Once'
  BY <1>1 DEF Once
<1>4. Levels'
  <2>1. PICK k \in Nat : Deep(k)
    BY DEF Levels
  <2>2. visited \cup next \in SUBSET Types /\ visited \in SUBSET Types
    BY DEF Shape
  <2>3. /\ Cardinality(visited) \in Nat /\ Cardinality(visited \cup next) \in Nat
        /\ Cardinality(visited) <= Cardinality(visited \cup next)
    BY <2>2, TypesCounted, FS_Subset
  <2>4. CASE queue = <<>>
    <3>1. Deep(k)'
      BY <1>1, <2>1, <2>3, <2>4 DEF Deep
    <3> QED
      BY <3>1 DEF Levels
  <2>5. CASE queue # <<>>
    <3>1. 1 \in DOMAIN queue
      BY <2>5 DEF Shape
    <3>2. Cardinality(visited) + 1 <= Cardinality(visited \cup next)
      BY <3>1, LevelBrings
    <3>3. Deep(k + 1)'
      BY <1>1, <2>1, <2>3, <3>2 DEF Deep
    <3> QED
      BY <3>3 DEF Levels
  <2> QED
    BY <2>4, <2>5
<1>5. Counted'
  <2>1. AllFields' = AllFields
    BY <1>1 DEF AllFields
  <2>2. \A t \in Ahead' : t \notin visited
    BY <1>1 DEF Ahead, Once
  <2>3. Looked \subseteq Looked'
    BY <1>1, <2>1, <2>2 DEF Looked
  <2>4. IsFiniteSet(Looked') /\ Cardinality(Looked') \in Nat
    <3>1. Looked' \subseteq AllFields
      BY <2>1 DEF Looked
    <3> QED
      BY <3>1, FieldsFinite, FS_Subset, FS_CardinalityType
  <2>5. Cardinality(Looked) <= Cardinality(Looked')
    BY <2>3, <2>4, FS_Subset
  <2>6. Len(found) \in Nat
    BY DEF Shape
  <2> QED
    BY <1>1, <2>4, <2>5, <2>6, LookedFinite DEF Counted
<1> QED
  BY <1>2, <1>3, <1>4, <1>5

\* resolveCollisions only sets kept and phase.
LEMMA IdleStep == WInv /\ (resolveCollisions \/ UNCHANGED vars) => WInv'
<1> SUFFICES ASSUME WInv, resolveCollisions \/ UNCHANGED vars PROVE WInv'
  OBVIOUS
<1> USE DEF WInv
<1>1. UNCHANGED <<env, level, field, queue, visited, next, found>>
  BY DEF resolveCollisions, vars
<1>2. Shape' /\ Once'
  BY <1>1 DEF Shape, Once
<1>3. Levels'
  <2>1. PICK k \in Nat : Deep(k)
    BY DEF Levels
  <2>2. Deep(k)'
    BY <1>1, <2>1 DEF Deep
  <2> QED
    BY <2>2 DEF Levels
<1>4. Counted'
  <2>1. Looked' = Looked
    BY <1>1 DEF Looked, AllFields, Ahead
  <2> QED
    BY <1>1, <2>1 DEF Counted
<1> QED
  BY <1>2, <1>3, <1>4

LEMMA WInvBounds == WInv => DescentBounded
<1> SUFFICES ASSUME WInv PROVE DescentBounded
  OBVIOUS
<1> USE DEF WInv
<1>1. PICK k \in Nat : Deep(k)
  BY DEF Levels
<1>2. visited \in SUBSET Types /\ visited \cup next \in SUBSET Types
  BY DEF Shape
<1>3. /\ Cardinality(visited) \in Nat /\ Cardinality(visited) <= Cardinality(Types)
      /\ Cardinality(visited \cup next) \in Nat /\ Cardinality(visited \cup next) <= Cardinality(Types)
      /\ Cardinality(Types) \in Nat
  BY <1>2, TypesCounted
<1>4. \A i \in DOMAIN level : Len(level[i].index) < Cardinality(Types)
  BY <1>1, <1>3 DEF Deep
<1>5. \A i \in DOMAIN queue : Len(queue[i].index) < Cardinality(Types)
  <2> TAKE i \in DOMAIN queue
  <2>1. Cardinality(visited) + 1 <= Cardinality(visited \cup next)
    BY LevelBrings
  <2>2. Len(queue[i].index) = k + 1 /\ Cardinality(visited) >= k + 1
    BY <1>1 DEF Deep
  <2> QED
    BY <1>3, <2>1, <2>2
<1>6. \A p \in ToSet(level) \cup ToSet(queue) : Len(p.index) < Cardinality(Types)
  BY <1>4, <1>5 DEF ToSet
<1>7. Len(found) <= Cardinality(AllFields)
  <2>1. Len(found) \in Nat
    BY DEF Shape
  <2> QED
    BY <2>1, LookedFinite DEF Counted
<1> QED
  BY <1>6, <1>7 DEF DescentBounded, AllFields

-----------------------------------------------------------------------------
(* The walk is bounded *)

\* For any struct types and any declarations of them: collectFields descends into a
\* type once, so that no embedded struct it will walk lies as deep as there are types
\* and it meets no more candidates than the types have fields.
THEOREM WalkBounded == Spec => []DescentBounded
<1>1. Init => WInv
  BY InitWInv
<1>2. WInv /\ [Next]_vars => WInv'
  BY VisitStep, NextParentStep, NextLevelStep, IdleStep DEF Next
<1>3. WInv => DescentBounded
  BY WInvBounds
<1> QED
  BY <1>1, <1>2, <1>3, PTL DEF Spec

-----------------------------------------------------------------------------
(* resolveCollisions *)

\* winnerFor, with its two counts, picks what the documented rule says and nothing
\* else: of the candidates of one name, the one that is shallower than, or as deep
\* and alone tagged against, every other.
THEOREM WinnerIsTheRule ==
    ASSUME NEW cs, IsFiniteSet(cs),
           \A c \in cs : c.depth \in Int /\ c.tagged \in BOOLEAN
    PROVE  winnerFor(cs) = {c \in cs : \A d \in cs \ {c} : Beats(c, d)}
<1> DEFINE top == Shallowest(cs)
           tie == Tiebreak(top)
           rule == {c \in cs : \A d \in cs \ {c} : Beats(c, d)}
<1>1. top \subseteq cs /\ tie \subseteq top /\ IsFiniteSet(top) /\ IsFiniteSet(tie)
  BY FS_Subset DEF Shallowest, Tiebreak
<1>2. rule \subseteq top
  BY DEF Beats, Shallowest
<1>3. \A c \in top, d \in cs : d \in top \/ c.depth < d.depth
  BY DEF Shallowest
<1>4. \A c, d \in top : c.depth = d.depth
  BY DEF Shallowest
<1>5. \A X : IsFiniteSet(X) => (Cardinality(X) = 1 <=> \E c : X = {c})
  BY FS_Singleton
<1>6. CASE Cardinality(top) = 1
  <2>1. PICK c : top = {c}
    BY <1>1, <1>5, <1>6
  <2>2. c \in rule
    BY <1>1, <1>3, <2>1 DEF Beats
  <2>3. winnerFor(cs) = top
    BY <1>6 DEF winnerFor
  <2> QED
    BY <1>2, <2>1, <2>2, <2>3
<1>7. CASE Cardinality(top) # 1 /\ Cardinality(tie) = 1
  <2>1. PICK c : tie = {c}
    BY <1>1, <1>5, <1>7
  <2>2. c \in top /\ c.tagged /\ \A d \in top \ {c} : ~d.tagged
    BY <2>1 DEF Tiebreak
  <2>3. c \in rule
    BY <1>1, <1>3, <1>4, <2>2 DEF Beats
  <2>4. \A d \in rule : d = c
    BY <1>1, <1>2, <1>4, <2>2 DEF Beats
  <2>5. winnerFor(cs) = tie
    BY <1>7 DEF winnerFor
  <2> QED
    BY <2>1, <2>3, <2>4, <2>5
<1>8. CASE Cardinality(top) # 1 /\ Cardinality(tie) # 1
  <2>1. ASSUME NEW c \in rule PROVE FALSE
    <3>1. c \in top
      BY <1>2, <2>1
    <3>2. PICK d \in top : d # c
      BY <1>1, <1>5, <1>8, <3>1
    <3>3. \A e \in top \ {c} : c.tagged /\ ~e.tagged
      BY <1>1, <1>4, <2>1, <3>1 DEF Beats
    <3>4. tie = {c}
      BY <3>1, <3>2, <3>3 DEF Tiebreak
    <3> QED
      BY <1>1, <1>5, <1>8, <3>4
  <2>2. winnerFor(cs) = {}
    BY <1>8 DEF winnerFor
  <2> QED
    BY <2>1, <2>2
<1> QED
  BY <1>6, <1>7, <1>8

-----------------------------------------------------------------------------
(* Induction, with a set in the place of the predicate *)

\* WFMin on a set of naturals; the set is what a proof instantiates.
LEMMA LeastNatural ==
    ASSUME NEW T \in SUBSET Nat, T # {}
    PROVE  \E x \in T : \A y \in T : x <= y
<1> DEFINE R == OpToRel(<, Nat)
<1>1. IsWellFoundedOn(R, Nat)
  BY NatLessThanWellFounded
<1>2. \A x, y \in Nat : x < y => <<x, y>> \in R
  BY DEF OpToRel
<1> HIDE DEF R
<1>3. PICK x \in T : \A y \in T : ~(<<y, x>> \in R)
  BY <1>1, WFMin
<1>4. \A y \in T : ~(y < x)
  BY <1>2, <1>3
<1> QED
  BY <1>4

\* A set of naturals with 0 and every successor has them all.
LEMMA SetInduction ==
    ASSUME NEW T \in SUBSET Nat, 0 \in T, \A n \in T : n + 1 \in T
    PROVE  T = Nat
<1> SUFFICES ASSUME Nat \ T # {} PROVE FALSE
  OBVIOUS
<1>1. PICK x \in Nat \ T : \A y \in Nat \ T : x <= y
  BY LeastNatural
<1>2. x # 0 /\ x - 1 \in Nat /\ x - 1 \in T
  BY <1>1
<1> QED
  BY <1>1, <1>2

-----------------------------------------------------------------------------
(* Embedding paths *)

\* Reached is what its definition says: the recursion of reach has a solution.
\* An initial part of one, up to n:
Part(e, n, g) ==
    g = [k \in 0..n |-> IF k = 0 THEN {Parent(Root, <<>>)}
                        ELSE Onward(e, g[k - 1], k - 1)]

LEMMA PartSteps ==
    ASSUME NEW e, NEW n \in Nat, NEW g, Part(e, n, g)
    PROVE  /\ g[0] = {Parent(Root, <<>>)}
           /\ \A k \in Nat : k < n => g[k + 1] = Onward(e, g[k], k)
<1> DEFINE step(k) == IF k = 0 THEN {Parent(Root, <<>>)} ELSE Onward(e, g[k - 1], k - 1)
           h == [k \in 0..n |-> step(k)]
<1>1. g = h
  BY DEF Part
<1>2. \A k \in 0..n : h[k] = step(k)
  OBVIOUS
<1>3. \A k \in 0..n : g[k] = step(k)
  BY <1>1, <1>2, Zenon
<1> QED
  BY <1>3

\* There is an initial part up to any n, and any two agree where both are defined.
LEMMA PartsExist ==
    ASSUME NEW e
    PROVE  \A n \in Nat : \E g : Part(e, n, g)
<1> DEFINE T == {n \in Nat : \E g : Part(e, n, g)}
<1>1. 0 \in T
  <2> DEFINE g == [k \in 0..0 |-> {Parent(Root, <<>>)}]
  <2>1. Part(e, 0, g)
    BY DEF Part
  <2> QED
    BY <2>1
<1>2. ASSUME NEW n \in T PROVE n + 1 \in T
  <2>0. PICK g : Part(e, n, g)
    OBVIOUS
  <2>1. n \in Nat /\ g[0] = {Parent(Root, <<>>)} /\ \A k \in Nat : k < n => g[k + 1] = Onward(e, g[k], k)
    BY <2>0, PartSteps
  <2> HIDE DEF T
  <2> DEFINE h == [k \in 0..(n + 1) |-> IF k \in 0..n THEN g[k] ELSE Onward(e, g[n], n)]
             step(k) == IF k = 0 THEN {Parent(Root, <<>>)} ELSE Onward(e, h[k - 1], k - 1)
  <2>2. ASSUME NEW k \in 0..(n + 1) PROVE h[k] = step(k)
    <3>1. CASE k = 0
      BY <2>1, <3>1
    <3>2. CASE k \in 1..n
      <4>1. h[k] = g[k] /\ h[k - 1] = g[k - 1] /\ k - 1 \in 0..n /\ k - 1 + 1 = k
        BY <2>1, <3>2
      <4>2. g[k] = Onward(e, g[k - 1], k - 1)
        BY <2>1, <3>2, <4>1
      <4> QED
        BY <2>1, <3>2, <4>1, <4>2
    <3>3. CASE k = n + 1
      <4>1. h[k] = Onward(e, g[n], n) /\ h[k - 1] = g[n] /\ k - 1 = n
        BY <2>1, <3>3
      <4> QED
        BY <2>1, <3>3, <4>1
    <3> QED
      BY <2>1, <3>1, <3>2, <3>3
  <2>3. h = [k \in 0..(n + 1) |-> step(k)]
    BY <2>2
  <2>4. Part(e, n + 1, h)
    BY <2>3 DEF Part
  <2> QED
    BY <2>1, <2>4 DEF T
<1>3. T = Nat
  <2> HIDE DEF T
  <2>1. T \in SUBSET Nat
    BY DEF T
  <2> QED
    BY <1>1, <1>2, <2>1, SetInduction
<1> QED
  BY <1>3

LEMMA PartsAgree ==
    ASSUME NEW e, NEW n \in Nat, NEW m \in Nat, NEW g, NEW h, Part(e, n, g), Part(e, m, h)
    PROVE  \A k \in Nat : k <= n /\ k <= m => g[k] = h[k]
<1>g. \A j \in Nat : j < n => g[j + 1] = Onward(e, g[j], j)
  BY PartSteps
<1>h. \A j \in Nat : j < m => h[j + 1] = Onward(e, h[j], j)
  BY PartSteps
<1> DEFINE T == {k \in Nat : k <= n /\ k <= m => g[k] = h[k]}
<1>1. 0 \in T
  BY PartSteps
<1>2. ASSUME NEW k \in T PROVE k + 1 \in T
  <2> SUFFICES ASSUME k + 1 <= n, k + 1 <= m PROVE g[k + 1] = h[k + 1]
    OBVIOUS
  <2>1. g[k] = h[k] /\ k \in 0..n /\ k + 1 \in 0..n /\ k \in 0..m /\ k + 1 \in 0..m
    OBVIOUS
  <2>2. g[k + 1] = Onward(e, g[k], k) /\ h[k + 1] = Onward(e, h[k], k)
    BY <1>g, <1>h, <2>1
  <2> QED
    BY <2>1, <2>2
<1>3. T = Nat
  <2> HIDE DEF T
  <2>1. T \in SUBSET Nat
    BY DEF T
  <2> QED
    BY <1>1, <1>2, <2>1, SetInduction
<1> QED
  BY <1>3

\* One embedding deeper at a time.
LEMMA ReachedUnfolds ==
    ASSUME NEW e
    PROVE  /\ Reached(e, 0) = {Parent(Root, <<>>)}
           /\ \A n \in Nat : Reached(e, n + 1) = Onward(e, Reached(e, n), n)
<1> DEFINE G(n) == CHOOSE g : Part(e, n, g)
           f == [n \in Nat |-> G(n)[n]]
           step(r, k) == IF k = 0 THEN {Parent(Root, <<>>)} ELSE Onward(e, r[k - 1], k - 1)
           IsReach(r) == r = [k \in Nat |-> step(r, k)]
           reach == CHOOSE r : IsReach(r)
<1>1. \A n \in Nat : Part(e, n, G(n))
  BY PartsExist, Zenon
<1>2. ASSUME NEW k \in Nat PROVE f[k] = step(f, k)
  <2> HIDE DEF G
  <2>1. CASE k = 0
    BY <1>1, <2>1, PartSteps
  <2>2. CASE k # 0
    <3>1. k - 1 \in Nat /\ k - 1 \in 0..k /\ k - 1 + 1 = k /\ k \in 0..k
      BY <2>2
    <3>2. G(k)[k] = Onward(e, G(k)[k - 1], k - 1)
      <4>1. \A j \in Nat : j < k => G(k)[j + 1] = Onward(e, G(k)[j], j)
        BY <1>1, PartSteps, Zenon
      <4> QED
        BY <3>1, <4>1
    <3>3. G(k)[k - 1] = G(k - 1)[k - 1]
      BY <1>1, <3>1, PartsAgree
    <3> QED
      BY <2>2, <3>1, <3>2, <3>3
  <2> QED
    BY <2>1, <2>2
<1>3. IsReach(f)
  <2> HIDE DEF G
  <2>1. f = [k \in Nat |-> step(f, k)]
    BY <1>2
  <2> QED
    BY <2>1
<1>4. IsReach(reach)
  <2> HIDE DEF f, IsReach
  <2> QED
    BY <1>3, Zenon
<1>5. \A n \in Nat : Reached(e, n) = reach[n]
  BY DEF Reached
<1>6. \A k \in Nat : reach[k] = step(reach, k)
  <2> HIDE DEF reach
  <2> DEFINE h == [k \in Nat |-> step(reach, k)]
  <2>1. reach = h
    BY <1>4
  <2>2. \A k \in Nat : h[k] = step(reach, k)
    OBVIOUS
  <2> QED
    BY <2>1, <2>2, Zenon
<1> QED
  <2> HIDE DEF reach
  <2>1. Reached(e, 0) = {Parent(Root, <<>>)}
    BY <1>5, <1>6
  <2>2. ASSUME NEW n \in Nat
        PROVE  Reached(e, n + 1) = Onward(e, Reached(e, n), n)
    <3>1. n + 1 \in Nat /\ n + 1 # 0 /\ n + 1 - 1 = n
      OBVIOUS
    <3>2. reach[n + 1] = Onward(e, reach[n], n)
      BY <1>6, <3>1
    <3> QED
      BY <1>5, <3>1, <3>2
  <2> QED
    BY <2>1, <2>2

LEMMA AppendAt ==
    ASSUME NEW S, NEW s \in Seq(S), NEW x \in S
    PROVE  /\ Len(Append(s, x)) = Len(s) + 1 /\ Len(s) \in Nat
           /\ Append(s, x)[Len(s) + 1] = x
           /\ \A k \in 1..Len(s) : Append(s, x)[k] = s[k]
OBVIOUS

\* An appended sequence gives back what it was made of.
LEMMA AppendApart ==
    ASSUME NEW s \in Seq(Nat), NEW t \in Seq(Nat), NEW i \in Nat, NEW j \in Nat,
           Append(s, i) = Append(t, j)
    PROVE  s = t /\ i = j
<1> DEFINE u == Append(s, i)
           v == Append(t, j)
<1>1. /\ Len(u) = Len(s) + 1 /\ Len(s) \in Nat /\ u[Len(s) + 1] = i
      /\ \A k \in 1..Len(s) : u[k] = s[k]
  BY AppendAt, Zenon
<1>2. /\ Len(v) = Len(t) + 1 /\ Len(t) \in Nat /\ v[Len(t) + 1] = j
      /\ \A k \in 1..Len(t) : v[k] = t[k]
  BY AppendAt, Zenon
<1>3. u = v
  OBVIOUS
<1> HIDE DEF u, v
<1>4. Len(s) = Len(t) /\ i = j /\ \A k \in 1..Len(s) : s[k] = t[k]
  BY <1>1, <1>2, <1>3
<1>5. s = t
  BY <1>4, SeqEqual
<1> QED
  BY <1>4, <1>5

Envs == [Types -> Seq(Fs)]

\* A path is an entry of Reached at its own length.
Path(e, p) == p \in Reached(e, Len(p.index))

\* A struct embedded in the one at p is one field further on.
LEMMA EmbeddedShape ==
    ASSUME NEW e \in Envs, NEW p \in Parents, NEW q \in EmbeddedIn(e, p)
    PROVE  /\ q \in Parents /\ Len(q.index) = Len(p.index) + 1 /\ Len(p.index) \in Nat
           /\ \E i \in DOMAIN e[p.type] :
                Embedded(e[p.type][i]) /\ q = Parent(e[p.type][i].struct, Append(p.index, i))
<1>1. PICK i \in DOMAIN e[p.type] :
        Embedded(e[p.type][i]) /\ q = Parent(e[p.type][i].struct, Append(p.index, i))
  BY DEF EmbeddedIn
<1>2. e[p.type] \in Seq(Fs) /\ p.type \in Types /\ p.index \in Seq(Nat)
  BY DEF Envs, Parents
<1>3. e[p.type][i] \in Fs /\ i \in Nat
  BY <1>2
<1>4. e[p.type][i].struct \in Types
  BY <1>1, <1>3 DEF Fs, Embedded
<1>5. Append(p.index, i) \in Seq(Nat) /\ Len(Append(p.index, i)) = Len(p.index) + 1 /\ Len(p.index) \in Nat
  BY <1>2, <1>3
<1>6. q.index = Append(p.index, i) /\ q \in Parents
  BY <1>1, <1>4, <1>5 DEF Parent, Parents
<1> QED
  BY <1>1, <1>5, <1>6

\* What is reached is reached at its own length: Reached holds paths and nothing else.
LEMMA ReachedShape ==
    ASSUME NEW e \in Envs
    PROVE  \A n \in Nat : \A p \in Reached(e, n) : p \in Parents /\ Len(p.index) <= n /\ Path(e, p)
<1> DEFINE T == {n \in Nat : \A p \in Reached(e, n) : p \in Parents /\ Len(p.index) <= n /\ Path(e, p)}
<1>1. 0 \in T
  <2>1. Reached(e, 0) = {Parent(Root, <<>>)}
    BY ReachedUnfolds
  <2>2. Parent(Root, <<>>) \in Parents /\ Len(Parent(Root, <<>>).index) = 0
    BY FieldsAssumption DEF Parent, Parents
  <2> QED
    BY <2>1, <2>2 DEF Path
<1>2. ASSUME NEW n \in T PROVE n + 1 \in T
  <2>0. n \in Nat /\ n + 1 \in Nat
    OBVIOUS
  <2>1. n + 1 \in Nat /\ Reached(e, n + 1) = Onward(e, Reached(e, n), n)
    BY <2>0, ReachedUnfolds
  <2> SUFFICES ASSUME NEW p \in Reached(e, n + 1)
               PROVE  p \in Parents /\ Len(p.index) <= n + 1 /\ Path(e, p)
    BY <2>1
  <2>2. CASE p \in Reached(e, n)
    BY <2>2 DEF Parents
  <2>3. CASE p \notin Reached(e, n)
    <3>1. PICK q \in Reached(e, n) : Len(q.index) = n /\ p \in EmbeddedIn(e, q)
      BY <2>1, <2>3 DEF Onward
    <3>2. q \in Parents
      BY <3>1
    <3>3. p \in Parents /\ Len(p.index) = n + 1
      BY <3>1, <3>2, EmbeddedShape
    <3> QED
      BY <3>3 DEF Path
  <2> QED
    BY <2>2, <2>3
<1>3. T = Nat
  <2> HIDE DEF T
  <2>1. T \in SUBSET Nat
    BY DEF T
  <2> QED
    BY <1>1, <1>2, <2>1, SetInduction
<1> QED
  BY <1>3

\* What is reached stays reached.
LEMMA ReachedGrows ==
    ASSUME NEW e \in Envs, NEW m \in Nat, NEW n \in Nat, m <= n
    PROVE  Reached(e, m) \subseteq Reached(e, n)
<1> DEFINE T == {d \in Nat : Reached(e, m) \subseteq Reached(e, m + d)}
<1>1. 0 \in T
  OBVIOUS
<1>2. ASSUME NEW d \in T PROVE d + 1 \in T
  <2>1. d \in Nat /\ m + d \in Nat /\ m + (d + 1) = m + d + 1 /\ Reached(e, m) \subseteq Reached(e, m + d)
    OBVIOUS
  <2>2. Reached(e, m + d + 1) = Onward(e, Reached(e, m + d), m + d)
    BY <2>1, ReachedUnfolds
  <2>3. Reached(e, m) \subseteq Reached(e, m + d + 1)
    BY <2>1, <2>2 DEF Onward
  <2> QED
    BY <2>1, <2>3
<1>3. T = Nat
  <2> HIDE DEF T
  <2>1. T \in SUBSET Nat
    BY DEF T
  <2> QED
    BY <1>1, <1>2, <2>1, SetInduction
<1>4. n - m \in Nat /\ m + (n - m) = n
  OBVIOUS
<1>5. Reached(e, m) \subseteq Reached(e, m + (n - m))
  BY <1>3, <1>4
<1> QED
  BY <1>4, <1>5

\* A path starts at the row type and goes on through an embedded struct.
LEMMA PathReached ==
    ASSUME NEW e \in Envs, NEW p, Path(e, p), NEW n \in Nat, Len(p.index) \in Nat, Len(p.index) <= n
    PROVE  p \in Reached(e, n) /\ p \in Parents
<1>1. p \in Reached(e, Len(p.index))
  BY DEF Path
<1> QED
  BY <1>1, ReachedGrows, ReachedShape

LEMMA PathRoot == \A e : Path(e, Parent(Root, <<>>))
<1> TAKE e
<1>1. Len(Parent(Root, <<>>).index) = 0
  BY DEF Parent
<1> QED
  BY <1>1, ReachedUnfolds DEF Path

\* Through an embedded struct a path goes on.
LEMMA PathExtends ==
    ASSUME NEW e \in Envs, NEW p \in Parents, Path(e, p), NEW q \in EmbeddedIn(e, p)
    PROVE  Path(e, q) /\ q \in Parents
<1>1. Len(p.index) \in Nat /\ Len(q.index) = Len(p.index) + 1 /\ q \in Parents
  BY EmbeddedShape
<1>2. Reached(e, Len(p.index) + 1) = Onward(e, Reached(e, Len(p.index)), Len(p.index))
  BY <1>1, ReachedUnfolds
<1>3. q \in Onward(e, Reached(e, Len(p.index)), Len(p.index))
  BY DEF Path, Onward
<1> QED
  BY <1>1, <1>2, <1>3 DEF Path

\* And only so: a path is the row type or goes through an embedded struct.
LEMMA PathInverts ==
    ASSUME NEW e \in Envs, NEW p \in Parents, Path(e, p)
    PROVE  \/ Len(p.index) = 0 /\ p = Parent(Root, <<>>)
           \/ \E q \in Parents : /\ Path(e, q) /\ p \in EmbeddedIn(e, q)
                                 /\ Len(q.index) + 1 = Len(p.index)
<1>1. Len(p.index) \in Nat
  BY DEF Parents
<1>2. CASE Len(p.index) = 0
  BY <1>2, ReachedUnfolds DEF Path
<1>3. CASE Len(p.index) # 0
  <2> DEFINE n == Len(p.index) - 1
  <2>1. n \in Nat /\ n + 1 = Len(p.index)
    BY <1>1, <1>3
  <2>2. p \in Onward(e, Reached(e, n), n)
    BY <2>1, ReachedUnfolds DEF Path
  <2>3. p \notin Reached(e, n)
    BY <2>1, ReachedShape
  <2>4. PICK q \in Reached(e, n) : Len(q.index) = n /\ p \in EmbeddedIn(e, q)
    BY <2>2, <2>3 DEF Onward
  <2>5. q \in Parents /\ Path(e, q)
    BY <2>1, <2>4, ReachedShape
  <2> QED
    BY <2>1, <2>4, <2>5
<1> QED
  BY <1>2, <1>3

\* An index leads to one struct.
LEMMA PathsApart ==
    ASSUME NEW e \in Envs
    PROVE  \A p, q \in Parents : Path(e, p) /\ Path(e, q) /\ p.index = q.index => p = q
<1> DEFINE T == {n \in Nat : \A p, q \in Parents :
                    Path(e, p) /\ Path(e, q) /\ p.index = q.index /\ Len(p.index) = n => p = q}
<1>1. 0 \in T
  BY PathInverts
<1>2. ASSUME NEW n \in T PROVE n + 1 \in T
  <2>0. n \in Nat /\ n + 1 \in Nat /\ n + 1 # 0
    OBVIOUS
  <2> SUFFICES ASSUME NEW p \in Parents, NEW q \in Parents, Path(e, p), Path(e, q),
                      p.index = q.index, Len(p.index) = n + 1
               PROVE  p = q
    BY <2>0
  <2>1. PICK u \in Parents : Path(e, u) /\ p \in EmbeddedIn(e, u) /\ Len(u.index) + 1 = n + 1
    BY <2>0, PathInverts
  <2>2. PICK v \in Parents : Path(e, v) /\ q \in EmbeddedIn(e, v) /\ Len(v.index) + 1 = n + 1
    BY <2>0, PathInverts
  <2>3. PICK i \in DOMAIN e[u.type] : p = Parent(e[u.type][i].struct, Append(u.index, i))
    BY <2>1, EmbeddedShape
  <2>4. PICK j \in DOMAIN e[v.type] : q = Parent(e[v.type][j].struct, Append(v.index, j))
    BY <2>2, EmbeddedShape
  <2>5. Append(u.index, i) = Append(v.index, j)
    BY <2>3, <2>4 DEF Parent
  <2>6. u.index \in Seq(Nat) /\ v.index \in Seq(Nat) /\ Len(u.index) = n /\ i \in Nat /\ j \in Nat
    BY <2>0, <2>1 DEF Parents, Envs
  <2>7. u.index = v.index /\ i = j
    <3> DEFINE a == u.index
               b == v.index
    <3>1. a \in Seq(Nat) /\ b \in Seq(Nat) /\ i \in Nat /\ j \in Nat /\ Append(a, i) = Append(b, j)
      BY <2>5, <2>6
    <3> HIDE DEF a, b
    <3>2. a = b /\ i = j
      BY <3>1, AppendApart
    <3> QED
      BY <3>2 DEF a, b
  <2>8. u = v
    BY <2>1, <2>2, <2>6, <2>7
  <2> QED
    BY <2>3, <2>4, <2>7, <2>8
<1>3. T = Nat
  <2> HIDE DEF T
  <2>1. T \in SUBSET Nat
    BY DEF T
  <2> QED
    BY <1>1, <1>2, <2>1, SetInduction
<1> QED
  <2> TAKE p, q \in Parents
  <2>1. Len(p.index) \in T
    BY <1>3 DEF Parents
  <2> QED
    BY <2>1

-----------------------------------------------------------------------------
(* What the walk finds *)

FieldAt(x) == env[x[1]][x[2]]

\* The candidate at x, its struct having been met at w.
Met(w, x) == Candidate(FieldAt(x), Append(w[x[1]].index, x[2]))

\* w is where each type was met, in level k or before, or for the level after it.
Origins(k, w) ==
    /\ \A t \in visited \cup next : w[t].type = t /\ Path(env, w[t])
    /\ \A t \in visited : Len(w[t].index) <= k
    /\ \A t \in next : Len(w[t].index) = k + 1
    /\ \A i \in DOMAIN level : level[i] = w[level[i].type] /\ Len(level[i].index) = k
    /\ \A i \in DOMAIN queue : queue[i] = w[queue[i].type]
    /\ \A t \in next : \E i \in DOMAIN queue : queue[i].type = t
    /\ Cardinality(visited) >= k + 1

\* No path is a shorter way to a type.
Nearest(k, w) ==
    \A p \in Reached(env, k) : p.type \in visited /\ Len(w[p.type].index) <= Len(p.index)

\* Of the fields looked at, the structs embedded by them have been met, and their
\* columns are the candidates.
Followed == \A x \in Looked : Embedded(FieldAt(x)) => FieldAt(x).struct \in visited \cup next
Recorded(w) ==
    /\ \A c \in ToSet(found) : \E x \in Looked : IsColumn(FieldAt(x)) /\ c = Met(w, x)
    /\ \A x \in Looked : IsColumn(FieldAt(x)) => Met(w, x) \in ToSet(found)

Walk(k, w) == Origins(k, w) /\ Nearest(k, w) /\ Followed /\ Recorded(w)
Walked == \E k \in Nat, w \in [Types -> Parents] : Walk(k, w)

\* Where the walk has come to, and what it returned.
Stage ==
    /\ level = <<>> => field = 1
    /\ phase \in {"resolving", "returned"} => level = <<>> /\ next = {}
    /\ kept = IF phase = "returned" THEN ByIndex(Winners(ToSet(found))) ELSE <<>>

RInv == WInv /\ Stage /\ Walked

LEMMA AppendedSet ==
    ASSUME NEW S, NEW s \in Seq(S), NEW c, Append(s, c) \in Seq(S)
    PROVE  ToSet(Append(s, c)) = ToSet(s) \cup {c}
<1>1. /\ DOMAIN s = 1..Len(s) /\ Len(s) \in Nat /\ DOMAIN Append(s, c) = 1..(Len(s) + 1)
      /\ Append(s, c)[Len(s) + 1] = c /\ \A i \in 1..Len(s) : Append(s, c)[i] = s[i]
  OBVIOUS
<1> QED
  BY <1>1 DEF ToSet

\* A field looked at is one of a visited type; between levels every one of them is.
LEMMA LookedFacts ==
    ASSUME Shape, Once
    PROVE  /\ \A x \in Looked : /\ x \in AllFields /\ x[1] \in visited /\ x[1] \in Types
                                /\ x[2] \in DOMAIN env[x[1]] /\ x[2] \in Nat /\ x = <<x[1], x[2]>>
           /\ level = <<>> => \A t \in visited : \A i \in DOMAIN env[t] : <<t, i>> \in Looked
<1>1. ASSUME NEW x \in Looked
      PROVE  /\ x \in AllFields /\ x[1] \in visited /\ x[1] \in Types
             /\ x[2] \in DOMAIN env[x[1]] /\ x[2] \in Nat /\ x = <<x[1], x[2]>>
  <2>1. x \in AllFields
    BY DEF Looked
  <2>2. x[1] \in Types /\ x[2] \in DOMAIN env[x[1]] /\ x[2] \in Nat
    BY <2>1, FieldsFinite
  <2>3. x = <<x[1], x[2]>>
    BY <2>1 DEF AllFields
  <2>4. x[1] \in visited
    BY HereFacts DEF Looked
  <2> QED
    BY <2>1, <2>2, <2>3, <2>4
<1>2. ASSUME level = <<>>, NEW t \in visited, NEW i \in DOMAIN env[t]
      PROVE  <<t, i>> \in Looked
  <2>1. <<t, i>> \in AllFields
    BY FieldsFinite DEF Shape
  <2>2. Ahead = {}
    BY <1>2 DEF Ahead
  <2> QED
    BY <2>1, <2>2 DEF Looked
<1> QED
  BY <1>1, <1>2

LEMMA InitRInv == Init => RInv
<1> SUFFICES ASSUME Init PROVE RInv
  OBVIOUS
<1>1. WInv
  BY InitWInv
<1>2. Stage
  BY DEF Init, Stage
<1> DEFINE w == [t \in Types |-> Parent(t, <<>>)]
<1>3. w \in [Types -> Parents]
  BY DEF Parent, Parents
<1>4. w[Root] = Parent(Root, <<>>) /\ Parent(Root, <<>>).type = Root /\ Parent(Root, <<>>).index = <<>>
  BY FieldsAssumption DEF Parent
<1>5. Looked = {}
  <2>1. Ahead = {Root}
    BY <1>4 DEF Init, Ahead
  <2>2. Shape /\ Once
    BY <1>1 DEF WInv
  <2>3. \A x \in AllFields : ~(x[2] < 1)
    BY <2>2, FieldsFinite DEF Shape
  <2> QED
    BY <2>1, <2>3 DEF Init, Looked
<1> HIDE DEF w
<1>6. Origins(0, w)
  <2>1. Cardinality({Root}) = 1
    BY FS_Singleton
  <2>2. Path(env, w[Root])
    BY <1>4, PathRoot
  <2> QED
    BY <1>4, <2>1, <2>2 DEF Init, Origins
<1>7. Nearest(0, w)
  BY <1>4, ReachedUnfolds DEF Init, Nearest
<1>8. Followed /\ Recorded(w)
  BY <1>5 DEF Init, Followed, Recorded, ToSet
<1> QED
  BY <1>1, <1>2, <1>3, <1>6, <1>7, <1>8 DEF RInv, Walked, Walk

\* A field adds at most one candidate, or one type to the level after this one.
LEMMA VisitRInv == RInv /\ Visit => RInv'
<1> SUFFICES ASSUME RInv, Visit PROVE RInv'
  OBVIOUS
<1> DEFINE p == Head(level)
           f == Here[field]
           index == Append(p.index, field)
<1>0. /\ WInv /\ Stage /\ Shape /\ Once /\ WInv' /\ Shape' /\ Once'
  BY VisitStep DEF RInv, WInv
<1>1. /\ phase = "walking" /\ level # <<>> /\ field <= Len(Here)
      /\ UNCHANGED <<env, level, visited, kept>>
  BY DEF Visit
<1>n. PICK now : now = Now
  OBVIOUS
<1>2. /\ p = level[1] /\ 1 \in DOMAIN level /\ p \in Parents /\ p.type \in visited
      /\ field \in DOMAIN env[p.type] /\ field \in Nat /\ f = FieldAt(now) /\ f \in Fs
      /\ now[1] = p.type /\ now[2] = field
  BY <1>0, <1>1, <1>n, HereFacts DEF Shape, Here, FieldAt, Now
<1>3. Stage'
  BY <1>0, <1>1 DEF Visit, Stage
<1>4. PICK k \in Nat, w \in [Types -> Parents] : Walk(k, w)
  BY DEF RInv, Walked
<1>5. Origins(k, w) /\ Nearest(k, w) /\ Followed /\ Recorded(w)
  BY <1>4 DEF Walk
<1>6. p = w[p.type] /\ Len(p.index) = k /\ Path(env, p)
  BY <1>2, <1>5 DEF Origins
<1>7. CASE f.tag = "malformed"
  <2>1. UNCHANGED <<field, queue, next, found>>
    BY <1>7 DEF Visit, Descends
  <2>2. Looked' = Looked
    BY <1>1, <2>1 DEF Looked, AllFields, Ahead
  <2>3. Origins(k, w)' /\ Nearest(k, w)'
    BY <1>1, <1>5, <2>1 DEF Origins, Nearest
  <2>4. Followed' /\ Recorded(w)'
    BY <1>1, <1>5, <2>1, <2>2 DEF Followed, Recorded, Met, FieldAt
  <2> QED
    BY <1>0, <1>3, <2>3, <2>4 DEF RInv, Walked, Walk
<1>8. CASE f.tag # "malformed"
  <2>1. Looked' = Looked \cup {now}
    BY <1>0, <1>8, <1>n, VisitLooks
  <2>2. \A x \in Looked : x[1] \in visited
    BY <1>0, LookedFacts
  <2>3. CASE Embedded(f) /\ ~Seen(f.struct)
    <3>0. PICK q : q = Parent(f.struct, index)
      OBVIOUS
    <3>1. next' = next \cup {f.struct} /\ queue' = Append(queue, q) /\ found' = found
      BY <1>8, <2>3, <3>0 DEF Visit, Descends, IsColumn
    <3>2. f.struct \in Types /\ f.struct \notin visited \cup next
      BY <1>2, <2>3 DEF Embedded, Seen, Fs
    <3>3. q \in EmbeddedIn(env, p)
      BY <1>2, <2>3, <3>0 DEF EmbeddedIn, FieldAt
    <3>4. q \in Parents /\ Path(env, q) /\ Len(q.index) = k + 1
      BY <1>0, <1>2, <1>6, <3>3, PathExtends, EmbeddedShape DEF Shape, Envs
    <3>5. PICK v \in [Types -> Parents] : v[f.struct] = q /\ \A t \in Types \ {f.struct} : v[t] = w[t]
      <4> DEFINE u == [w EXCEPT ![f.struct] = q]
      <4>1. u \in [Types -> Parents] /\ u[f.struct] = q /\ \A t \in Types \ {f.struct} : u[t] = w[t]
        BY <3>2, <3>4
      <4> QED
        BY <4>1
    <3>6. q.type = f.struct
      BY <3>0 DEF Parent
    <3>7. \A t \in visited \cup next : t \in Types /\ t # f.struct /\ v[t] = w[t]
      BY <1>0, <3>2, <3>5 DEF Shape
    <3>8. Origins(k, v)'
      <4>1. /\ DOMAIN queue' = 1..Len(queue) + 1 /\ Len(queue) \in Nat /\ DOMAIN queue = 1..Len(queue)
            /\ \A i \in DOMAIN queue : queue'[i] = queue[i]
            /\ queue'[Len(queue) + 1] = q
        BY <1>0, <3>1 DEF Shape
      <4>2. \A t \in visited' \cup next' : v[t].type = t /\ Path(env', v[t])
        BY <1>1, <1>5, <3>1, <3>4, <3>5, <3>6, <3>7 DEF Origins
      <4>3. (\A t \in visited' : Len(v[t].index) <= k) /\ (\A t \in next' : Len(v[t].index) = k + 1)
        BY <1>1, <1>5, <3>1, <3>4, <3>5, <3>7 DEF Origins
      <4>4. \A i \in DOMAIN level' : level'[i] = v[level'[i].type] /\ Len(level'[i].index) = k
        BY <1>0, <1>1, <1>5, <3>7 DEF Origins, Once
      <4>5. \A i \in DOMAIN queue' : queue'[i] = v[queue'[i].type]
        <5>1. \A i \in DOMAIN queue : queue[i].type \in next
          BY <1>0 DEF Once
        <5>2. \A i \in DOMAIN queue : queue'[i] = v[queue'[i].type]
          BY <1>5, <3>7, <4>1, <5>1 DEF Origins
        <5> QED
          BY <3>5, <3>6, <4>1, <5>2
      <4>6. \A t \in next' : \E i \in DOMAIN queue' : queue'[i].type = t
        <5>1. Len(queue) + 1 \in DOMAIN queue' /\ \A i \in DOMAIN queue : i \in DOMAIN queue'
          BY <4>1
        <5> QED
          BY <1>5, <3>1, <3>6, <4>1, <5>1 DEF Origins
      <4> QED
        BY <1>1, <1>5, <4>2, <4>3, <4>4, <4>5, <4>6 DEF Origins
    <3>9. Nearest(k, v)'
      BY <1>1, <1>5, <3>7 DEF Nearest
    <3>10. Followed'
      BY <1>1, <1>2, <1>5, <2>1, <3>1 DEF Followed, FieldAt
    <3>11. Recorded(v)'
      <4>1. \A x \in Looked : FieldAt(x)' = FieldAt(x) /\ Met(v, x)' = Met(w, x)
        BY <1>1, <2>2, <3>7 DEF Met, FieldAt
      <4>2. FieldAt(now)' = f /\ ~IsColumn(f)
        BY <1>1, <1>2, <2>3 DEF IsColumn, FieldAt
      <4> QED
        BY <1>5, <2>1, <3>1, <4>1, <4>2 DEF Recorded
    <3>12. Walk(k, v)'
      BY <3>8, <3>9, <3>10, <3>11 DEF Walk
    <3> QED
      BY <1>0, <1>3, <3>5, <3>12 DEF RInv, Walked
  <2>4. CASE ~(Embedded(f) /\ ~Seen(f.struct))
    <3>1. /\ next' = next /\ queue' = queue
          /\ found' = IF IsColumn(f) THEN Append(found, Candidate(f, index)) ELSE found
      BY <1>8, <2>4 DEF Visit, Descends
    <3>2. Origins(k, w)' /\ Nearest(k, w)'
      BY <1>1, <1>5, <3>1 DEF Origins, Nearest
    <3>3. Followed'
      BY <1>1, <1>2, <1>5, <2>1, <2>4, <3>1 DEF Followed, FieldAt, Seen
    <3>4. Recorded(w)'
      <4>0. PICK c : c = Candidate(f, index)
        OBVIOUS
      <4>1. \A x \in Looked : FieldAt(x)' = FieldAt(x) /\ Met(w, x)' = Met(w, x)
        BY <1>1 DEF Met, FieldAt
      <4>2. FieldAt(now)' = f /\ Met(w, now)' = c
        BY <1>1, <1>2, <1>6, <4>0 DEF Met, FieldAt
      <4>3. CASE IsColumn(f)
        <5>1. found' = Append(found, c) /\ found \in Seq(Candidates)
          BY <1>0, <3>1, <4>0, <4>3 DEF Shape
        <5>2. ToSet(found)' = ToSet(found) \cup {c}
          BY <1>0, <5>1, AppendedSet DEF Shape
        <5> QED
          BY <1>5, <2>1, <4>1, <4>2, <4>3, <5>2 DEF Recorded
      <4>4. CASE ~IsColumn(f)
        <5>1. found' = found
          BY <3>1, <4>4
        <5> QED
          BY <1>5, <2>1, <4>1, <4>2, <4>4, <5>1 DEF Recorded
      <4> QED
        BY <4>3, <4>4
    <3>5. Walk(k, w)'
      BY <3>2, <3>3, <3>4 DEF Walk
    <3> QED
      BY <1>0, <1>3, <3>5 DEF RInv, Walked
  <2> QED
    BY <2>3, <2>4
<1> QED
  BY <1>7, <1>8

LEMMA NextParentRInv == RInv /\ NextParent => RInv'
<1> SUFFICES ASSUME RInv, NextParent PROVE RInv'
  OBVIOUS
<1>0. Stage /\ Shape /\ Once /\ WInv'
  BY NextParentStep DEF RInv, WInv
<1>1. /\ phase = "walking" /\ level # <<>> /\ level' = Tail(level) /\ field' = 1
      /\ UNCHANGED <<env, phase, queue, visited, next, found, kept>>
  BY DEF NextParent
<1>2. Stage'
  BY <1>0, <1>1 DEF Stage
<1>3. PICK k \in Nat, w \in [Types -> Parents] : Walk(k, w)
  BY DEF RInv, Walked
<1>4. Origins(k, w) /\ Nearest(k, w) /\ Followed /\ Recorded(w)
  BY <1>3 DEF Walk
<1>5. Looked' = Looked
  BY <1>0, NextParentLooks
<1>6. Origins(k, w)'
  <2>1. \A i \in DOMAIN level' : i + 1 \in DOMAIN level /\ level'[i] = level[i + 1]
    BY <1>0, <1>1 DEF Shape
  <2>2. \A i \in DOMAIN level' : level'[i] = w[level'[i].type] /\ Len(level'[i].index) = k
    BY <1>4, <2>1 DEF Origins
  <2> QED
    BY <1>1, <1>4, <2>2 DEF Origins
<1>7. Nearest(k, w)'
  BY <1>1, <1>4 DEF Nearest
<1>8. Followed' /\ Recorded(w)'
  BY <1>1, <1>4, <1>5 DEF Followed, Recorded, Met, FieldAt
<1>9. Walk(k, w)'
  BY <1>6, <1>7, <1>8 DEF Walk
<1> QED
  BY <1>0, <1>2, <1>9 DEF RInv, Walked

\* A new level is one deeper, and what is reached at its depth was met through it.
LEMMA NextLevelRInv == RInv /\ NextLevel => RInv'
<1> SUFFICES ASSUME RInv, NextLevel PROVE RInv'
  OBVIOUS
<1>0. Stage /\ Shape /\ Once /\ WInv'
  BY NextLevelStep DEF RInv, WInv
<1>1. /\ phase = "walking" /\ level = <<>> /\ visited' = visited \cup next /\ next' = {}
      /\ level' = queue /\ queue' = <<>> /\ UNCHANGED <<env, field, found, kept>>
      /\ phase' = IF queue = <<>> THEN "resolving" ELSE "walking"
  BY DEF NextLevel
<1>2. Stage' /\ field = 1
  BY <1>0, <1>1 DEF Stage
<1>3. PICK k \in Nat, w \in [Types -> Parents] : Walk(k, w)
  BY DEF RInv, Walked
<1>4. Origins(k, w) /\ Nearest(k, w) /\ Followed /\ Recorded(w)
  BY <1>3 DEF Walk
<1>5. Looked' = Looked
  <2>1. AllFields' = AllFields /\ Ahead = {}
    BY <1>1 DEF AllFields, Ahead
  <2>2. Ahead' = next
    BY <1>0, <1>1, <1>4 DEF Ahead, Once, Origins
  <2>3. \A x \in AllFields : ~(x[2] < 1)
    <3> TAKE x \in AllFields
    <3>1. x[1] \in Types /\ x[2] \in DOMAIN env[x[1]] /\ DOMAIN env[x[1]] = 1..Len(env[x[1]])
      BY <1>0, FieldsFinite DEF Shape
    <3> QED
      BY <3>1
  <2>4. visited' \ Ahead' = visited \ Ahead
    BY <1>0, <1>1, <2>1, <2>2 DEF Once
  <2> QED
    BY <1>1, <1>2, <2>1, <2>3, <2>4 DEF Looked
<1>6. Followed' /\ Recorded(w)'
  BY <1>1, <1>4, <1>5 DEF Followed, Recorded, Met, FieldAt
<1>7. CASE queue = <<>>
  <2>1. next = {}
    BY <1>4, <1>7 DEF Origins
  <2>2. Origins(k, w)' /\ Nearest(k, w)'
    BY <1>1, <1>4, <1>7, <2>1 DEF Origins, Nearest
  <2>3. Walk(k, w)'
    BY <1>6, <2>2 DEF Walk
  <2> QED
    BY <1>0, <1>2, <2>3 DEF RInv, Walked
<1>8. CASE queue # <<>>
  <2>1. Origins(k + 1, w)'
    <3>1. \A i \in DOMAIN queue : queue[i] = w[queue[i].type] /\ Len(queue[i].index) = k + 1
      BY <1>0, <1>4 DEF Origins, Once
    <3>2. \A t \in visited \cup next : Len(w[t].index) <= k + 1
      <4>1. \A t \in visited \cup next : Len(w[t].index) \in Nat
        BY <1>0 DEF Shape, Parents
      <4> QED
        BY <1>4, <4>1 DEF Origins
    <3>3. Cardinality(visited \cup next) >= k + 2
      <4>1. 1 \in DOMAIN queue
        BY <1>0, <1>8 DEF Shape
      <4>2. Cardinality(visited) + 1 <= Cardinality(visited \cup next)
        BY <1>0, <4>1, LevelBrings
      <4>3. Cardinality(visited) \in Nat /\ Cardinality(visited \cup next) \in Nat
        BY <1>0, TypesCounted DEF Shape
      <4> QED
        BY <1>4, <4>2, <4>3 DEF Origins
    <3> QED
      BY <1>1, <1>4, <3>1, <3>2, <3>3 DEF Origins
  <2>2. Nearest(k + 1, w)'
    <3> SUFFICES ASSUME NEW p \in Reached(env, k + 1)
                 PROVE  p.type \in visited \cup next /\ Len(w[p.type].index) <= Len(p.index)
      BY <1>1 DEF Nearest
    <3>0. env \in Envs
      BY <1>0 DEF Shape, Envs
    <3>1. CASE p \in Reached(env, k)
      BY <1>4, <3>1 DEF Nearest
    <3>2. CASE p \notin Reached(env, k)
      <4>1. PICK q \in Reached(env, k) : Len(q.index) = k /\ p \in EmbeddedIn(env, q)
        <5>1. p \in Onward(env, Reached(env, k), k)
          BY ReachedUnfolds
        <5> QED
          BY <3>2, <5>1 DEF Onward
      <4>2. q \in Parents /\ q.type \in visited
        BY <1>4, <3>0, <4>1, ReachedShape DEF Nearest
      <4>3. PICK i \in DOMAIN env[q.type] :
              Embedded(env[q.type][i]) /\ p = Parent(env[q.type][i].struct, Append(q.index, i))
        BY <3>0, <4>1, <4>2, EmbeddedShape
      <4>4. p \in Parents /\ Len(p.index) = k + 1
        BY <3>0, <4>1, <4>2, EmbeddedShape
      <4>5. <<q.type, i>> \in Looked
        BY <1>0, <1>1, <4>2, LookedFacts
      <4>6. p.type = env[q.type][i].struct /\ p.type \in visited \cup next
        BY <1>4, <4>3, <4>5 DEF Followed, FieldAt, Parent
      <4>7. Len(w[p.type].index) \in Nat
        BY <1>0, <4>6 DEF Shape, Parents
      <4> QED
        BY <1>4, <4>4, <4>6, <4>7 DEF Origins
    <3> QED
      BY <3>1, <3>2
  <2>3. Walk(k + 1, w)'
    BY <1>6, <2>1, <2>2 DEF Walk
  <2> QED
    BY <1>0, <1>2, <2>3 DEF RInv, Walked
<1> QED
  BY <1>7, <1>8

LEMMA IdleRInv == RInv /\ (resolveCollisions \/ UNCHANGED vars) => RInv'
<1> SUFFICES ASSUME RInv, resolveCollisions \/ UNCHANGED vars PROVE RInv'
  OBVIOUS
<1>0. Stage /\ WInv'
  BY IdleStep DEF RInv
<1>1. UNCHANGED <<env, level, field, queue, visited, next, found>>
  BY DEF resolveCollisions, vars
<1>2. Stage'
  BY <1>0, <1>1 DEF Stage, resolveCollisions, vars
<1>3. PICK k \in Nat, w \in [Types -> Parents] : Walk(k, w)
  BY DEF RInv, Walked
<1>4. Looked' = Looked
  BY <1>1 DEF Looked, AllFields, Ahead
<1>5. Walk(k, w)'
  BY <1>1, <1>3, <1>4 DEF Walk, Origins, Nearest, Followed, Recorded, Met, FieldAt
<1> QED
  BY <1>0, <1>2, <1>5 DEF RInv, Walked

LEMMA RInvHolds == Spec => []RInv
<1>1. RInv /\ [Next]_vars => RInv'
  BY VisitRInv, NextParentRInv, NextLevelRInv, IdleRInv DEF Next
<1> QED
  BY <1>1, InitRInv, PTL DEF Spec

-----------------------------------------------------------------------------
(* What the walk has found when it ends *)

Ended == RInv /\ level = <<>> /\ next = {}

\* Every path leads to a type that was met, and was met no deeper.
LEMMA PathsMet ==
    ASSUME Ended, NEW k \in Nat, NEW w \in [Types -> Parents], Walk(k, w)
    PROVE  \A p \in Parents : Path(env, p) => p.type \in visited /\ Len(w[p.type].index) <= Len(p.index)
<1>0. Shape /\ Once /\ env \in Envs /\ visited \in SUBSET Types
  BY DEF Ended, RInv, WInv, Shape, Envs
<1>1. Origins(k, w) /\ Nearest(k, w) /\ Followed
  BY DEF Walk
<1> DEFINE T == {n \in Nat : \A p \in Parents : Path(env, p) /\ Len(p.index) = n => p.type \in visited}
<1>2. 0 \in T
  <2> SUFFICES ASSUME NEW p \in Parents, Path(env, p), Len(p.index) = 0 PROVE p.type \in visited
    OBVIOUS
  <2>1. p \in Reached(env, k)
    BY <1>0, PathReached
  <2> QED
    BY <1>1, <2>1 DEF Nearest
<1>3. ASSUME NEW n \in T PROVE n + 1 \in T
  <2>0. n \in Nat /\ n + 1 \in Nat /\ n + 1 # 0
    OBVIOUS
  <2> SUFFICES ASSUME NEW p \in Parents, Path(env, p), Len(p.index) = n + 1 PROVE p.type \in visited
    BY <2>0
  <2>1. PICK q \in Parents : Path(env, q) /\ p \in EmbeddedIn(env, q) /\ Len(q.index) + 1 = n + 1
    BY <1>0, <2>0, PathInverts
  <2>2. Len(q.index) = n
    BY <2>0, <2>1 DEF Parents
  <2>3. q.type \in visited
    BY <2>1, <2>2
  <2>4. PICK i \in DOMAIN env[q.type] :
          Embedded(env[q.type][i]) /\ p = Parent(env[q.type][i].struct, Append(q.index, i))
    BY <1>0, <2>1, EmbeddedShape
  <2>5. <<q.type, i>> \in Looked
    BY <1>0, <2>3, LookedFacts DEF Ended
  <2> QED
    BY <1>1, <2>4, <2>5 DEF Ended, Followed, FieldAt, Parent
<1>4. T = Nat
  <2> HIDE DEF T
  <2>1. T \in SUBSET Nat
    BY DEF T
  <2> QED
    BY <1>2, <1>3, <2>1, SetInduction
<1> SUFFICES ASSUME NEW p \in Parents, Path(env, p)
             PROVE  p.type \in visited /\ Len(w[p.type].index) <= Len(p.index)
  OBVIOUS
<1>5. Len(p.index) \in Nat /\ p.type \in visited
  <2>1. Len(p.index) \in T
    BY <1>4 DEF Parents
  <2> QED
    BY <2>1
<1>6. Len(w[p.type].index) \in Nat /\ Len(w[p.type].index) <= k
  BY <1>1, <1>5 DEF Origins, Parents
<1>7. CASE Len(p.index) <= k
  <2>1. p \in Reached(env, k)
    BY <1>0, <1>5, <1>7, PathReached
  <2> QED
    BY <1>1, <2>1 DEF Nearest
<1> QED
  BY <1>5, <1>6, <1>7

\* A candidate of the struct at p.
LEMMA CandidateShape ==
    ASSUME NEW e \in Envs, NEW p \in Parents, NEW i \in DOMAIN e[p.type]
    PROVE  LET c == Candidate(e[p.type][i], Append(p.index, i))
           IN  /\ c \in Candidates /\ c.depth = Len(p.index) /\ Len(p.index) \in Nat
               /\ c.index = Append(p.index, i) /\ p.index \in Seq(Nat) /\ i \in Nat
               /\ c.name = Name(e[p.type][i]) /\ c.tagged = Named(e[p.type][i])
<1>1. e[p.type] \in Seq(Fs) /\ p.index \in Seq(Nat) /\ Len(p.index) \in Nat
  BY DEF Envs, Parents
<1>2. e[p.type][i] \in Fs /\ i \in Nat
  BY <1>1
<1>3. Append(p.index, i) \in Seq(Nat) /\ Len(Append(p.index, i)) = Len(p.index) + 1
  BY <1>1, <1>2
<1>4. Name(e[p.type][i]) \in STRING /\ Named(e[p.type][i]) \in BOOLEAN
  BY <1>2 DEF Name, Named, Fs
<1> QED
  BY <1>1, <1>2, <1>3, <1>4 DEF Candidate, Candidates

\* What was found is candidates of the rule, one per index; and for every candidate of
\* the rule one was found of its name, no deeper: itself or, without diamonds, a shallower.
LEMMA EndedFacts ==
    ASSUME Ended
    PROVE  /\ AllCandidates(env) \subseteq Candidates /\ ToSet(found) \subseteq AllCandidates(env)
           /\ \A c \in AllCandidates(env) : \E d \in ToSet(found) :
                /\ d.name = c.name /\ d.tagged = c.tagged /\ d.depth <= c.depth
                /\ DiamondFree(env) => d = c \/ d.depth < c.depth
           /\ \A c, d \in ToSet(found) : c.index = d.index => c = d
<1> DEFINE N == Cardinality(Types)
<1>0. Shape /\ Once /\ env \in Envs /\ visited \in SUBSET Types /\ level = <<>>
  BY DEF Ended, RInv, WInv, Shape, Envs
<1>1. PICK k \in Nat, w \in [Types -> Parents] : Walk(k, w)
  BY DEF Ended, RInv, Walked
<1>2. Origins(k, w) /\ Recorded(w)
  BY <1>1 DEF Walk
<1>3. N \in Nat /\ k < N
  <2>1. Cardinality(visited) \in Nat /\ Cardinality(visited) <= N /\ N \in Nat
    BY <1>0, TypesCounted
  <2> QED
    BY <1>2, <2>1 DEF Origins
<1> HIDE DEF N
<1>4. \A t \in visited : w[t] \in Parents /\ w[t].type = t /\ Path(env, w[t]) /\ w[t] \in Reached(env, N)
  <2> TAKE t \in visited
  <2>1. w[t] \in Parents /\ w[t].type = t /\ Path(env, w[t]) /\ Len(w[t].index) <= k
    BY <1>0, <1>2 DEF Origins
  <2>2. Len(w[t].index) \in Nat /\ Len(w[t].index) <= N
    BY <1>3, <2>1 DEF Parents
  <2> QED
    BY <1>0, <1>3, <2>1, <2>2, PathReached
<1>5. \A p \in Reached(env, N) : /\ p \in Parents /\ Path(env, p) /\ p.type \in visited
                                 /\ Len(w[p.type].index) <= Len(p.index)
  BY <1>0, <1>1, <1>3, ReachedShape, PathsMet
<1>6. ASSUME NEW c \in AllCandidates(env)
      PROVE  \E p \in Reached(env, N) : \E i \in DOMAIN env[p.type] :
                IsColumn(env[p.type][i]) /\ c = Candidate(env[p.type][i], Append(p.index, i))
  BY DEF AllCandidates, CandidatesOf, N
<1>7. AllCandidates(env) \subseteq Candidates
  BY <1>0, <1>5, <1>6, CandidateShape
<1>8. ASSUME NEW c \in ToSet(found)
      PROVE  \E t \in visited : \E i \in DOMAIN env[t] :
                IsColumn(env[t][i]) /\ c = Candidate(env[t][i], Append(w[t].index, i))
  <2>1. PICK x \in Looked : IsColumn(FieldAt(x)) /\ c = Met(w, x)
    BY <1>2 DEF Recorded
  <2>2. x[1] \in visited /\ x[2] \in DOMAIN env[x[1]]
    BY <1>0, LookedFacts
  <2> QED
    BY <2>1, <2>2 DEF FieldAt, Met
<1>9. ToSet(found) \subseteq AllCandidates(env)
  <2> SUFFICES ASSUME NEW c \in ToSet(found) PROVE c \in AllCandidates(env)
    OBVIOUS
  <2>1. PICK t \in visited : \E i \in DOMAIN env[t] :
          IsColumn(env[t][i]) /\ c = Candidate(env[t][i], Append(w[t].index, i))
    BY <1>8
  <2>2. c \in CandidatesOf(env, w[t])
    BY <1>4, <2>1 DEF CandidatesOf
  <2> QED
    BY <1>4, <2>2 DEF AllCandidates, N
<1>10. ASSUME NEW c \in AllCandidates(env)
       PROVE  \E d \in ToSet(found) :
                /\ d.name = c.name /\ d.tagged = c.tagged /\ d.depth <= c.depth
                /\ DiamondFree(env) => d = c \/ d.depth < c.depth
  <2>1. PICK p \in Reached(env, N) : \E i \in DOMAIN env[p.type] :
          IsColumn(env[p.type][i]) /\ c = Candidate(env[p.type][i], Append(p.index, i))
    BY <1>6
  <2>2. PICK i \in DOMAIN env[p.type] :
          IsColumn(env[p.type][i]) /\ c = Candidate(env[p.type][i], Append(p.index, i))
    BY <2>1
  <2>3. PICK q \in Parents : q = w[p.type]
    BY <1>4, <1>5
  <2>4. /\ p \in Parents /\ p.type \in visited /\ q.type = p.type /\ q \in Reached(env, N)
        /\ Len(q.index) <= Len(p.index)
    BY <1>4, <1>5, <2>3
  <2>5. PICK d : d = Candidate(env[q.type][i], Append(q.index, i))
    OBVIOUS
  <2>6. d \in ToSet(found)
    <3>1. <<p.type, i>> \in Looked
      BY <1>0, <2>4, LookedFacts
    <3> QED
      BY <1>2, <2>2, <2>3, <2>4, <2>5, <3>1 DEF Recorded, Met, FieldAt
  <2>7. /\ c.depth = Len(p.index) /\ c.name = Name(env[p.type][i]) /\ c.tagged = Named(env[p.type][i])
        /\ Len(p.index) \in Nat
    BY <1>0, <2>2, <2>4, CandidateShape
  <2>8. /\ d.depth = Len(q.index) /\ d.name = Name(env[p.type][i]) /\ d.tagged = Named(env[p.type][i])
        /\ Len(q.index) \in Nat
    BY <1>0, <2>2, <2>4, <2>5, CandidateShape
  <2>9. ASSUME DiamondFree(env), ~(d.depth < c.depth) PROVE d = c
    <3>1. Len(p.index) = Len(q.index)
      BY <2>4, <2>7, <2>8, <2>9
    <3>2. \A r \in Reached(env, N) : r.type = p.type => ~(Len(r.index) < Len(p.index))
      <4> SUFFICES ASSUME NEW r \in Reached(env, N), r.type = p.type
                   PROVE  Len(q.index) <= Len(r.index) /\ Len(r.index) \in Nat
        BY <2>7, <3>1
      <4> QED
        BY <1>5, <2>3 DEF Parents
    <3>3. p = q
      BY <2>4, <2>9, <3>1, <3>2 DEF DiamondFree, N
    <3> QED
      BY <2>2, <2>5, <3>3
  <2> QED
    BY <2>4, <2>6, <2>7, <2>8, <2>9
<1>11. ASSUME NEW c \in ToSet(found), NEW d \in ToSet(found), c.index = d.index PROVE c = d
  <2>1. PICK t \in visited : \E i \in DOMAIN env[t] : c = Candidate(env[t][i], Append(w[t].index, i))
    BY <1>8
  <2>2. PICK u \in visited : \E j \in DOMAIN env[u] : d = Candidate(env[u][j], Append(w[u].index, j))
    BY <1>8
  <2>3. PICK i \in DOMAIN env[t] : c = Candidate(env[t][i], Append(w[t].index, i))
    BY <2>1
  <2>4. PICK j \in DOMAIN env[u] : d = Candidate(env[u][j], Append(w[u].index, j))
    BY <2>2
  <2>5. c.index = Append(w[t].index, i) /\ w[t].index \in Seq(Nat) /\ i \in Nat
    BY <1>0, <1>4, <2>3, CandidateShape
  <2>6. d.index = Append(w[u].index, j) /\ w[u].index \in Seq(Nat) /\ j \in Nat
    BY <1>0, <1>4, <2>4, CandidateShape
  <2>7. w[t].index = w[u].index /\ i = j
    <3> DEFINE a == w[t].index
               b == w[u].index
    <3>1. a \in Seq(Nat) /\ b \in Seq(Nat) /\ Append(a, i) = Append(b, j)
      BY <1>11, <2>5, <2>6
    <3> HIDE DEF a, b
    <3>2. a = b /\ i = j
      BY <2>5, <2>6, <3>1, AppendApart
    <3> QED
      BY <3>2 DEF a, b
  <2>8. w[t] = w[u] /\ t = u
    BY <1>0, <1>4, <2>7, PathsApart
  <2> QED
    BY <2>3, <2>4, <2>7, <2>8
<1> QED
  BY <1>7, <1>9, <1>10, <1>11

-----------------------------------------------------------------------------
(* Sorting by index *)

\* s comes before t from their i-th place on, where it ends or is smaller.
Splits(s, t, i) ==
    /\ i \in 1..(Len(s) + 1) /\ i <= Len(t)
    /\ \A j \in 1..(i - 1) : s[j] = t[j]
    /\ i <= Len(s) => s[i] < t[i]

\* Both ways to come before another are one: there is a place where they part.
LEMMA BeforeSplits ==
    ASSUME NEW a \in Candidates, NEW b \in Candidates
    PROVE  Before(a, b) <=> \E i \in Nat : Splits(a.index, b.index, i)
<1>0. PICK s \in Seq(Nat), t \in Seq(Nat) : s = a.index /\ t = b.index
  BY DEF Candidates
<1>d. Len(s) \in Nat /\ DOMAIN s = 1..Len(s) /\ Len(t) \in Nat /\ DOMAIN t = 1..Len(t)
  OBVIOUS
<1>1. ASSUME IsStrictPrefix(s, t) PROVE \E i \in Nat : Splits(s, t, i)
  <2>0. Len(s) <= Len(t) /\ s # t /\ SubSeq(s, 1, Len(s)) = SubSeq(t, 1, Len(s))
    BY <1>1 DEF IsStrictPrefix, IsPrefix
  <2>1. \A j \in 1..Len(s) : s[j] = t[j]
    <3> TAKE j \in 1..Len(s)
    <3>1. SubSeq(s, 1, Len(s))[j] = s[j] /\ SubSeq(t, 1, Len(s))[j] = t[j]
      BY <2>0
    <3> QED
      BY <2>0, <3>1
  <2>2. Len(s) # Len(t)
    BY <2>0, <2>1, SeqEqual
  <2>3. PICK m \in Nat : m = Len(s) + 1
    BY <1>d
  <2>4. m \in 1..(Len(s) + 1) /\ m <= Len(t) /\ m - 1 = Len(s) /\ ~(m <= Len(s))
    BY <2>0, <2>2, <2>3
  <2>5. Splits(s, t, m)
    BY <2>1, <2>4 DEF Splits
  <2> QED
    BY <2>5
<1>2. ASSUME NEW i \in DOMAIN s \cap DOMAIN t, s[i] < t[i], \A j \in 1..(i - 1) : s[j] = t[j]
      PROVE  Splits(s, t, i) /\ i \in Nat
  BY <1>d, <1>2 DEF Splits
<1>3. ASSUME NEW i \in Nat, Splits(s, t, i) PROVE Before(a, b)
  <2>1. CASE i <= Len(s)
    <3>1. i \in DOMAIN s \cap DOMAIN t /\ s[i] < t[i] /\ \A j \in 1..(i - 1) : s[j] = t[j]
      BY <1>d, <1>3, <2>1 DEF Splits
    <3> QED
      BY <1>0, <3>1 DEF Before
  <2>2. CASE ~(i <= Len(s))
    <3>1. Len(s) < Len(t) /\ \A j \in 1..Len(s) : s[j] = t[j]
      BY <1>d, <1>3, <2>2 DEF Splits
    <3>2. SubSeq(s, 1, Len(s)) = SubSeq(t, 1, Len(s))
      BY <3>1
    <3>3. IsStrictPrefix(s, t)
      BY <1>d, <3>1, <3>2 DEF IsStrictPrefix, IsPrefix
    <3> QED
      BY <1>0, <3>3 DEF Before
  <2> QED
    BY <2>1, <2>2
<1> QED
  BY <1>0, <1>1, <1>2, <1>3 DEF Before

\* slices.Compare orders indexes: strictly, transitively and totally.
LEMMA BeforeIrreflexive ==
    ASSUME NEW a \in Candidates
    PROVE  ~Before(a, a)
<1>0. PICK s \in Seq(Nat) : s = a.index
  BY DEF Candidates
<1>1. \A i \in Nat : ~Splits(s, s, i)
  BY DEF Splits
<1> QED
  BY <1>0, <1>1, BeforeSplits

LEMMA BeforeTransitive ==
    ASSUME NEW a \in Candidates, NEW b \in Candidates, NEW c \in Candidates,
           Before(a, b), Before(b, c)
    PROVE  Before(a, c)
<1>0. PICK s \in Seq(Nat), t \in Seq(Nat), u \in Seq(Nat) : s = a.index /\ t = b.index /\ u = c.index
  BY DEF Candidates
<1>d. Len(s) \in Nat /\ Len(t) \in Nat /\ Len(u) \in Nat
  OBVIOUS
<1>n. /\ \A n \in 1..Len(s) : s[n] \in Nat
      /\ \A n \in 1..Len(t) : t[n] \in Nat
      /\ \A n \in 1..Len(u) : u[n] \in Nat
  OBVIOUS
<1>1. PICK i \in Nat : Splits(s, t, i)
  BY <1>0, BeforeSplits
<1>2. PICK j \in Nat : Splits(t, u, j)
  BY <1>0, BeforeSplits
<1>3. CASE i < j
  <2>1. Splits(s, u, i)
    BY <1>d, <1>n, <1>1, <1>2, <1>3 DEF Splits
  <2> QED
    BY <1>0, <2>1, BeforeSplits
<1>4. CASE j <= i
  <2>1. j \in 1..(Len(s) + 1) /\ j <= Len(u) /\ \A n \in 1..(j - 1) : s[n] = u[n]
    BY <1>d, <1>1, <1>2, <1>4 DEF Splits
  <2>2. j <= Len(s) => s[j] < u[j]
    <3> SUFFICES ASSUME j <= Len(s) PROVE s[j] < u[j]
      OBVIOUS
    <3>0. j >= 1 /\ j <= Len(u) /\ j <= Len(t)
      BY <1>d, <1>1, <1>4, <2>1 DEF Splits
    <3>n. s[j] \in Nat /\ t[j] \in Nat /\ u[j] \in Nat
      BY <1>n, <3>0
    <3>1. s[j] <= t[j]
      <4>1. CASE j < i
        BY <1>1, <3>0, <3>n, <4>1 DEF Splits
      <4>2. CASE j = i
        BY <1>1, <3>n, <4>2 DEF Splits
      <4> QED
        BY <1>4, <4>1, <4>2
    <3>2. t[j] < u[j]
      BY <1>2, <3>0 DEF Splits
    <3> QED
      BY <3>n, <3>1, <3>2
  <2>3. Splits(s, u, j)
    BY <2>1, <2>2 DEF Splits
  <2> QED
    BY <1>0, <2>3, BeforeSplits
<1> QED
  BY <1>3, <1>4

LEMMA BeforeTotal ==
    ASSUME NEW a \in Candidates, NEW b \in Candidates, a.index # b.index
    PROVE  Before(a, b) \/ Before(b, a)
<1>0. PICK s \in Seq(Nat), t \in Seq(Nat) : s = a.index /\ t = b.index
  BY DEF Candidates
<1>d. Len(s) \in Nat /\ Len(t) \in Nat
  OBVIOUS
<1>n. /\ \A n \in 1..Len(s) : s[n] \in Nat
      /\ \A n \in 1..Len(t) : t[n] \in Nat
  OBVIOUS
<1> DEFINE D == {i \in Nat \ {0} : ~(i <= Len(s) /\ i <= Len(t) /\ s[i] = t[i])}
<1>1. PICK m \in D : \A i \in D : m <= i
  <2>1. D \in SUBSET Nat /\ Len(s) + 1 \in D
    BY <1>d
  <2> HIDE DEF D
  <2> QED
    BY <2>1, LeastNatural
<1>2. \A j \in 1..(m - 1) : j <= Len(s) /\ j <= Len(t) /\ s[j] = t[j]
  BY <1>1
<1>3. m \in Nat /\ m - 1 <= Len(s) /\ m - 1 <= Len(t) /\ m >= 1
  <2>1. CASE m = 1
    BY <1>d, <2>1
  <2>2. CASE m # 1
    <3>1. m - 1 \in 1..(m - 1)
      BY <2>2
    <3> QED
      BY <1>2, <3>1
  <2> QED
    BY <2>1, <2>2
<1>4. CASE m <= Len(s) /\ m <= Len(t)
  <2>1. s[m] # t[m] /\ s[m] \in Nat /\ t[m] \in Nat
    BY <1>n, <1>3, <1>4
  <2>2. Splits(s, t, m) \/ Splits(t, s, m)
    BY <1>d, <1>2, <1>3, <1>4, <2>1 DEF Splits
  <2> QED
    BY <1>0, <1>3, <2>2, BeforeSplits
<1>5. CASE ~(m <= Len(s)) /\ m <= Len(t)
  <2>1. Splits(s, t, m)
    BY <1>d, <1>2, <1>3, <1>5 DEF Splits
  <2> QED
    BY <1>0, <1>3, <2>1, BeforeSplits
<1>6. CASE m <= Len(s) /\ ~(m <= Len(t))
  <2>1. Splits(t, s, m)
    BY <1>d, <1>2, <1>3, <1>6 DEF Splits
  <2> QED
    BY <1>0, <1>3, <2>1, BeforeSplits
<1>7. CASE ~(m <= Len(s)) /\ ~(m <= Len(t))
  <2>1. Len(s) = Len(t) /\ Len(s) = m - 1
    BY <1>d, <1>3, <1>7
  <2>2. s = t
    BY <1>2, <2>1, SeqEqual
  <2> QED
    BY <1>0, <2>2
<1> QED
  BY <1>4, <1>5, <1>6, <1>7

\* ByIndex lists the candidates it is given, each once, in the order of their indexes.
LEMMA ByIndexSorts ==
    ASSUME NEW cs \in SUBSET Candidates, IsFiniteSet(cs),
           \A c, d \in cs : c.index = d.index => c = d
    PROVE  /\ ToSet(ByIndex(cs)) = cs
           /\ \A i, j \in DOMAIN ByIndex(cs) : i < j => Before(ByIndex(cs)[i], ByIndex(cs)[j])
<1> DEFINE n == Cardinality(cs)
           Under(c) == {d \in cs : Before(d, c)}
           rank == [c \in cs |-> Cardinality(Under(c)) + 1]
           Places == 1..n
<1>0. n \in Nat /\ IsFiniteSet(Places) /\ Cardinality(Places) = n
  BY FS_CardinalityType, FS_Interval
<1>1. ASSUME NEW c \in cs
      PROVE  IsFiniteSet(Under(c)) /\ Cardinality(Under(c)) \in Nat /\ Cardinality(Under(c)) < n
  <2>1. Under(c) \in SUBSET cs /\ c \notin Under(c)
    BY BeforeIrreflexive
  <2> HIDE DEF Under
  <2> QED
    BY <1>0, <2>1, FS_Subset, FS_CardinalityType
<1>2. ASSUME NEW c \in cs, NEW d \in cs, Before(c, d)
      PROVE  Cardinality(Under(c)) < Cardinality(Under(d))
  <2>1. Under(c) \in SUBSET Under(d) /\ c \in Under(d) /\ c \notin Under(c)
    BY <1>2, BeforeIrreflexive, BeforeTransitive
  <2>2. IsFiniteSet(Under(d)) /\ Cardinality(Under(c)) \in Nat /\ Cardinality(Under(d)) \in Nat
    BY <1>1
  <2> HIDE DEF Under
  <2> QED
    BY <2>1, <2>2, FS_Subset
<1>3. \A c, d \in cs : c = d \/ Before(c, d) \/ Before(d, c)
  BY BeforeTotal
<1> HIDE DEF Under, Places, n
<1>4. \A c \in cs : rank[c] \in Nat /\ rank[c] \in Places
  BY <1>0, <1>1 DEF Places
<1>5. \A c, d \in cs : rank[c] = rank[d] => c = d
  BY <1>1, <1>2, <1>3
<1>6. \A c, d \in cs : rank[c] < rank[d] => Before(c, d)
  BY <1>1, <1>2, <1>3
<1>7. \A i \in Places : \E c \in cs : rank[c] = i
  <2>1. rank \in Injection(cs, Places)
    BY <1>4, <1>5 DEF Injection, IsInjective
  <2>2. rank \in Surjection(cs, Places)
    <3> HIDE DEF rank
    <3> QED
      BY <1>0, <2>1, FS_Injection DEF n
  <2> QED
    BY <2>2 DEF Surjection
<1>8. PICK s : s = ByIndex(cs)
  OBVIOUS
<1>9. DOMAIN s = Places /\ \A i \in Places : s[i] \in cs /\ rank[s[i]] = i
  <2> DEFINE at(i) == CHOOSE c \in cs : Cardinality(Under(c)) = i - 1
  <2>1. s = [i \in Places |-> at(i)]
    BY <1>8 DEF ByIndex, Under, Places, n
  <2>2. ASSUME NEW i \in Places PROVE at(i) \in cs /\ rank[at(i)] = i
    <3>1. PICK c \in cs : rank[c] = i
      BY <1>7
    <3>2. Cardinality(Under(c)) = i - 1 /\ i \in Nat
      BY <1>0, <1>1, <3>1 DEF Places
    <3>3. at(i) \in cs /\ Cardinality(Under(at(i))) = i - 1
      BY <3>2, Zenon
    <3> QED
      BY <3>2, <3>3
  <2> HIDE DEF at
  <2> QED
    BY <2>1, <2>2
<1> HIDE DEF rank
<1>10. ToSet(s) = cs
  <2>1. \A c \in cs : s[rank[c]] = c
    BY <1>4, <1>5, <1>9
  <2> QED
    BY <1>4, <1>9, <2>1 DEF ToSet
<1>11. \A i, j \in DOMAIN s : i < j => Before(s[i], s[j])
  BY <1>6, <1>9
<1> QED
  BY <1>8, <1>10, <1>11

-----------------------------------------------------------------------------
(* The columns *)

LEMMA FoundFinite == Shape => IsFiniteSet(ToSet(found))
<1> HAVE Shape
<1> DEFINE places == 1..Len(found)
<1>1. found \in Seq(Candidates) /\ DOMAIN found = places /\ Len(found) \in Nat
  BY DEF Shape
<1>2. IsFiniteSet(places)
  BY <1>1, FS_Interval
<1>3. found \in [places -> ToSet(found)] /\ \A c \in ToSet(found) : \E i \in places : found[i] = c
  BY <1>1 DEF ToSet
<1> HIDE DEF places
<1>4. found \in Surjection(places, ToSet(found))
  BY <1>3 DEF Surjection
<1> QED
  BY <1>2, <1>4, FS_Surjection

\* The columns are the candidates met that beat every other one met of their name,
\* in the order of their indexes.
LEMMA KeptFacts ==
    ASSUME RInv, phase = "returned"
    PROVE  /\ Ended
           /\ ToSet(kept) = {c \in ToSet(found) :
                               \A d \in ToSet(found) \ {c} : d.name = c.name => Beats(c, d)}
           /\ \A i, j \in DOMAIN kept : i < j => Before(kept[i], kept[j])
<1> DEFINE F == ToSet(found)
           Of(c) == {d \in F : d.name = c.name}
<1>1. Ended /\ Shape /\ kept = ByIndex(Winners(F))
  BY DEF RInv, WInv, Stage, Ended
<1>2. /\ F \subseteq Candidates /\ IsFiniteSet(F)
      /\ \A c, d \in F : c.index = d.index => c = d
  BY <1>1, EndedFacts, FoundFinite
<1> HIDE DEF F
<1>3. Winners(F) \in SUBSET F
  BY DEF Winners
<1>4. IsFiniteSet(Winners(F))
  BY <1>2, <1>3, FS_Subset
<1>5. PICK W : W = Winners(F)
  OBVIOUS
<1>6. ToSet(kept) = W /\ \A i, j \in DOMAIN kept : i < j => Before(kept[i], kept[j])
  <2>1. W \in SUBSET Candidates /\ IsFiniteSet(W) /\ \A c, d \in W : c.index = d.index => c = d
    BY <1>2, <1>3, <1>4, <1>5
  <2>2. kept = ByIndex(W)
    BY <1>1, <1>5
  <2> QED
    BY <2>1, <2>2, ByIndexSorts
<1>7. ASSUME NEW c \in F
      PROVE  c \in W <=> \A d \in F \ {c} : d.name = c.name => Beats(c, d)
  <2>1. IsFiniteSet(Of(c)) /\ \A d \in Of(c) : d.depth \in Int /\ d.tagged \in BOOLEAN
    BY <1>2, FS_Subset DEF Candidates
  <2>2. winnerFor(Of(c)) = {e \in Of(c) : \A d \in Of(c) \ {e} : Beats(e, d)}
    <3> HIDE DEF Of
    <3> QED
      BY <2>1, WinnerIsTheRule
  <2>3. c \in W <=> c \in winnerFor(Of(c))
    BY <1>5 DEF Winners
  <2> QED
    BY <2>2, <2>3
<1> QED
  BY <1>1, <1>3, <1>5, <1>6, <1>7 DEF F

\* For any struct types and any declarations of them, diamonds and cycles included:
\* every column the documented rule promotes is returned, although the walk skips a
\* type it has met, and no two columns have one name.
THEOREM PromotedKept == Spec => []NothingLost
<1>1. RInv => NothingLost
  <2> SUFFICES ASSUME RInv, phase = "returned"
               PROVE  /\ Promoted(env) \subseteq ToSet(kept)
                      /\ \A c, d \in ToSet(kept) : c.name = d.name => c = d
    BY DEF NothingLost
  <2> DEFINE F == ToSet(found)
             All == AllCandidates(env)
  <2>1. /\ ToSet(kept) = {c \in F : \A d \in F \ {c} : d.name = c.name => Beats(c, d)}
        /\ All \subseteq Candidates /\ F \subseteq All
        /\ \A c \in All : \E d \in F : d.name = c.name /\ d.tagged = c.tagged /\ d.depth <= c.depth
    BY KeptFacts, EndedFacts
  <2>2. \A c \in All : c.depth \in Int /\ c.tagged \in BOOLEAN
    BY <2>1 DEF Candidates
  <2>3. Promoted(env) = {c \in All : \A d \in All \ {c} : d.name = c.name => Beats(c, d)}
    BY DEF Promoted
  <2> HIDE DEF F, All
  <2>4. ASSUME NEW c \in Promoted(env) PROVE c \in ToSet(kept)
    <3>1. c \in All /\ \A d \in All \ {c} : d.name = c.name => Beats(c, d)
      BY <2>3, <2>4
    <3>2. PICK d \in F : d.name = c.name /\ d.tagged = c.tagged /\ d.depth <= c.depth
      BY <2>1, <3>1
    <3>3. ~Beats(c, d)
      BY <2>1, <2>2, <3>1, <3>2 DEF Beats
    <3>4. c \in F
      BY <2>1, <3>1, <3>2, <3>3
    <3> QED
      BY <2>1, <3>1, <3>4
  <2>5. ASSUME NEW c \in ToSet(kept), NEW d \in ToSet(kept), c.name = d.name, c # d PROVE FALSE
    <3>1. Beats(c, d) /\ Beats(d, c) /\ c \in All /\ d \in All
      BY <2>1, <2>5
    <3> QED
      BY <2>2, <3>1 DEF Beats
  <2> QED
    BY <2>4, <2>5
<1> QED
  BY <1>1, RInvHolds, PTL

\* For any struct types and any declarations of them in which no struct is embedded
\* twice at the depth it is first reached at: the columns are the ones the documented
\* rule promotes and no others.
THEOREM RuleFollowed == Spec => []FollowsTheRule
<1>1. RInv /\ NothingLost => FollowsTheRule
  <2> SUFFICES ASSUME RInv, NothingLost, phase = "returned", DiamondFree(env)
               PROVE  ToSet(kept) = Promoted(env)
    BY DEF FollowsTheRule
  <2> DEFINE F == ToSet(found)
             All == AllCandidates(env)
  <2>1. /\ ToSet(kept) = {c \in F : \A d \in F \ {c} : d.name = c.name => Beats(c, d)}
        /\ All \subseteq Candidates /\ F \subseteq All
        /\ \A c \in All : \E d \in F : d.name = c.name /\ (d = c \/ d.depth < c.depth)
    BY KeptFacts, EndedFacts
  <2>2. \A c \in All : c.depth \in Int
    BY <2>1 DEF Candidates
  <2>3. Promoted(env) = {c \in All : \A d \in All \ {c} : d.name = c.name => Beats(c, d)}
    BY DEF Promoted
  <2> HIDE DEF F, All
  <2>4. ASSUME NEW c \in ToSet(kept), NEW d \in All \ {c}, d.name = c.name PROVE Beats(c, d)
    <3>1. PICK e \in F : e.name = d.name /\ (e = d \/ e.depth < d.depth)
      BY <2>1
    <3>2. e = c \/ Beats(c, e)
      BY <2>1, <2>4, <3>1
    <3> QED
      BY <2>1, <2>2, <3>1, <3>2 DEF Beats
  <2>5. ToSet(kept) \subseteq Promoted(env)
    BY <2>1, <2>3, <2>4
  <2> QED
    BY <2>5 DEF NothingLost
<1> QED
  BY <1>1, RInvHolds, PromotedKept, PTL

\* With diamonds too: the columns collectFields returns beyond those the rule promotes
\* are ones the rule has in a tie, never ones it hides behind a shallower or a tagged
\* field.
THEOREM OnlyTiesLeftStanding == Spec => []NoneHidden
<1>1. RInv => NoneHidden
  <2> SUFFICES ASSUME RInv, phase = "returned",
                      NEW c \in ToSet(kept), NEW d \in AllCandidates(env), d.name = c.name, Beats(d, c)
               PROVE  FALSE
    BY DEF NoneHidden
  <2>1. /\ c \in ToSet(found) /\ \A e \in ToSet(found) \ {c} : e.name = c.name => Beats(c, e)
        /\ c \in Candidates /\ d \in Candidates /\ ToSet(found) \subseteq Candidates
    BY KeptFacts, EndedFacts
  <2>2. PICK e \in ToSet(found) : e.name = d.name /\ e.tagged = d.tagged /\ e.depth <= d.depth
    BY KeptFacts, EndedFacts
  <2>3. /\ c.depth \in Int /\ d.depth \in Int /\ e.depth \in Int
        /\ c.tagged \in BOOLEAN /\ d.tagged \in BOOLEAN /\ e.tagged \in BOOLEAN
    BY <2>1, <2>2 DEF Candidates
  <2>4. e # c
    BY <2>2, <2>3 DEF Beats
  <2>5. Beats(c, e)
    BY <2>1, <2>2, <2>4
  <2> QED
    BY <2>2, <2>3, <2>5 DEF Beats
<1> QED
  BY <1>1, RInvHolds, PTL
=============================================================================
