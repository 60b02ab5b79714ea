----------------------------- MODULE MCMigration -----------------------------
(***************************************************************************)
(* Small instances of Migration: replicas are model values, schemas have   *)
(* the columns a, b and x in the modes and types the diff tells apart.     *)
(***************************************************************************)
EXTENDS Migration, TLC

CONSTANTS s1, s2, s3

Column(type, required) ==
    [type |-> type, repeated |-> FALSE, required |-> required, nested |-> <<>>]
Record(nested) ==
    [type |-> RecordFieldType, repeated |-> FALSE, required |-> FALSE, nested |-> nested]
Int == Column("INTEGER", FALSE)
IntRequired == Column("INTEGER", TRUE)

A == [a |-> Int]
ARequired == [a |-> IntRequired]
AB == [a |-> Int, b |-> Int]
ABRequired == [a |-> Int, b |-> IntRequired]
AString == [a |-> Column("STRING", FALSE)]
ARepeated == [a |-> [Int EXCEPT !.repeated = TRUE]]
ARecord == [a |-> Record(A)]
ARecord2 == [a |-> Record(AB)]
AX == [a |-> Int, x |-> Int]
ARequiredX == [a |-> IntRequired, x |-> Int]
BX == [b |-> Int, x |-> Int]

None == [kind |-> "MigrationNone", CreateIfMissing |-> FALSE]
Append == [kind |-> "AppendNewColumns", CreateIfMissing |-> TRUE]
AppendOnly == [kind |-> "AppendNewColumns", CreateIfMissing |-> FALSE]
Sync(ignore) == [kind |-> "SyncAllColumns", IgnoreColumns |-> ignore, CreateIfMissing |-> TRUE]

TwoReplicas == {s1, s2}
ThreeReplicas == {s1, s2, s3}

AllDeclarations == {A, ARequired, AB, ABRequired, ARecord}
AllStrategies == {None, AppendOnly, Append, Sync({}), Sync({"x"})}
AllTables == {Missing} \cup
    {Existing(s) : s \in {A, ARequired, AString, ARepeated, ARecord, ARecord2, AX, ARequiredX, BX}}

FleetDeclarations == {A, AB}
FleetStrategies == {Append}
FleetTables == {Missing, Existing(ARequiredX)}

SyncDeclarations == {A}
SyncStrategies == {Sync({})}
SyncTables == {Existing(AX)}

ReplicaSymmetry == Permutations(Replicas)
=============================================================================
