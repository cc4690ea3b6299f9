------------------------------- MODULE MCScan -------------------------------
(***************************************************************************)
(* The models of what goes in and out of one dataset without a cluster,    *)
(* for TLC: which version a scan of _scan.py reads, which rows of it and   *)
(* which columns, and the write of sink_lance.  They share no variable: an *)
(* initial state picks the one that is under way, and the others rest.     *)
(***************************************************************************)
EXTENDS LanceScan, ShardedScan, ScanColumns, LanceSink

CONSTANTS a, b, index, distance, rowid   \* columns

\* The dataset stores a column that has the name of one Lance adds in some scans.
StoredColumns == <<a, b, index>>
GeneratedColumns == <<distance, rowid>>
VirtualColumns == {index, distance, rowid}

VARIABLE part   \* what is under way

\* At rest, each is in one of its initial states.
RowsRest ==
  /\ query = Query(<<None, NotLowered>>, FALSE, None, None, None, FALSE)
  /\ plan = Idle /\ pos = 0 /\ first = TRUE /\ remaining = None
  /\ emitted = <<>> /\ status = "new" /\ faults = 0
ColumnsRest ==
  /\ request = [generated |-> {}, projection |-> None, roots |-> None]
  /\ asked = None /\ frame = <<>> /\ step = "new"
ShardsRest == ShardsInit /\ history[1].fragments = <<>>
SinkRests ==
  /\ mode = [c \in Calls |-> "append"]
  /\ on = [c \in Calls |-> FALSE] /\ lazy = on /\ kwargs = on
  /\ versions = <<>> /\ phase = [c \in Calls |-> "new"]
  /\ runs = [c \in Calls |-> 0] /\ read = runs /\ dataset = runs
  /\ summary = [c \in Calls |-> None]

OneInit ==
  /\ part \in {"rows", "columns", "versions", "sink"}
  /\ IF part = "rows" THEN Init ELSE RowsRest
  /\ IF part = "columns" THEN ColumnsInit ELSE ColumnsRest
  /\ IF part = "versions" THEN ShardsInit ELSE ShardsRest
  /\ IF part = "sink" THEN SinkInit ELSE SinkRests

OneNext ==
  /\ UNCHANGED part
  /\ \/ part = "rows" /\ Next /\ UNCHANGED <<columnsVars, shardsVars, sinkVars>>
     \/ part = "columns" /\ ColumnsNext /\ UNCHANGED <<vars, shardsVars, sinkVars>>
     \/ part = "versions" /\ ShardsNext /\ UNCHANGED <<vars, columnsVars, sinkVars>>
     \/ part = "sink" /\ SinkNext /\ UNCHANGED <<vars, columnsVars, shardsVars>>

OneSpec == OneInit /\ [][OneNext]_<<part, vars, columnsVars, shardsVars, sinkVars>>
=============================================================================
