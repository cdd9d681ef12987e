----------------------------- MODULE MCGateway -----------------------------
(***************************************************************************)
(* Instances of Gateway for TLC.  The lengths are scaled down: a buffer of *)
(* eight takes the header and two short rows, or one long row, as the 4096 *)
(* bytes of batch_buffer take 63 bytes of header and 20 rows of 201 bytes, *)
(* but only some of the rows whose numbers print with 300 digits.          *)
(***************************************************************************)
EXTENDS Gateway, TLC

CONSTANTS Short, Long   \* a reading with a short line, and one with a long one

MCReadings == {Short, Long}
MCRowLen   == [r \in MCReadings |-> IF r = Short THEN 2 ELSE 4]

Sensor(r)       == [NoCommand EXCEPT !.type = "SENSOR", !.reading = r]
Query(from, to) == [NoCommand EXCEPT !.type = "QUERY",
                                     !.start_id = from, !.end_id = to]
Help            == [NoCommand EXCEPT !.type = "HELP"]

\* Every command type: both readings, all rows, a reversed range.
AllRequests ==
  {Sensor(Short), Sensor(Long), Query(0, IntMax), Query(2, 1), Help, NoCommand}

\* One command of each kind that reads or writes the table.
FaultRequests == {Sensor(Short), Query(1, IntMax), Help}

\* An insert and the range query that the inserts of another client prolong.
FairRequests == {Sensor(Short), Query(1, IntMax)}

ClientSymmetry == Permutations(Clients)
=============================================================================
