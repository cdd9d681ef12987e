--------------------------- MODULE GatewayProofs ---------------------------
(***************************************************************************)
(* Theorems about Gateway, for every set of clients, every command, every  *)
(* table size, buffer size and batch size, and every combination of        *)
(* faults.  IInv is the inductive invariant; the safety properties the     *)
(* runs check on small instances follow from it.                           *)
(***************************************************************************)
EXTENDS Gateway, TLAPS

-----------------------------------------------------------------------------
(* Sequences of identifiers.                                                *)

\* What a row appended to a batch adds.
LEMMA ElementsAppend ==
  ASSUME NEW S, NEW s \in Seq(S), NEW x \in S
  PROVE  Elements(Append(s, x)) = Elements(s) \cup {x}
<1>1. /\ Len(Append(s, x)) = Len(s) + 1
      /\ \A i \in 1 .. Len(s) : Append(s, x)[i] = s[i]
      /\ Append(s, x)[Len(s) + 1] = x
      /\ Len(s) \in Nat
  OBVIOUS
<1>2. 1 .. Len(s) + 1 = (1 .. Len(s)) \cup {Len(s) + 1}
  BY <1>1
<1> QED
  BY <1>1, <1>2 DEF Elements

\* The batches of a query, one after the other.
LEMMA ElementsConcat ==
  ASSUME NEW S, NEW s \in Seq(S), NEW t \in Seq(S)
  PROVE  Elements(s \o t) = Elements(s) \cup Elements(t)
<1>1. /\ Len(s) \in Nat /\ Len(t) \in Nat
      /\ Len(s \o t) = Len(s) + Len(t)
      /\ \A i \in 1 .. Len(s) : (s \o t)[i] = s[i]
      /\ \A i \in 1 .. Len(t) : (s \o t)[Len(s) + i] = t[i]
  OBVIOUS
<1>2. ASSUME NEW i \in 1 .. Len(s \o t)
      PROVE  (s \o t)[i] \in Elements(s) \cup Elements(t)
  <2>1. CASE i <= Len(s)
    BY <1>1, <2>1 DEF Elements
  <2>2. CASE i > Len(s)
    <3>1. i - Len(s) \in 1 .. Len(t) /\ i = Len(s) + (i - Len(s))
      BY <1>1, <2>2
    <3>2. (s \o t)[i] = t[i - Len(s)]
      BY <1>1, <3>1
    <3> QED
      BY <3>1, <3>2 DEF Elements
  <2> QED
    BY <1>1, <2>1, <2>2
<1>3. ASSUME NEW i \in 1 .. Len(s)
      PROVE  s[i] \in Elements(s \o t)
  <2>1. i \in 1 .. Len(s \o t) /\ (s \o t)[i] = s[i]
    BY <1>1
  <2> QED
    BY <2>1 DEF Elements
<1>4. ASSUME NEW i \in 1 .. Len(t)
      PROVE  t[i] \in Elements(s \o t)
  <2>1. Len(s) + i \in 1 .. Len(s \o t) /\ (s \o t)[Len(s) + i] = t[i]
    BY <1>1
  <2> QED
    BY <2>1 DEF Elements
<1> QED
  BY <1>2, <1>3, <1>4 DEF Elements

LEMMA AscendingAppend ==
  ASSUME NEW s \in Seq(RowIds), NEW x \in RowIds, Ascending(s),
         \A e \in Elements(s) : e < x
  PROVE  Ascending(Append(s, x))
<1>1. /\ Len(Append(s, x)) = Len(s) + 1
      /\ \A i \in 1 .. Len(s) : Append(s, x)[i] = s[i]
      /\ Append(s, x)[Len(s) + 1] = x
      /\ Len(s) \in Nat
  OBVIOUS
<1>2. \A i \in 1 .. Len(s) : s[i] < x
  BY DEF Elements
<1>3. ASSUME NEW i \in 1 .. Len(s) + 1, NEW j \in 1 .. Len(s) + 1, i < j
      PROVE  Append(s, x)[i] < Append(s, x)[j]
  <2>1. i \in 1 .. Len(s) /\ (j \in 1 .. Len(s) \/ j = Len(s) + 1)
    BY <1>1, <1>3
  <2> QED
    BY <1>1, <1>2, <1>3, <2>1 DEF Ascending
<1> QED
  BY <1>1, <1>3 DEF Ascending

LEMMA AscendingConcat ==
  ASSUME NEW s \in Seq(RowIds), NEW t \in Seq(RowIds), Ascending(s), Ascending(t),
         \A d \in Elements(s), e \in Elements(t) : d < e
  PROVE  Ascending(s \o t)
<1>1. /\ Len(s) \in Nat /\ Len(t) \in Nat
      /\ Len(s \o t) = Len(s) + Len(t)
      /\ \A i \in 1 .. Len(s) : (s \o t)[i] = s[i]
      /\ \A i \in 1 .. Len(t) : (s \o t)[Len(s) + i] = t[i]
  OBVIOUS
<1>2. \A i \in 1 .. Len(s), j \in 1 .. Len(t) : s[i] < t[j]
  BY DEF Elements
<1>3. ASSUME NEW i \in 1 .. Len(s \o t), NEW j \in 1 .. Len(s \o t), i < j
      PROVE  (s \o t)[i] < (s \o t)[j]
  <2>1. CASE j <= Len(s)
    <3>1. i \in 1 .. Len(s) /\ j \in 1 .. Len(s)
      BY <1>1, <1>3, <2>1
    <3> QED
      BY <1>1, <1>3, <3>1 DEF Ascending
  <2>2. CASE j > Len(s)
    <3>1. j - Len(s) \in 1 .. Len(t) /\ (s \o t)[j] = t[j - Len(s)]
      <4>1. j - Len(s) \in 1 .. Len(t) /\ Len(s) + (j - Len(s)) = j
        BY <1>1, <2>2
      <4> QED
        BY <1>1, <4>1
    <3>2. CASE i <= Len(s)
      <4>1. i \in 1 .. Len(s) /\ (s \o t)[i] = s[i]
        BY <1>1, <3>2
      <4> QED
        BY <1>2, <3>1, <4>1
    <3>3. CASE i > Len(s)
      <4>1. i - Len(s) \in 1 .. Len(t) /\ Len(s) + (i - Len(s)) = i
        BY <1>1, <3>3
      <4>2. (s \o t)[i] = t[i - Len(s)]
        BY <1>1, <4>1
      <4>3. i - Len(s) < j - Len(s)
        BY <1>1, <1>3
      <4> QED
        BY <3>1, <4>1, <4>2, <4>3 DEF Ascending
    <3> QED
      BY <1>1, <3>2, <3>3
  <2> QED
    BY <1>1, <2>1, <2>2
<1> QED
  BY <1>3 DEF Ascending

\* A thread that has nothing in hand.
LEMMA EmptySequence ==
  Elements(<<>>) = {} /\ Ascending(<<>>)
BY DEF Elements, Ascending

-----------------------------------------------------------------------------
(* Values and types.                                                        *)

LEMMA ToIntType ==
  ASSUME NEW id \in RowIds
  PROVE  /\ ToInt(id) \in Int
         /\ id <= IntMax => ToInt(id) = id
<1>1. id \in Nat /\ IntMax \in Nat
  BY GatewayAssumption DEF RowIds
<1>2. 2 * (IntMax + 1) \in Nat \ {0} /\ id + IntMax + 1 \in Nat
  BY <1>1
<1>3. (id + IntMax + 1) % (2 * (IntMax + 1)) \in Int
  BY <1>2
<1> QED
  BY <1>1, <1>3 DEF ToInt

\* Normalisation yields a command whose bounds are in order.
LEMMA ParseType ==
  ASSUME NEW r \in Requests
  PROVE  /\ Parse(r) \in Command
         /\ Parse(r).start_id \in IdArgs /\ Parse(r).end_id \in IdArgs
         /\ Parse(r).start_id <= Parse(r).end_id
         /\ Parse(r).type = "SENSOR" => Parse(r).reading \in Readings
<1>1. r \in Command /\ (r.type = "SENSOR" => r.reading # NoRow)
  BY GatewayAssumption
<1>2. IntMax \in Nat
  BY GatewayAssumption
<1>3. r.start_id \in 0 .. IntMax /\ r.end_id \in 0 .. IntMax
  BY <1>1 DEF Command, IdArgs
<1>4. r.type = "SENSOR" => r.reading \in Readings
  BY <1>1 DEF Command
<1>5. CASE r.start_id <= r.end_id
  BY <1>1, <1>3, <1>4, <1>5 DEF Parse, IdArgs
<1>6. CASE ~(r.start_id <= r.end_id)
  <2>1. Parse(r) = [r EXCEPT !.start_id = r.end_id, !.end_id = r.start_id]
    BY <1>6 DEF Parse
  <2>2. /\ Parse(r) \in Command
        /\ Parse(r).type = r.type /\ Parse(r).reading = r.reading
        /\ Parse(r).start_id = r.end_id /\ Parse(r).end_id = r.start_id
    BY <1>1, <1>3, <2>1 DEF Command, IdArgs
  <2> QED
    BY <1>2, <1>3, <1>4, <1>6, <2>2 DEF IdArgs
<1> QED
  BY <1>5, <1>6

\* What a thread starts with has its type.
LEMMA NothingType ==
  /\ NoCommand \in Command
  /\ NoQuery \in [last : -1 .. IntMax, first : BOOLEAN, out : Seq(RowIds)]
  /\ NoBatch \in [snap : 0 .. MaxRowId, cur : -1 .. IntMax,
                  used : 0 .. BufferSize - 1, rows : Seq(RowIds)]
  /\ Len(NoBatch.rows) = 0 /\ Elements(NoBatch.rows) = {}
  /\ <<0, 0>> \in Int \X Int
<1>1. /\ IntMax \in Nat /\ MaxRowId \in Nat /\ BufferSize \in Nat \ {0}
  BY GatewayAssumption
<1> QED
  BY <1>1, EmptySequence DEF NoCommand, Command, NoQuery, NoBatch, IdArgs

\* The frames of departed threads have their type.
LEMMA ForgetType ==
  ASSUME TypeOK, NEW S, Forget(S)
  PROVE  /\ cmd' \in [Clients -> Command]
         /\ query' \in [Clients -> [last : -1 .. IntMax, first : BOOLEAN, out : Seq(RowIds)]]
         /\ batch' \in [Clients -> [snap : 0 .. MaxRowId, cur : -1 .. IntMax,
                                    used : 0 .. BufferSize - 1, rows : Seq(RowIds)]]
         /\ \A c \in Clients : Len(batch'[c].rows) <= BatchSize
         /\ range' \in [Clients -> Int \X Int]
         /\ floor' \in [Clients -> 0 .. MaxRowId]
         /\ mine' \in [Clients -> 0 .. MaxRowId]
<1>1. MaxRowId \in Nat /\ BatchSize \in Nat
  BY GatewayAssumption
<1>2. cmd' \in [Clients -> Command]
  BY NothingType DEF TypeOK, Forget
<1>3. query' \in [Clients -> [last : -1 .. IntMax, first : BOOLEAN, out : Seq(RowIds)]]
  BY NothingType DEF TypeOK, Forget
<1>4. batch' \in [Clients -> [snap : 0 .. MaxRowId, cur : -1 .. IntMax,
                              used : 0 .. BufferSize - 1, rows : Seq(RowIds)]]
  BY NothingType DEF TypeOK, Forget
<1>5. \A c \in Clients : Len(batch'[c].rows) <= BatchSize
  BY <1>1, NothingType DEF TypeOK, Forget
<1>6. range' \in [Clients -> Int \X Int]
  BY NothingType DEF TypeOK, Forget
<1>7. /\ floor' \in [Clients -> 0 .. MaxRowId]
      /\ mine' \in [Clients -> 0 .. MaxRowId]
  BY <1>1 DEF TypeOK, Forget
<1> QED
  BY <1>2, <1>3, <1>4, <1>5, <1>6, <1>7

-----------------------------------------------------------------------------
(* Type correctness.                                                        *)

LEMMA PointsUsed ==
  ASSUME NEW r \in Requests
  PROVE  Dispatch(Parse(r).type) \in Points
<1>1. Parse(r).type \in {"SENSOR", "QUERY", "HELP", "INVALID"}
  BY ParseType DEF Command
<1> QED
  BY <1>1 DEF Dispatch, Points, Sending, Working

\* Every step keeps every variable in its type.
LEMMA TypeStep ==
  ASSUME IInv, Next
  PROVE  TypeOK'
<1> USE DEF db, locals
<1>0. /\ TypeOK
      /\ \A c \in Clients : pc[c] = "ok" => mine[c] \in Stored /\ cmd[c].reading = table[mine[c]]
      /\ MaxRowId \in Nat /\ IntMax \in Nat /\ BatchSize \in Nat \ {0}
      /\ BufferSize \in Nat /\ HeaderLen \in Nat /\ HeaderLen < BufferSize
      /\ RowLen \in [Readings -> Nat] /\ NoRow \notin Readings
  BY GatewayAssumption DEF IInv, ThreadInv
<1>1. ASSUME NEW c \in Clients, Connect(c) PROVE TypeOK'
  BY <1>0, <1>1 DEF TypeOK, Connect, Goto, Links, Points, Sending
<1>2. ASSUME NEW c \in Clients, PeerCloses(c) PROVE TypeOK'
  BY <1>0, <1>2 DEF TypeOK, PeerCloses, Links
<1>3. ASSUME NEW c \in Clients, PeerResets(c) PROVE TypeOK'
  BY <1>0, <1>3 DEF TypeOK, PeerResets, Links
<1>4. ASSUME NEW c \in Clients, Receive(c) PROVE TypeOK'
  <2>1. PICK r \in Requests :
          /\ cmd' = [cmd EXCEPT ![c] = Parse(r)]
          /\ query' = [query EXCEPT ![c] = [last |-> Parse(r).start_id - 1, first |-> TRUE, out |-> <<>>]]
          /\ pc' = [pc EXCEPT ![c] = Dispatch(Parse(r).type)]
    BY <1>4 DEF Receive, Goto
  <2>2. [last |-> Parse(r).start_id - 1, first |-> TRUE, out |-> <<>>]
          \in [last : -1 .. IntMax, first : BOOLEAN, out : Seq(RowIds)]
    <3>1. Parse(r).start_id - 1 \in -1 .. IntMax
      BY <1>0, ParseType DEF IdArgs
    <3> QED
      BY <3>1
  <2>3. /\ cmd' \in [Clients -> Command]
        /\ query' \in [Clients -> [last : -1 .. IntMax, first : BOOLEAN, out : Seq(RowIds)]]
        /\ pc' \in [Clients -> Points]
    BY <1>0, <2>1, <2>2, ParseType, PointsUsed DEF TypeOK
  <2> QED
    BY <1>0, <1>4, <2>3 DEF TypeOK, Receive
<1>5. ASSUME NEW c \in Clients, HangUp(c) PROVE TypeOK'
  BY <1>0, <1>5 DEF TypeOK, HangUp, Goto, Links, Points
<1>6. ASSUME NEW c \in Clients, SendWelcome(c) PROVE TypeOK'
  BY <1>0, <1>6 DEF TypeOK, SendWelcome, Accepted, Refused, Goto, Links, Points
<1>7. ASSUME NEW c \in Clients, SendOk(c) PROVE TypeOK'
  <2>1. acked' \subseteq RowIds \X Readings
    <3>1. mine[c] \in RowIds /\ cmd[c].reading \in Readings
      BY <1>0, <1>7 DEF TypeOK, SendOk, Stored
    <3>2. acked' \subseteq acked \cup {<<mine[c], cmd[c].reading>>}
      BY <1>7 DEF SendOk
    <3> QED
      BY <1>0, <3>1, <3>2 DEF TypeOK
  <2>2. link' \in [Clients -> Links] /\ pc' \in [Clients -> Points]
    BY <1>0, <1>7 DEF TypeOK, SendOk, Accepted, Refused, Goto, Links, Points
  <2> QED
    BY <1>0, <1>7, <2>1, <2>2, ForgetType DEF TypeOK, SendOk
<1>8. ASSUME NEW c \in Clients, SendHelp(c) PROVE TypeOK'
  <2>1. link' \in [Clients -> Links] /\ pc' \in [Clients -> Points]
    BY <1>0, <1>8 DEF TypeOK, SendHelp, Accepted, Refused, Goto, Links, Points
  <2> QED
    BY <1>0, <1>8, <2>1, ForgetType DEF TypeOK, SendHelp
<1>9. ASSUME NEW c \in Clients, SendError(c) PROVE TypeOK'
  <2>1. link' \in [Clients -> Links] /\ pc' \in [Clients -> Points]
    BY <1>0, <1>9 DEF TypeOK, SendError, Accepted, Refused, Goto, Links, Points
  <2> QED
    BY <1>0, <1>9, <2>1, ForgetType DEF TypeOK, SendError
<1>10. ASSUME NEW c \in Clients, SendBatch(c) PROVE TypeOK'
  <2>1. link' \in [Clients -> Links] /\ pc' \in [Clients -> Points]
    <3>1. CASE Accepted(c) /\ Goto(c, "batch")
      BY <1>0, <3>1 DEF TypeOK, Accepted, Goto, Points, Working
    <3>2. CASE Refused(c) /\ Goto(c, "error")
      BY <1>0, <3>2 DEF TypeOK, Refused, Goto, Points, Sending, Links
    <3> QED
      BY <1>10, <3>1, <3>2 DEF SendBatch
  <2>2. [last |-> batch[c].cur, first |-> FALSE, out |-> query[c].out \o batch[c].rows]
          \in [last : -1 .. IntMax, first : BOOLEAN, out : Seq(RowIds)]
    <3>1. batch[c].cur \in -1 .. IntMax /\ batch[c].rows \in Seq(RowIds)
      BY <1>0 DEF TypeOK
    <3>2. query[c].out \in Seq(RowIds)
      BY <1>0 DEF TypeOK
    <3>3. query[c].out \o batch[c].rows \in Seq(RowIds)
      BY <3>1, <3>2
    <3> QED
      BY <3>1, <3>3
  <2>3. query' \in [Clients -> [last : -1 .. IntMax, first : BOOLEAN, out : Seq(RowIds)]]
    <3>1. \/ query' = query
          \/ query' = [query EXCEPT ![c] = [last |-> batch[c].cur, first |-> FALSE,
                                            out |-> query[c].out \o batch[c].rows]]
      BY <1>10 DEF SendBatch
    <3> QED
      BY <1>0, <2>2, <3>1 DEF TypeOK
  <2>4. /\ batch' \in [Clients -> [snap : 0 .. MaxRowId, cur : -1 .. IntMax,
                                   used : 0 .. BufferSize - 1, rows : Seq(RowIds)]]
        /\ \A d \in Clients : Len(batch'[d].rows) <= BatchSize
    <3>1. batch' = batch \/ batch' = [batch EXCEPT ![c] = NoBatch]
      BY <1>10 DEF SendBatch
    <3>2. CASE batch' = batch
      BY <1>0, <3>2 DEF TypeOK
    <3>3. CASE batch' = [batch EXCEPT ![c] = NoBatch]
      <4>1. batch' \in [Clients -> [snap : 0 .. MaxRowId, cur : -1 .. IntMax,
                                     used : 0 .. BufferSize - 1, rows : Seq(RowIds)]]
        BY <1>0, <3>3, NothingType DEF TypeOK
      <4>2. ASSUME NEW d \in Clients PROVE Len(batch'[d].rows) <= BatchSize
        <5>1. batch'[d] = IF d = c THEN NoBatch ELSE batch[d]
          BY <1>0, <3>3 DEF TypeOK
        <5> QED
          BY <1>0, <5>1, NothingType DEF TypeOK
      <4> QED
        BY <4>1, <4>2
    <3> QED
      BY <3>1, <3>2, <3>3
  <2> QED
    BY <1>0, <1>10, <2>1, <2>3, <2>4 DEF TypeOK, SendBatch
<1>11. ASSUME Die PROVE TypeOK'
  <2>1. link' \in [Clients -> Links] /\ pc' \in [Clients -> Points]
    BY <1>11 DEF Die, Links, Points
  <2> QED
    BY <1>0, <1>11, <2>1, ForgetType DEF TypeOK, Die
<1>12. ASSUME NEW c \in Clients, InsertRow(c) PROVE TypeOK'
  <2>1. seq + 1 \in 1 .. MaxRowId
    BY <1>0, <1>12 DEF TypeOK, InsertRow
  <2>2. cmd[c].reading \in Readings \cup {NoRow}
    BY <1>0 DEF TypeOK, Command
  <2> QED
    <3>1. table' \in [RowIds -> Readings \cup {NoRow}]
      BY <1>0, <1>12, <2>2 DEF TypeOK, InsertRow
    <3>2. /\ seq' \in 0 .. MaxRowId
          /\ mine' \in [Clients -> 0 .. MaxRowId]
      BY <1>0, <1>12, <2>1 DEF TypeOK, InsertRow
    <3>3. pc' \in [Clients -> Points]
      BY <1>0, <1>12 DEF TypeOK, InsertRow, Goto, Points, Sending
    <3> QED
      BY <1>0, <1>12, <3>1, <3>2, <3>3 DEF TypeOK, InsertRow
<1>13. ASSUME NEW c \in Clients, InsertFails(c) PROVE TypeOK'
  <2>1. seq' \in 0 .. MaxRowId
    BY <1>0, <1>13 DEF TypeOK, InsertFails
  <2>2. pc' \in [Clients -> Points]
    BY <1>0, <1>13 DEF TypeOK, InsertFails, Fail, Goto, Points, Sending
  <2> QED
    BY <1>0, <1>13, <2>1, <2>2 DEF TypeOK, InsertFails, Fail
<1>14. ASSUME NEW c \in Clients, GetIdRange(c) PROVE TypeOK'
  <2>1. range' \in [Clients -> Int \X Int]
    <3>1. \E r \in Int \X Int : range' = [range EXCEPT ![c] = r]
      <4>1. CASE range' = [range EXCEPT ![c] = <<0, 0>>]
        BY <4>1, NothingType
      <4>2. ASSUME NEW lo \in Stored, NEW hi \in Stored,
                   range' = [range EXCEPT ![c] = <<ToInt(lo), ToInt(hi)>>]
            PROVE  \E r \in Int \X Int : range' = [range EXCEPT ![c] = r]
        <5>1. <<ToInt(lo), ToInt(hi)>> \in Int \X Int
          BY ToIntType DEF Stored
        <5> QED
          BY <4>2, <5>1
      <4> QED
        BY <1>14, <4>1, <4>2 DEF GetIdRange
    <3> QED
      BY <1>0, <3>1 DEF TypeOK
  <2> QED
    BY <1>0, <1>14, <2>1 DEF TypeOK, GetIdRange, Goto, Points, Sending
<1>15. ASSUME NEW c \in Clients, ReadFails(c) \/ RowTooLong(c) PROVE TypeOK'
  BY <1>0, <1>15 DEF TypeOK, ReadFails, RowTooLong, Fail, Goto, Points, Sending
<1>16. ASSUME NEW c \in Clients, OpenBatch(c) PROVE TypeOK'
  <2>1. [snap |-> seq, cur |-> query[c].last, rows |-> <<>>,
         used |-> IF query[c].first THEN HeaderLen ELSE 0]
          \in [snap : 0 .. MaxRowId, cur : -1 .. IntMax,
               used : 0 .. BufferSize - 1, rows : Seq(RowIds)]
    BY <1>0 DEF TypeOK
  <2>2. batch' \in [Clients -> [snap : 0 .. MaxRowId, cur : -1 .. IntMax,
                                used : 0 .. BufferSize - 1, rows : Seq(RowIds)]]
    BY <1>0, <1>16, <2>1 DEF TypeOK, OpenBatch
  <2>3. \A d \in Clients : Len(batch'[d].rows) <= BatchSize
    BY <1>0, <1>16 DEF TypeOK, OpenBatch
  <2> QED
    BY <1>0, <1>16, <2>2, <2>3 DEF TypeOK, OpenBatch, Goto, Points, Working, Holding
<1>17. ASSUME NEW c \in Clients, FetchRow(c) PROVE TypeOK'
  <2>1. PICK id \in RowIds :
          /\ IsNextRow(c, id)
          /\ Fits(c, id)
          /\ batch' = [batch EXCEPT ![c] =
               [snap |-> batch[c].snap, cur |-> ToInt(id), used |-> LenWith(c, id),
                rows |-> Append(batch[c].rows, ToInt(id))]]
    BY <1>17 DEF FetchRow
  <2>2. ToInt(id) = id /\ id \in 0 .. IntMax
    <3>1. id \in Nat /\ id <= cmd[c].end_id /\ cmd[c].end_id \in 0 .. IntMax
      <4>1. id \in Nat
        BY <1>0 DEF RowIds
      <4>2. id <= cmd[c].end_id
        BY <2>1 DEF IsNextRow, Selected
      <4>3. cmd[c].end_id \in 0 .. IntMax
        BY <1>0 DEF TypeOK, Command, IdArgs
      <4> QED
        BY <4>1, <4>2, <4>3
    <3>2. id <= IntMax
      BY <1>0, <3>1
    <3> QED
      BY <3>1, <3>2, <1>0, ToIntType
  <2>3. LenWith(c, id) \in 0 .. BufferSize - 1
    <3>1. table[id] \in Readings
      BY <1>0, <2>1 DEF IsNextRow, Selected, Stored, TypeOK
    <3>2. RowLen[table[id]] \in Nat /\ batch[c].used \in Nat
      BY <1>0, <3>1 DEF TypeOK
    <3> QED
      BY <1>0, <2>1, <3>2 DEF Fits, LenWith
  <2>4. Append(batch[c].rows, id) \in Seq(RowIds)
        /\ Len(Append(batch[c].rows, id)) <= BatchSize
    <3>1. batch[c].rows \in Seq(RowIds) /\ Len(batch[c].rows) < BatchSize
      BY <1>0, <2>1 DEF TypeOK, IsNextRow
    <3> QED
      BY <1>0, <3>1
  <2>5. batch' = [batch EXCEPT ![c] = [snap |-> batch[c].snap, cur |-> id,
                       used |-> LenWith(c, id), rows |-> Append(batch[c].rows, id)]]
    BY <2>1, <2>2
  <2>6. batch' \in [Clients -> [snap : 0 .. MaxRowId, cur : -1 .. IntMax,
                                used : 0 .. BufferSize - 1, rows : Seq(RowIds)]]
    BY <1>0, <2>2, <2>3, <2>4, <2>5 DEF TypeOK
  <2>7. \A d \in Clients : Len(batch'[d].rows) <= BatchSize
    BY <1>0, <2>4, <2>5 DEF TypeOK
  <2> QED
    BY <1>0, <1>17, <2>6, <2>7 DEF TypeOK, FetchRow
<1>18. ASSUME NEW c \in Clients, BatchReady(c) PROVE TypeOK'
  BY <1>0, <1>18 DEF TypeOK, BatchReady, Goto, Points, Sending
<1>19. ASSUME NEW c \in Clients, QueryEnds(c) PROVE TypeOK'
  <2>1. pc' \in [Clients -> Points]
    BY <1>0, <1>19 DEF TypeOK, QueryEnds, Goto, Points
  <2> QED
    BY <1>0, <1>19, <2>1, ForgetType DEF TypeOK, QueryEnds
<1>20. ASSUME Restart PROVE TypeOK'
  BY <1>0, <1>20 DEF TypeOK, Restart
<1>21. ASSUME NEW c \in Clients, Prepare(c) PROVE TypeOK'
  <2>1. pc' \in [Clients -> Points]
    <3>1. {"commit", "minmax"} \subseteq Points /\ pc \in [Clients -> Points]
      BY <1>0 DEF TypeOK, Points, Working, Holding
    <3>2. \E point \in {"commit", "minmax"} : pc' = [pc EXCEPT ![c] = point]
      BY <1>21 DEF Prepare, Goto
    <3> QED
      BY <3>1, <3>2
  <2> QED
    BY <1>0, <1>21, <2>1 DEF TypeOK, Prepare
<1>22. ASSUME NEW c \in Clients, PrepareFails(c) PROVE TypeOK'
  <2>1. pc' \in [Clients -> Points]
    BY <1>0, <1>22 DEF TypeOK, PrepareFails, Goto, Points, Sending
  <2> QED
    BY <1>0, <1>22, <2>1 DEF TypeOK, PrepareFails
<1> QED
  BY <1>1, <1>2, <1>3, <1>4, <1>5, <1>6, <1>7, <1>8, <1>9, <1>10, <1>11, <1>12,
     <1>13, <1>14, <1>15, <1>16, <1>17, <1>18, <1>19, <1>20, <1>21, <1>22
     DEF Next, Send, Work, BrokenPipe, Killed

-----------------------------------------------------------------------------
(* The other parts of the invariant.                                        *)

\* The table only grows, above the identifiers assigned so far.
DbGrows ==
  /\ seq <= seq'
  /\ \A i \in Stored : i \in Stored' /\ table'[i] = table[i]
  /\ \A i \in Stored' : (i \in Stored \/ seq < i) /\ i <= seq'

\* A step of another thread leaves this one's locals and position alone.
Untouched(c) ==
  /\ pc'[c] = pc[c] /\ cmd'[c] = cmd[c] /\ query'[c] = query[c]
  /\ batch'[c] = batch[c] /\ range'[c] = range[c]
  /\ floor'[c] = floor[c] /\ mine'[c] = mine[c]

LEMMA DbStep ==
  ASSUME IInv, Next
  PROVE  DbGrows
<1> USE DEF db
<1>0. /\ seq \in Int /\ table \in [RowIds -> Readings \cup {NoRow}]
      /\ \A i \in Stored : i <= seq
      /\ \A c \in Clients : pc[c] = "commit" => cmd[c].reading \in Readings
      /\ NoRow \notin Readings
      /\ \A i \in RowIds : i \in Int
  <2>1. seq \in Int /\ table \in [RowIds -> Readings \cup {NoRow}]
    BY DEF IInv, TypeOK
  <2>2. \A i \in Stored : i <= seq
    BY DEF IInv
  <2>3. ASSUME NEW c \in Clients, pc[c] = "commit" PROVE cmd[c].reading \in Readings
    <3>1. ThreadInv(c)
      BY DEF IInv
    <3> QED
      BY <2>3, <3>1 DEF ThreadInv
  <2>4. NoRow \notin Readings
    BY GatewayAssumption
  <2>5. \A i \in RowIds : i \in Int
    BY DEF RowIds
  <2> QED
    BY <2>1, <2>2, <2>3, <2>4, <2>5
<1>1. CASE UNCHANGED db
  BY <1>0, <1>1 DEF DbGrows, Stored
<1>2. ASSUME NEW c \in Clients, InsertFails(c) PROVE DbGrows
  BY <1>0, <1>2 DEF DbGrows, Stored, InsertFails
<1>3. ASSUME NEW c \in Clients, InsertRow(c) PROVE DbGrows
  <2>1. /\ seq' = seq + 1
        /\ \A i \in RowIds : table'[i] = IF i = seq + 1 THEN cmd[c].reading ELSE table[i]
        /\ cmd[c].reading # NoRow
    BY <1>0, <1>3 DEF InsertRow
  <2>2. seq + 1 \notin Stored
    BY <1>0
  <2>3. \A i \in Stored : i \in Stored' /\ table'[i] = table[i]
    BY <2>1, <2>2 DEF Stored
  <2>4. \A i \in Stored' : i \in Stored \/ i = seq + 1
    BY <2>1 DEF Stored
  <2> QED
    <3>1. seq <= seq'
      BY <1>0, <2>1
    <3>2. \A i \in Stored' : (i \in Stored \/ seq < i) /\ i <= seq'
      <4>1. \A i \in Stored : i \in Int
        BY <1>0 DEF Stored
      <4> QED
        BY <1>0, <2>1, <2>4, <4>1
    <3> QED
      BY <2>3, <3>1, <3>2 DEF DbGrows
<1>4. UNCHANGED db \/ \E c \in Clients : InsertFails(c) \/ InsertRow(c)
  BY DEF Next, Send, Work, Connect, PeerCloses, PeerResets, SendWelcome, Receive,
         HangUp, SendOk, SendHelp, SendBatch, SendError, BrokenPipe, Killed, Die,
         Restart, Prepare, PrepareFails, GetIdRange, ReadFails, OpenBatch, FetchRow, RowTooLong,
         BatchReady, QueryEnds
<1> QED
  BY <1>1, <1>2, <1>3, <1>4

\* What other threads do to the table leaves this thread's invariant standing.
LEMMA Frame ==
  ASSUME IInv, TypeOK', DbGrows, NEW c \in Clients, Untouched(c)
  PROVE  ThreadInv(c)'
<1>1. /\ seq \in Int /\ seq' \in Int /\ floor[c] \in Int /\ batch[c].snap \in Int
      /\ mine[c] \in Int /\ (\A i \in RowIds : i \in Int)
      /\ Stored \subseteq RowIds /\ Stored' \subseteq RowIds
      /\ ThreadInv(c)
  <2>1. /\ seq \in Int /\ floor[c] \in Int /\ mine[c] \in Int
    BY DEF IInv, TypeOK
  <2>2. batch[c].snap \in Int
    BY DEF IInv, TypeOK
  <2>3. seq' \in Int
    BY DEF TypeOK
  <2> QED
    BY <2>1, <2>2, <2>3 DEF IInv, Stored, RowIds
<1>2. /\ floor'[c] <= seq'
      /\ pc'[c] # "ok" => mine'[c] = 0
      /\ pc'[c] \in {"insert", "commit"} => cmd'[c].reading \in Readings
      /\ pc'[c] = "ok" => mine'[c] \in Stored' /\ cmd'[c].reading = table'[mine'[c]]
      /\ pc'[c] \notin {"step", "output", "error"} => batch'[c] = NoBatch
      /\ pc'[c] = "output" => batch'[c].rows # <<>>
  BY <1>1 DEF ThreadInv, Untouched, DbGrows
<1>3. InQuery(c)' => Handed(c)'
  BY <1>1 DEF ThreadInv, Untouched, DbGrows, InQuery, Handed
<1>4. pc'[c] \in {"step", "output"} => Fetched(c)'
  BY <1>1 DEF ThreadInv, Untouched, DbGrows, Fetched
<1>5. (pc'[c] = "help" /\ seq' <= IntMax) =>
        \A i \in Stored' : i <= floor'[c] => range'[c][1] <= i /\ i <= range'[c][2]
  <2>1. IntMax \in Int
    BY GatewayAssumption
  <2> QED
    BY <1>1, <2>1 DEF ThreadInv, Untouched, DbGrows
<1> QED
  BY <1>2, <1>3, <1>4, <1>5 DEF ThreadInv

\* A thread between two commands.
LEMMA IdleThread ==
  ASSUME NEW c \in Clients, pc'[c] \in {"gone", "welcome", "recv"},
         mine'[c] = 0, batch'[c] = NoBatch, floor'[c] <= seq'
  PROVE  ThreadInv(c)'
BY DEF ThreadInv, InQuery

LEMMA ForgottenThread ==
  ASSUME TypeOK, TypeOK', NEW S, Forget(S), NEW c \in Clients
  PROVE  /\ c \in S => mine'[c] = 0 /\ batch'[c] = NoBatch /\ floor'[c] <= seq'
         /\ (c \notin S /\ pc'[c] = pc[c]) => Untouched(c)
<1>1. seq' \in Nat
  BY DEF TypeOK
<1> QED
  BY <1>1 DEF Forget, Untouched

-----------------------------------------------------------------------------
(* Each step keeps the invariant of the thread that takes it.               *)

\* What a step of thread c starts from: its invariant, the functions it updates,
\* and the values it computes with.
LEMMA Own ==
  ASSUME IInv, NEW c \in Clients
  PROVE  ThreadInv(c)
BY DEF IInv

LEMMA Functions ==
  ASSUME IInv
  PROVE  /\ pc \in [Clients -> Points] /\ mine \in [Clients -> 0 .. MaxRowId]
         /\ cmd \in [Clients -> Command] /\ link \in [Clients -> Links]
         /\ query \in [Clients -> [last : -1 .. IntMax, first : BOOLEAN, out : Seq(RowIds)]]
         /\ batch \in [Clients -> [snap : 0 .. MaxRowId, cur : -1 .. IntMax,
                                   used : 0 .. BufferSize - 1, rows : Seq(RowIds)]]
         /\ range \in [Clients -> Int \X Int] /\ floor \in [Clients -> 0 .. MaxRowId]
BY DEF IInv, TypeOK

LEMMA Values ==
  ASSUME IInv, NEW c \in Clients
  PROVE  /\ cmd[c].start_id \in Int /\ cmd[c].end_id \in Int /\ cmd[c].end_id <= IntMax
         /\ query[c].last \in Int /\ floor[c] \in Int
         /\ batch[c].snap \in Int /\ batch[c].cur \in Int
         /\ seq \in Int /\ IntMax \in Int
         /\ \A i \in Stored : i \in RowIds /\ i \in Int /\ i <= seq
<1>1. cmd[c].start_id \in 0 .. IntMax /\ cmd[c].end_id \in 0 .. IntMax
  BY DEF IInv, TypeOK, Command, IdArgs
<1>2. query[c].last \in Int
  BY DEF IInv, TypeOK
<1>3. batch[c].snap \in Int /\ batch[c].cur \in Int
  BY DEF IInv, TypeOK
<1>4. floor[c] \in Int /\ seq \in Int
  BY DEF IInv, TypeOK
<1>5. \A i \in Stored : i \in RowIds /\ i \in Int /\ i <= seq
  BY DEF IInv, Stored, RowIds
<1>6. IntMax \in Int
  BY GatewayAssumption
<1> QED
  BY <1>1, <1>2, <1>3, <1>4, <1>5, <1>6

LEMMA Batches ==
  ASSUME IInv, NEW c \in Clients
  PROVE  batch[c].rows \in Seq(RowIds) /\ query[c].out \in Seq(RowIds)
BY DEF IInv, TypeOK

\* A command starts with nothing handed out and the cursor before its range.
LEMMA ReceiveStep ==
  ASSUME IInv, TypeOK', NEW c \in Clients, Receive(c)
  PROVE  ThreadInv(c)'
<1> USE DEF db
<1>0. PICK r \in Requests :
        /\ cmd' = [cmd EXCEPT ![c] = Parse(r)]
        /\ query' = [query EXCEPT ![c] =
             [last |-> Parse(r).start_id - 1, first |-> TRUE, out |-> <<>>]]
        /\ pc' = [pc EXCEPT ![c] = Dispatch(Parse(r).type)]
  BY DEF Receive, Goto
<1>1. /\ cmd'[c] = Parse(r)
      /\ query'[c].last = Parse(r).start_id - 1 /\ query'[c].out = <<>>
      /\ pc'[c] = Dispatch(Parse(r).type)
      /\ floor'[c] = seq /\ seq' = seq
      /\ batch' = batch /\ mine' = mine /\ range' = range
      /\ pc[c] = "recv"
  BY <1>0, Functions DEF Receive
<1>2. Parse(r).type \in {"SENSOR", "QUERY", "HELP", "INVALID"}
  BY ParseType DEF Command
<1>3. /\ pc'[c] \in {"insert", "batch", "range", "error"}
      /\ pc'[c] = "insert" => Parse(r).type = "SENSOR"
  BY <1>1, <1>2 DEF Dispatch
<1>4. Handed(c)'
  <2>1. Elements(query'[c].out) = {} /\ Ascending(query'[c].out)
    BY <1>1, EmptySequence
  <2>2. \A i \in Stored' : ~(Parse(r).start_id <= i /\ i <= query'[c].last)
    <3>1. Parse(r).start_id \in Int /\ Stored' \subseteq Int
      BY ParseType DEF IdArgs, Stored, RowIds
    <3> QED
      BY <1>1, <3>1
  <2>3. Parse(r).start_id - 1 <= query'[c].last
    BY <1>1, ParseType DEF IdArgs
  <2> QED
    BY <1>1, <2>1, <2>2, <2>3 DEF Handed
<1>5. mine[c] = 0 /\ batch[c] = NoBatch
  BY <1>1, Own DEF ThreadInv
<1>6. /\ floor'[c] <= seq'
      /\ pc'[c] = "insert" => cmd'[c].reading \in Readings
  BY <1>1, <1>3, ParseType, Values
<1> QED
  BY <1>1, <1>3, <1>4, <1>5, <1>6 DEF ThreadInv

\* A statement in hand changes nothing yet.
LEMMA PrepareStep ==
  ASSUME IInv, NEW c \in Clients, Prepare(c)
  PROVE  ThreadInv(c)'
<1> USE DEF db, locals
<1>1. /\ \/ pc[c] = "insert" /\ pc'[c] = "commit"
         \/ pc[c] = "range" /\ pc'[c] = "minmax"
      /\ cmd' = cmd /\ batch' = batch /\ floor' = floor /\ mine' = mine /\ seq' = seq
  BY Functions DEF Prepare, Goto
<1>2. /\ mine[c] = 0 /\ batch[c] = NoBatch /\ floor[c] <= seq
      /\ pc'[c] = "commit" => cmd[c].reading \in Readings
  BY <1>1, Own DEF ThreadInv
<1> QED
  BY <1>1, <1>2 DEF ThreadInv, InQuery

\* The row just committed is the one that will be acknowledged.
LEMMA InsertStep ==
  ASSUME IInv, TypeOK', DbGrows, NEW c \in Clients, InsertRow(c) \/ InsertFails(c)
  PROVE  ThreadInv(c)'
<1> USE DEF db, locals
<1>1. pc[c] = "commit" /\ mine[c] = 0 /\ batch[c] = NoBatch /\ floor[c] <= seq
  BY Own DEF ThreadInv, InsertRow, InsertFails
<1>2. floor'[c] = floor[c] /\ seq' \in Int /\ seq \in Int /\ floor[c] <= seq'
  <2>1. seq' \in Int /\ seq <= seq' /\ floor' = floor
    BY DEF InsertRow, InsertFails, DbGrows, TypeOK
  <2> QED
    BY <1>1, <2>1, Values
<1>3. CASE InsertFails(c)
  <2>1. pc'[c] = "error" /\ mine'[c] = 0
    BY <1>1, <1>3, Functions DEF InsertFails, Fail, Goto
  <2> QED
    BY <1>2, <2>1 DEF ThreadInv, InQuery
<1>4. CASE InsertRow(c)
  <2>1. /\ pc'[c] = "ok" /\ mine'[c] = seq + 1 /\ batch' = batch /\ cmd' = cmd
        /\ seq + 1 \in RowIds /\ table'[seq + 1] = cmd[c].reading
    <3>1. seq + 1 \in RowIds
      BY <1>4, GatewayAssumption DEF InsertRow, RowIds, IInv, TypeOK
    <3> QED
      BY <1>4, <3>1, Functions DEF InsertRow, Goto, IInv, TypeOK
  <2>2. cmd[c].reading # NoRow
    BY <1>1, Own, GatewayAssumption DEF ThreadInv
  <2>3. mine'[c] \in Stored'
    BY <2>1, <2>2 DEF Stored
  <2> QED
    BY <1>1, <1>2, <2>1, <2>3 DEF ThreadInv, InQuery
<1> QED
  BY <1>3, <1>4

\* The two ends of the table bound every row of it.
LEMMA GetIdRangeStep ==
  ASSUME IInv, NEW c \in Clients, GetIdRange(c)
  PROVE  ThreadInv(c)'
<1> USE DEF db
<1>1. /\ pc[c] = "minmax" /\ pc'[c] = "help"
      /\ mine'[c] = 0 /\ batch'[c] = NoBatch /\ floor'[c] <= seq'
      /\ Stored' = Stored /\ seq' = seq /\ seq \in Int
  <2>1. /\ pc[c] = "minmax" /\ pc'[c] = "help" /\ mine' = mine /\ batch' = batch
        /\ floor' = floor /\ Stored' = Stored /\ seq' = seq
    BY Functions DEF GetIdRange, Goto, Stored
  <2> QED
    BY <2>1, Own, Values DEF ThreadInv
<1>2. ASSUME seq <= IntMax, NEW i \in Stored
      PROVE  range'[c][1] <= i /\ i <= range'[c][2]
  <2>1. PICK lo \in Stored, hi \in Stored :
          IsMinMax(lo, hi) /\ range' = [range EXCEPT ![c] = <<ToInt(lo), ToInt(hi)>>]
    BY <1>2 DEF GetIdRange
  <2>2. range'[c] = <<ToInt(lo), ToInt(hi)>>
    BY <2>1, Functions
  <2>3. lo <= IntMax /\ hi <= IntMax
    BY <1>2, Values
  <2>4. ToInt(lo) = lo /\ ToInt(hi) = hi
    BY <2>3, Values, ToIntType
  <2>5. lo <= i /\ i <= hi
    BY <2>1 DEF IsMinMax
  <2> QED
    BY <2>2, <2>4, <2>5
<1>3. seq' <= IntMax =>
        \A i \in Stored' : i <= floor'[c] => range'[c][1] <= i /\ i <= range'[c][2]
  BY <1>1, <1>2
<1> QED
  BY <1>1, <1>3 DEF ThreadInv, InQuery

\* A batch starts with nothing in it and its cursor at the query's.
LEMMA OpenBatchStep ==
  ASSUME IInv, NEW c \in Clients, OpenBatch(c)
  PROVE  ThreadInv(c)'
<1> USE DEF db
<1>1. /\ pc[c] = "batch" /\ pc'[c] = "step"
      /\ mine'[c] = 0 /\ floor'[c] <= seq' /\ floor[c] <= seq
      /\ Stored' = Stored /\ seq' = seq /\ cmd' = cmd /\ query' = query /\ floor' = floor
  <2>1. /\ pc[c] = "batch" /\ pc'[c] = "step" /\ mine' = mine
        /\ Stored' = Stored /\ seq' = seq /\ cmd' = cmd /\ query' = query /\ floor' = floor
    BY Functions DEF OpenBatch, Goto, Stored
  <2> QED
    BY <2>1, Own DEF ThreadInv
<1>2. /\ batch'[c].snap = seq /\ batch'[c].cur = query[c].last /\ batch'[c].rows = <<>>
  BY Functions DEF OpenBatch
<1>3. Handed(c)
  BY <1>1, Own DEF ThreadInv, InQuery
<1>4. Handed(c)'
  BY <1>1, <1>3 DEF Handed
<1>5. Fetched(c)'
  <2>1. Elements(batch'[c].rows) = {} /\ Ascending(batch'[c].rows)
    BY <1>2, EmptySequence
  <2>2. \A i \in Stored' : ~(query'[c].last < i /\ i <= batch'[c].cur)
    BY <1>1, <1>2, Values
  <2>3. /\ floor'[c] <= batch'[c].snap /\ batch'[c].snap <= seq'
        /\ query'[c].last <= batch'[c].cur
    BY <1>1, <1>2, Values
  <2> QED
    BY <1>1, <1>2, <2>1, <2>2, <2>3 DEF Fetched
<1> QED
  BY <1>1, <1>4, <1>5 DEF ThreadInv

\* A row joins the batch: it lies after the cursor, and no row of the snapshot
\* lies between the two.
LEMMA FetchRowStep ==
  ASSUME IInv, NEW c \in Clients, FetchRow(c)
  PROVE  ThreadInv(c)'
<1> USE DEF db
<1>1. PICK id \in RowIds :
        /\ IsNextRow(c, id)
        /\ batch' = [batch EXCEPT ![c] =
             [snap |-> batch[c].snap, cur |-> ToInt(id), used |-> LenWith(c, id),
              rows |-> Append(batch[c].rows, ToInt(id))]]
  BY DEF FetchRow
<1>2. /\ pc[c] = "step" /\ pc' = pc /\ cmd' = cmd /\ query' = query
      /\ floor' = floor /\ mine' = mine /\ range' = range
      /\ seq' = seq /\ table' = table /\ Stored' = Stored
      /\ mine'[c] = 0 /\ floor[c] <= seq /\ Handed(c) /\ Fetched(c)
  <2>1. /\ pc[c] = "step" /\ pc' = pc /\ cmd' = cmd /\ query' = query
        /\ floor' = floor /\ mine' = mine /\ range' = range
        /\ seq' = seq /\ table' = table /\ Stored' = Stored
    BY DEF FetchRow, IsNextRow, Stored
  <2> QED
    BY <2>1, Own DEF ThreadInv, InQuery
<1>3. /\ id \in Stored /\ id \in Int /\ batch[c].cur < id /\ id <= cmd[c].end_id
      /\ \A j \in Stored : (batch[c].cur < j /\ j < id) => j > batch[c].snap
  <2>1. id \in Stored /\ batch[c].cur < id /\ id <= cmd[c].end_id
    BY <1>1 DEF IsNextRow, Selected
  <2>2. ASSUME NEW j \in Stored, batch[c].cur < j, j < id
        PROVE  j > batch[c].snap
    <3>1. j <= cmd[c].end_id
      BY <2>1, <2>2, Values
    <3> QED
      BY <1>1, <2>2, <3>1 DEF IsNextRow, Selected
  <2> QED
    BY <2>1, <2>2, Values
<1>4. ToInt(id) = id
  <2>1. id <= IntMax
    BY <1>3, Values
  <2> QED
    BY <2>1, ToIntType
<1>5. /\ batch'[c].snap = batch[c].snap /\ batch'[c].cur = id
      /\ batch'[c].rows = Append(batch[c].rows, id)
  BY <1>1, <1>4, Functions
<1> DEFINE got == Elements(batch[c].rows)
<1>6. /\ Elements(batch'[c].rows) = got \cup {id}
      /\ batch'[c].rows # <<>>
  <2>1. Elements(Append(batch[c].rows, id)) = got \cup {id}
    BY Batches, ElementsAppend
  <2>2. id \in Elements(Append(batch[c].rows, id)) /\ Elements(<<>>) = {}
    BY <2>1, EmptySequence
  <2>3. batch'[c].rows = Append(batch[c].rows, id)
    BY <1>5
  <2>4. Elements(batch'[c].rows) = got \cup {id}
    BY <2>1, <2>3
  <2>5. batch'[c].rows # <<>>
    BY <2>2, <2>3
  <2> QED
    BY <2>4, <2>5
<1>7. \A e \in got : e \in Int /\ e < id
  <2>1. \A e \in got : e \in Stored /\ e <= batch[c].cur
    BY <1>2 DEF Fetched
  <2>2. ASSUME NEW e \in got PROVE e \in Int /\ e < id
    <3>1. e \in Int /\ batch[c].cur \in Int
      BY <2>1, <2>2, Values
    <3>2. e <= batch[c].cur /\ batch[c].cur < id /\ id \in Int
      BY <1>3, <2>1, <2>2
    <3> QED
      BY <3>1, <3>2
  <2> QED
    BY <2>2
<1>8. Ascending(batch'[c].rows)
  <2>1. Ascending(batch[c].rows)
    BY <1>2 DEF Fetched
  <2> QED
    BY <1>3, <1>5, <1>7, <2>1, Batches, AscendingAppend
<1>9. Fetched(c)'
  <2>1. /\ floor'[c] <= batch'[c].snap /\ batch'[c].snap <= seq'
    BY <1>2, <1>5 DEF Fetched
  <2>2. query'[c].last <= batch'[c].cur /\ query[c].last < id
    <3>1. query[c].last <= batch[c].cur
      BY <1>2 DEF Fetched
    <3> QED
      BY <1>2, <1>3, <1>5, <3>1, Values
  <2>3. got \cup {id} \subseteq Stored'
    BY <1>2, <1>3 DEF Fetched
  <2>4. \A i \in got \cup {id} : query'[c].last < i /\ i <= batch'[c].cur /\ i <= cmd'[c].end_id
    <3>1. \A i \in got : query[c].last < i /\ i <= cmd[c].end_id
      BY <1>2 DEF Fetched
    <3> QED
      BY <1>2, <1>3, <1>5, <1>7, <2>2, <3>1, Values
  <2>5. ASSUME NEW i \in Stored', i <= batch'[c].snap, query'[c].last < i, i <= batch'[c].cur
        PROVE  i \in got \cup {id}
    <3>1. i \in Stored /\ i \in Int /\ i <= batch[c].snap /\ query[c].last < i /\ i <= id
      BY <1>2, <1>5, <2>5, Values
    <3>2. CASE i <= batch[c].cur
      BY <1>2, <3>1, <3>2 DEF Fetched
    <3>3. CASE batch[c].cur < i /\ i < id
      BY <1>3, <3>1, <3>3, Values
    <3> QED
      BY <1>3, <3>1, <3>2, <3>3, Values
  <2> QED
    BY <1>5, <1>6, <1>8, <2>1, <2>2, <2>3, <2>4, <2>5 DEF Fetched
<1>10. Handed(c)'
  BY <1>2 DEF Handed
<1> QED
  BY <1>2, <1>9, <1>10 DEF ThreadInv

\* A full batch waits for its peer as it was built.
LEMMA BatchReadyStep ==
  ASSUME IInv, NEW c \in Clients, BatchReady(c)
  PROVE  ThreadInv(c)'
<1> USE DEF db, locals
<1>1. /\ pc[c] = "step" /\ pc'[c] = "output" /\ batch[c].rows # <<>>
      /\ cmd' = cmd /\ query' = query /\ batch' = batch
      /\ floor' = floor /\ mine' = mine /\ range' = range
      /\ seq' = seq /\ table' = table /\ Stored' = Stored
      /\ mine'[c] = 0 /\ floor[c] <= seq /\ Handed(c) /\ Fetched(c)
  <2>1. /\ pc[c] = "step" /\ pc'[c] = "output" /\ batch[c].rows # <<>>
        /\ cmd' = cmd /\ query' = query /\ batch' = batch
        /\ floor' = floor /\ mine' = mine /\ range' = range
        /\ seq' = seq /\ table' = table /\ Stored' = Stored
    BY Functions DEF BatchReady, NoMoreRows, Goto, Stored
  <2> QED
    BY <2>1, Own DEF ThreadInv, InQuery
<1>2. Handed(c)' /\ Fetched(c)'
  BY <1>1 DEF Handed, Fetched
<1> QED
  BY <1>1, <1>2 DEF ThreadInv

\* A call that fails leaves nothing to keep but the cursor of the statement.
LEMMA FailStep ==
  ASSUME IInv, NEW c \in Clients, PrepareFails(c) \/ ReadFails(c) \/ RowTooLong(c)
  PROVE  ThreadInv(c)'
<1> USE DEF db, locals
<1>1. /\ pc[c] \in {"insert", "range", "minmax", "batch", "step"} /\ pc'[c] = "error"
      /\ floor' = floor /\ seq' = seq /\ mine' = mine
  BY Functions DEF PrepareFails, ReadFails, RowTooLong, IsNextRow, Fail, Goto
<1> QED
  BY <1>1, Own DEF ThreadInv, InQuery

\* What a query has sent, and what it has sent with the batch in hand.
LEMMA SentSoFar ==
  ASSUME IInv, NEW c \in Clients, Handed(c), Fetched(c)
  PROVE  LET all == query[c].out \o batch[c].rows IN
         /\ Elements(all) = Elements(query[c].out) \cup Elements(batch[c].rows)
         /\ Ascending(all)
         /\ \A i \in Elements(all) :
              /\ i \in Stored /\ i \in cmd[c].start_id .. cmd[c].end_id
              /\ i <= batch[c].cur
<1> DEFINE sent == Elements(query[c].out)
           got  == Elements(batch[c].rows)
<1>1. Elements(query[c].out \o batch[c].rows) = sent \cup got
  BY Batches, ElementsConcat
<1>2. \A d \in sent : d \in Stored /\ d <= query[c].last /\ cmd[c].start_id <= d /\ d <= cmd[c].end_id
  BY DEF Handed
<1>3. \A e \in got : e \in Stored /\ query[c].last < e /\ e <= batch[c].cur /\ e <= cmd[c].end_id
  BY DEF Fetched
<1>4. query[c].last <= batch[c].cur /\ cmd[c].start_id - 1 <= query[c].last
  BY DEF Fetched, Handed
<1>5. Ascending(query[c].out \o batch[c].rows)
  <2>1. ASSUME NEW d \in sent, NEW e \in got PROVE d < e
    <3>1. d \in Int /\ e \in Int /\ query[c].last \in Int
      BY <1>2, <1>3, <2>1, Values
    <3>2. d <= query[c].last /\ query[c].last < e
      BY <1>2, <1>3, <2>1
    <3> QED
      BY <3>1, <3>2
  <2>2. Ascending(query[c].out) /\ Ascending(batch[c].rows)
    BY DEF Handed, Fetched
  <2> QED
    BY <2>1, <2>2, Batches, AscendingConcat
<1>6. ASSUME NEW i \in sent \cup got
      PROVE  i \in Stored /\ i \in cmd[c].start_id .. cmd[c].end_id /\ i <= batch[c].cur
  <2>1. i \in Stored /\ i \in Int
    BY <1>2, <1>3, <1>6, Values
  <2>2. CASE i \in sent
    BY <1>2, <1>4, <2>1, <2>2, Values
  <2>3. CASE i \in got
    BY <1>3, <1>4, <2>1, <2>3, Values
  <2> QED
    BY <1>6, <2>2, <2>3
<1> QED
  BY <1>1, <1>5, <1>6

\* The batch that was sent moves the cursor to its last row.
LEMMA SendBatchStep ==
  ASSUME IInv, TypeOK', NEW c \in Clients, SendBatch(c)
  PROVE  ThreadInv(c)'
<1> USE DEF db
<1>1. /\ pc[c] = "output" /\ cmd' = cmd /\ floor' = floor /\ mine' = mine
      /\ seq' = seq /\ Stored' = Stored
  BY DEF SendBatch, Stored
<1>2. /\ mine'[c] = 0 /\ floor'[c] <= seq' /\ Handed(c) /\ Fetched(c)
      /\ batch[c].rows # <<>>
  BY <1>1, Own DEF ThreadInv, InQuery
<1>3. CASE pc'[c] = "error"
  BY <1>2, <1>3 DEF ThreadInv, InQuery
<1>4. CASE pc'[c] = "batch"
  <2> DEFINE sent == Elements(query[c].out)
             got  == Elements(batch[c].rows)
  <2>1. /\ query'[c].last = batch[c].cur
        /\ query'[c].out = query[c].out \o batch[c].rows
        /\ batch'[c] = NoBatch
    <3>1. /\ query' = [query EXCEPT ![c] =
               [last |-> batch[c].cur, first |-> FALSE, out |-> query[c].out \o batch[c].rows]]
          /\ batch' = [batch EXCEPT ![c] = NoBatch]
      <4>1. ~Goto(c, "error")
        BY <1>4, Functions DEF Goto
      <4> QED
        BY <4>1 DEF SendBatch
    <3> QED
      BY <3>1, Functions
  <2>2. /\ Elements(query'[c].out) = sent \cup got
        /\ Ascending(query'[c].out)
        /\ \A i \in sent \cup got :
             i \in Stored /\ i \in cmd[c].start_id .. cmd[c].end_id /\ i <= batch[c].cur
    BY <1>2, <2>1, SentSoFar
  <2>3. query[c].last <= batch[c].cur /\ cmd[c].start_id - 1 <= query[c].last
    BY <1>2 DEF Fetched, Handed
  <2>4. cmd[c].start_id - 1 <= batch[c].cur
    BY <2>3, Values
  <2>5. ASSUME NEW i \in Stored, i <= floor[c], cmd[c].start_id <= i, i <= batch[c].cur
        PROVE  i \in sent \cup got
    <3>1. i \in Int
      BY Values
    <3>2. CASE i <= query[c].last
      BY <1>2, <2>5, <3>2 DEF Handed
    <3>3. CASE query[c].last < i
      <4>1. i <= batch[c].snap
        <5>1. floor[c] <= batch[c].snap
          BY <1>2 DEF Fetched
        <5> QED
          BY <2>5, <3>1, <5>1, Values
      <4> QED
        BY <1>2, <2>5, <3>3, <4>1 DEF Fetched
    <3> QED
      BY <3>1, <3>2, <3>3, Values
  <2>6. Handed(c)'
    BY <1>1, <2>1, <2>2, <2>4, <2>5 DEF Handed
  <2> QED
    BY <1>2, <1>4, <2>1, <2>6 DEF ThreadInv
<1>5. pc'[c] \in {"error", "batch"}
  BY Functions DEF SendBatch, Goto
<1> QED
  BY <1>3, <1>4, <1>5

\* Whatever thread steps, the invariant of every thread is kept.
LEMMA ThreadStep ==
  ASSUME IInv, Next, TypeOK', DbGrows, NEW d \in Clients
  PROVE  ThreadInv(d)'
<1> USE DEF db, locals
<1>0. TypeOK /\ ThreadInv(d)
  BY DEF IInv
<1>1. ASSUME NEW c \in Clients,
             Connect(c) \/ PeerCloses(c) \/ PeerResets(c) \/ HangUp(c) \/ SendWelcome(c)
      PROVE  ThreadInv(d)'
  <2>1. /\ UNCHANGED <<seq, table, cmd, query, batch, range, floor, mine>>
        /\ \/ pc'[d] = pc[d]
           \/ pc[d] \in {"gone", "recv", "welcome"} /\ pc'[d] \in {"gone", "recv", "welcome"}
    BY <1>1, Functions DEF Connect, PeerCloses, PeerResets, HangUp, SendWelcome, Goto
  <2>2. CASE pc'[d] = pc[d]
    BY <2>1, <2>2, Frame DEF Untouched
  <2>3. CASE pc[d] \in {"gone", "recv", "welcome"} /\ pc'[d] \in {"gone", "recv", "welcome"}
    BY <1>0, <2>1, <2>3, IdleThread DEF ThreadInv
  <2> QED
    BY <2>1, <2>2, <2>3
<1>2. ASSUME NEW c \in Clients,
             SendOk(c) \/ SendHelp(c) \/ SendError(c) \/ QueryEnds(c)
      PROVE  ThreadInv(d)'
  <2>1. Forget({c}) /\ Goto(c, "recv")
    BY <1>2 DEF SendOk, SendHelp, SendError, QueryEnds
  <2>2. CASE d = c
    <3>1. pc'[d] = "recv"
      BY <2>1, <2>2, Functions DEF Goto
    <3> QED
      BY <1>0, <2>1, <2>2, <3>1, ForgottenThread, IdleThread
  <2>3. CASE d # c
    <3>1. pc'[d] = pc[d] /\ d \notin {c}
      BY <2>1, <2>3, Functions DEF Goto
    <3> QED
      BY <1>0, <2>1, <3>1, ForgottenThread, Frame
  <2> QED
    BY <2>2, <2>3
<1>3. ASSUME Die PROVE ThreadInv(d)'
  <2>1. pc'[d] = "gone" /\ Forget(Clients)
    BY <1>3 DEF Die
  <2> QED
    BY <1>0, <2>1, ForgottenThread, IdleThread
<1>4. ASSUME Restart PROVE ThreadInv(d)'
  BY <1>4, Frame DEF Restart, Untouched
<1>5. ASSUME NEW c \in Clients, d # c,
             \/ Receive(c) \/ Prepare(c) \/ PrepareFails(c)
             \/ InsertRow(c) \/ InsertFails(c) \/ GetIdRange(c)
             \/ ReadFails(c) \/ OpenBatch(c) \/ FetchRow(c) \/ RowTooLong(c)
             \/ BatchReady(c) \/ SendBatch(c)
      PROVE  ThreadInv(d)'
  <2>1. CASE Receive(c) \/ InsertRow(c) \/ InsertFails(c) \/ GetIdRange(c)
    BY <1>5, <2>1, Functions, Frame
       DEF Receive, InsertRow, InsertFails, GetIdRange, Fail, Goto, Untouched
  <2>2. CASE ReadFails(c) \/ RowTooLong(c) \/ BatchReady(c)
    BY <1>5, <2>2, Functions, Frame
       DEF ReadFails, RowTooLong, BatchReady, Fail, Goto, Untouched
  <2>4. CASE Prepare(c) \/ PrepareFails(c)
    BY <1>5, <2>4, Functions, Frame DEF Prepare, PrepareFails, Goto, Untouched
  <2>3. CASE OpenBatch(c) \/ FetchRow(c) \/ SendBatch(c)
    BY <1>5, <2>3, Functions, Frame
       DEF OpenBatch, FetchRow, SendBatch, Goto, Untouched
  <2> QED
    BY <1>5, <2>1, <2>2, <2>3, <2>4
<1>6. ASSUME \/ Receive(d) \/ Prepare(d) \/ PrepareFails(d) \/ InsertRow(d) \/ InsertFails(d) \/ GetIdRange(d)
             \/ ReadFails(d) \/ OpenBatch(d) \/ FetchRow(d) \/ RowTooLong(d)
             \/ BatchReady(d) \/ SendBatch(d)
      PROVE  ThreadInv(d)'
  BY <1>6, ReceiveStep, PrepareStep, InsertStep, GetIdRangeStep, FailStep, OpenBatchStep,
     FetchRowStep, BatchReadyStep, SendBatchStep
<1> QED
  BY <1>1, <1>2, <1>3, <1>4, <1>5, <1>6 DEF Next, Send, Work, BrokenPipe, Killed

\* An acknowledged row is never overwritten, and OK follows the commit.
LEMMA AckedStep ==
  ASSUME IInv, Next, DbGrows
  PROVE  AckedStored'
<1> USE DEF db
<1>1. acked \subseteq {<<i, table'[i]>> : i \in Stored'}
  <2>1. ASSUME NEW a \in acked PROVE a \in {<<i, table'[i]>> : i \in Stored'}
    <3>1. PICK i \in Stored : a = <<i, table[i]>>
      BY <2>1 DEF IInv, AckedStored
    <3>2. i \in Stored' /\ table'[i] = table[i]
      BY <3>1 DEF DbGrows
    <3> QED
      BY <3>1, <3>2
  <2> QED
    BY <2>1
<1>2. ASSUME NEW c \in Clients, SendOk(c) PROVE AckedStored'
  <2>1. mine[c] \in Stored /\ cmd[c].reading = table[mine[c]]
    BY <1>2, Own DEF ThreadInv, SendOk
  <2>2. <<mine[c], cmd[c].reading>> \in {<<i, table'[i]>> : i \in Stored'}
    BY <2>1 DEF DbGrows
  <2>3. acked' \subseteq acked \cup {<<mine[c], cmd[c].reading>>}
    BY <1>2 DEF SendOk
  <2> QED
    BY <1>1, <2>2, <2>3 DEF AckedStored
<1>3. CASE acked' = acked
  BY <1>1, <1>3 DEF AckedStored
<1>4. acked' = acked \/ \E c \in Clients : SendOk(c)
  BY DEF Next, Send, Work, Connect, PeerCloses, PeerResets, SendWelcome, Receive,
         HangUp, SendHelp, SendBatch, SendError, BrokenPipe, Killed, Die, Restart,
         Prepare, PrepareFails, InsertRow, InsertFails, GetIdRange, ReadFails, OpenBatch, FetchRow,
         RowTooLong, BatchReady, QueryEnds
<1> QED
  BY <1>2, <1>3, <1>4

\* A statement is held between its preparation and the end of its function.
LEMMA StatementsStep ==
  ASSUME IInv, Next
  PROVE  StatementsReleased'
<1> USE DEF db, locals, Holding
<1>0. stmts = {c \in Clients : pc[c] \in Holding} /\ pc \in [Clients -> Points]
  BY Functions DEF IInv, StatementsReleased
<1>1. ASSUME NEW c \in Clients,
             \/ Connect(c) \/ PeerCloses(c) \/ PeerResets(c) \/ HangUp(c)
             \/ SendWelcome(c) \/ SendOk(c) \/ SendHelp(c) \/ SendError(c)
             \/ SendBatch(c) \/ PrepareFails(c)
      PROVE  StatementsReleased'
  <2>1. stmts' = stmts /\ \A d \in Clients : pc'[d] \in Holding <=> pc[d] \in Holding
    BY <1>0, <1>1 DEF Connect, PeerCloses, PeerResets, HangUp, SendWelcome, SendOk,
       SendHelp, SendError, SendBatch, PrepareFails, Goto
  <2> QED
    BY <1>0, <2>1 DEF StatementsReleased
<1>2. ASSUME NEW c \in Clients, Receive(c) PROVE StatementsReleased'
  <2>1. PICK r \in Requests : pc' = [pc EXCEPT ![c] = Dispatch(Parse(r).type)]
    BY <1>2 DEF Receive, Goto
  <2>2. Dispatch(Parse(r).type) \notin Holding
    <3>1. Parse(r).type \in {"SENSOR", "QUERY", "HELP", "INVALID"}
      BY ParseType DEF Command
    <3> QED
      BY <3>1 DEF Dispatch
  <2>3. stmts' = stmts /\ pc[c] \notin Holding
    BY <1>2 DEF Receive
  <2> QED
    BY <1>0, <2>1, <2>2, <2>3 DEF StatementsReleased
<1>3. ASSUME NEW c \in Clients,
             \/ InsertRow(c) \/ InsertFails(c) \/ GetIdRange(c) \/ ReadFails(c)
             \/ RowTooLong(c) \/ BatchReady(c) \/ QueryEnds(c)
      PROVE  StatementsReleased'
  <2>1. /\ stmts' = stmts \ {c} /\ pc'[c] \notin Holding
        /\ \A d \in Clients \ {c} : pc'[d] = pc[d]
    BY <1>0, <1>3 DEF InsertRow, InsertFails, GetIdRange, ReadFails, RowTooLong,
       BatchReady, QueryEnds, Fail, Goto
  <2> QED
    BY <1>0, <2>1 DEF StatementsReleased
<1>4. ASSUME NEW c \in Clients, Prepare(c) \/ OpenBatch(c) PROVE StatementsReleased'
  <2>1. /\ stmts' = stmts \cup {c} /\ pc'[c] \in Holding
        /\ \A d \in Clients \ {c} : pc'[d] = pc[d]
    BY <1>0, <1>4 DEF Prepare, OpenBatch, Goto
  <2> QED
    BY <1>0, <2>1 DEF StatementsReleased
<1>5. ASSUME NEW c \in Clients, FetchRow(c) PROVE StatementsReleased'
  BY <1>0, <1>5 DEF FetchRow, StatementsReleased
<1>6. ASSUME Die PROVE StatementsReleased'
  BY <1>6 DEF Die, StatementsReleased
<1>7. ASSUME Restart PROVE StatementsReleased'
  BY <1>0, <1>7 DEF Restart, StatementsReleased
<1> QED
  BY <1>1, <1>2, <1>3, <1>4, <1>5, <1>6, <1>7 DEF Next, Send, Work, BrokenPipe, Killed

-----------------------------------------------------------------------------
(* The invariant.                                                           *)

\* The empty table, no connection, no command.
LEMMA InitInvariant ==
  Init => IInv
<1> SUFFICES ASSUME Init PROVE IInv
  OBVIOUS
<1>1. Stored = {} /\ MaxRowId \in Nat /\ BatchSize \in Nat /\ IntMax \in Nat
  BY GatewayAssumption DEF Init, Stored
<1>2. TypeOK
  <2>1. /\ up \in BOOLEAN /\ seq \in 0 .. MaxRowId
        /\ table \in [RowIds -> Readings \cup {NoRow}]
        /\ link \in [Clients -> Links] /\ pc \in [Clients -> Points]
        /\ stmts \subseteq Clients /\ acked \subseteq RowIds \X Readings
        /\ floor \in [Clients -> 0 .. MaxRowId] /\ mine \in [Clients -> 0 .. MaxRowId]
    BY <1>1 DEF Init, Links, Points
  <2>2. /\ cmd \in [Clients -> Command]
        /\ range \in [Clients -> Int \X Int]
    BY NothingType DEF Init
  <2>3. query \in [Clients -> [last : -1 .. IntMax, first : BOOLEAN, out : Seq(RowIds)]]
    BY NothingType DEF Init
  <2>4. /\ batch \in [Clients -> [snap : 0 .. MaxRowId, cur : -1 .. IntMax,
                                  used : 0 .. BufferSize - 1, rows : Seq(RowIds)]]
        /\ \A c \in Clients : Len(batch[c].rows) <= BatchSize
    BY <1>1, NothingType DEF Init
  <2> QED
    BY <2>1, <2>2, <2>3, <2>4 DEF TypeOK
<1>3. AckedStored /\ StatementsReleased
  BY DEF Init, AckedStored, StatementsReleased, Holding
<1>4. ASSUME NEW c \in Clients PROVE ThreadInv(c)
  BY <1>1 DEF Init, ThreadInv, InQuery
<1> QED
  BY <1>1, <1>2, <1>3, <1>4 DEF IInv

LEMMA NextInvariant ==
  IInv /\ [Next]_vars => IInv'
<1> SUFFICES ASSUME IInv, [Next]_vars PROVE IInv'
  OBVIOUS
<1>1. CASE Next
  <2>1. TypeOK' /\ DbGrows
    BY <1>1, TypeStep, DbStep
  <2>2. \A c \in Clients : ThreadInv(c)'
    BY <1>1, <2>1, ThreadStep
  <2>3. AckedStored' /\ StatementsReleased'
    BY <1>1, <2>1, AckedStep, StatementsStep
  <2>4. \A i \in Stored' : i <= seq'
    BY <2>1 DEF DbGrows
  <2> QED
    BY <2>1, <2>2, <2>3, <2>4 DEF IInv
<1>2. CASE UNCHANGED vars
  BY <1>2 DEF vars, db, locals, IInv, TypeOK, AckedStored, StatementsReleased, Stored,
       ThreadInv, InQuery, Handed, Fetched
<1> QED
  BY <1>1, <1>2

\* Every reachable state satisfies the inductive invariant.
THEOREM Invariant == Spec => []IInv
BY InitInvariant, NextInvariant, PTL DEF Spec

-----------------------------------------------------------------------------
(* What follows from it.                                                    *)

\* Every variable keeps its type; batch_buffer always has room for its NUL.
THEOREM TypeCorrect == Spec => []TypeOK
<1>1. IInv => TypeOK
  BY DEF IInv
<1> QED
  BY <1>1, Invariant, PTL

\* What was answered with OK is in the table, whatever fails and whenever the
\* process dies.
THEOREM Durability == Spec => []AckedStored
<1>1. IInv => AckedStored
  BY DEF IInv
<1> QED
  BY <1>1, Invariant, PTL

\* A statement is held between its preparation and the end of its function, and
\* never while a thread waits for its peer.
THEOREM Finalized == Spec => []StatementsReleased
<1>1. IInv => StatementsReleased
  BY DEF IInv
<1> QED
  BY <1>1, Invariant, PTL

\* ERROR after SENSOR: no row.
THEOREM ErrorLeavesNoRow == Spec => []ErrorMeansUnstored
<1>1. IInv => ErrorMeansUnstored
  BY DEF IInv, ThreadInv, ErrorMeansUnstored
<1> QED
  BY <1>1, Invariant, PTL

\* HELP covers the rows that were there, as long as identifiers fit an int.
THEOREM HelpCovers == Spec => []HelpCoversRows
<1>1. IInv => HelpCoversRows
  BY DEF IInv, ThreadInv, HelpCoversRows
<1> QED
  BY <1>1, Invariant, PTL

\* No row that was there is passed over.
THEOREM NothingSkipped == Spec => []NoRowSkipped
<1>1. IInv => NoRowSkipped
  BY DEF IInv, ThreadInv, InQuery, Handed, NoRowSkipped
<1> QED
  BY <1>1, Invariant, PTL

\* Rows of the range, in ascending order, each once.
THEOREM Ordered == Spec => []RowsInOrder
<1>1. ASSUME IInv, NEW c \in Clients, InQuery(c)
      PROVE  LET sent == query[c].out \o batch[c].rows IN
             /\ Ascending(sent)
             /\ Elements(sent) \subseteq Stored \cap (cmd[c].start_id .. cmd[c].end_id)
  <2>1. Handed(c)
    BY <1>1, Own DEF ThreadInv
  <2>2. CASE pc[c] = "batch"
    <3>1. batch[c].rows = <<>>
      BY <1>1, <2>2, Own DEF ThreadInv, NoBatch
    <3>2. /\ Elements(query[c].out \o batch[c].rows) = Elements(query[c].out)
          /\ Ascending(query[c].out \o batch[c].rows)
      <4>1. Elements(batch[c].rows) = {} /\ Ascending(batch[c].rows)
        BY <3>1, EmptySequence
      <4>2. Ascending(query[c].out)
        BY <2>1 DEF Handed
      <4>3. Elements(query[c].out \o batch[c].rows) = Elements(query[c].out)
        <5>1. Elements(query[c].out \o batch[c].rows)
                = Elements(query[c].out) \cup Elements(batch[c].rows)
          BY <1>1, Batches, ElementsConcat
        <5> QED
          BY <4>1, <5>1
      <4>4. Ascending(query[c].out \o batch[c].rows)
        BY <1>1, <4>1, <4>2, Batches, AscendingConcat
      <4> QED
        BY <4>3, <4>4
    <3> QED
      BY <2>1, <3>2 DEF Handed
  <2>3. CASE pc[c] \in {"step", "output"}
    <3>1. Fetched(c)
      BY <1>1, <2>3, Own DEF ThreadInv
    <3> QED
      BY <1>1, <2>1, <3>1, SentSoFar
  <2> QED
    BY <1>1, <2>2, <2>3 DEF InQuery
<1>2. IInv => RowsInOrder
  BY <1>1 DEF RowsInOrder
<1> QED
  BY <1>2, Invariant, PTL

\* Any step of one thread or its peer, but for the end of the process.
StepOf(c) ==
  \/ Connect(c) \/ PeerCloses(c) \/ PeerResets(c) \/ Receive(c) \/ HangUp(c)
  \/ SendWelcome(c) \/ SendOk(c) \/ SendHelp(c) \/ SendBatch(c) \/ SendError(c)
  \/ Work(c)

\* A thread that moves inside the handler does so by a step of its own.
LEMMA OwnStep ==
  ASSUME IInv, Next, NEW d \in Clients, pc'[d] # pc[d], pc'[d] # "gone"
  PROVE  StepOf(d)
<1> USE DEF Goto
<1>1. ASSUME NEW c \in Clients, c # d, StepOf(c) PROVE pc'[d] = pc[d]
  BY <1>1, Functions DEF StepOf, Connect, PeerCloses, PeerResets, Receive, HangUp,
     SendWelcome, SendOk, SendHelp, SendBatch, SendError, Work, Prepare, PrepareFails,
     InsertRow, InsertFails, GetIdRange, ReadFails, Fail, OpenBatch, FetchRow, RowTooLong, BatchReady, QueryEnds
<1>2. ~Die /\ ~Restart
  BY DEF Die, Restart
<1>3. PICK c \in Clients : StepOf(c)
  BY <1>2 DEF Next, Send, StepOf, BrokenPipe, Killed
<1> QED
  BY <1>1, <1>3

\* Only the end of the row loop with an empty batch takes a thread from it to
\* the next command.
LEMMA OnlyQueryEnds ==
  ASSUME IInv, Next, NEW d \in Clients, pc[d] = "step", pc'[d] = "recv"
  PROVE  QueryEnds(d)
<1>1. StepOf(d)
  BY OwnStep
<1>2. ~ \/ Connect(d) \/ PeerCloses(d) \/ PeerResets(d) \/ Receive(d) \/ HangUp(d)
        \/ SendWelcome(d) \/ SendOk(d) \/ SendHelp(d) \/ SendBatch(d) \/ SendError(d)
  BY DEF Connect, PeerCloses, PeerResets, Receive, HangUp, SendWelcome, SendOk,
     SendHelp, SendBatch, SendError
<1>3. Work(d) => QueryEnds(d)
  BY Functions DEF Work, Prepare, PrepareFails, InsertRow, InsertFails, GetIdRange,
     ReadFails, Fail, OpenBatch, FetchRow, RowTooLong, BatchReady, Goto
<1> QED
  BY <1>1, <1>2, <1>3 DEF StepOf

\* A query that ends without ERROR is complete.
THEOREM Complete == Spec => QueryCompletes
<1>1. ASSUME IInv, [Next]_vars, NEW c \in Clients, pc[c] = "step", pc'[c] = "recv",
             NEW i \in Stored, i <= floor[c], cmd[c].start_id <= i, i <= cmd[c].end_id
      PROVE  i \in Elements(query[c].out)
  <2>1. Next
    BY <1>1 DEF vars
  <2>2. QueryEnds(c)
    BY <1>1, <2>1, OnlyQueryEnds
  <2>3. Handed(c) /\ Fetched(c)
    BY <1>1, Own DEF ThreadInv, InQuery
  <2>4. /\ batch[c].cur = query[c].last /\ floor[c] <= batch[c].snap
        /\ \A j \in Selected(c) : j > batch[c].snap
    <3>1. batch[c].rows = <<>> /\ Len(<<>>) # BatchSize
      BY <2>2, GatewayAssumption DEF QueryEnds
    <3> QED
      BY <2>2, <2>3, <3>1 DEF QueryEnds, NoMoreRows, Fetched
  <2>5. CASE i <= query[c].last
    BY <1>1, <2>3, <2>5 DEF Handed
  <2>6. CASE query[c].last < i
    <3>1. i \in Selected(c)
      BY <1>1, <2>4, <2>6 DEF Selected
    <3> QED
      BY <1>1, <2>4, <3>1, Values
  <2> QED
    BY <1>1, <2>5, <2>6, Values
<1>2. IInv /\ [Next]_vars =>
        [\A c \in Clients : (pc[c] = "step" /\ pc'[c] = "recv") =>
           \A i \in Stored :
             (i <= floor[c] /\ cmd[c].start_id <= i /\ i <= cmd[c].end_id)
               => i \in Elements(query[c].out)]_vars
  BY <1>1
<1> QED
  BY <1>2, Invariant, PTL DEF Spec, QueryCompletes

\* Only the delivery of a batch takes a thread from it to the next batch.
LEMMA OnlySendBatch ==
  ASSUME IInv, Next, NEW d \in Clients, pc[d] = "output", pc'[d] = "batch"
  PROVE  /\ query'[d].last = batch[d].cur
         /\ cmd'[d] = cmd[d]
<1>1. StepOf(d)
  BY OwnStep
<1>2. ~ \/ Connect(d) \/ PeerCloses(d) \/ PeerResets(d) \/ Receive(d) \/ HangUp(d)
        \/ SendWelcome(d) \/ SendOk(d) \/ SendHelp(d) \/ SendError(d)
  <2>1. ~(PeerCloses(d) \/ PeerResets(d))
    BY DEF PeerCloses, PeerResets
  <2> QED
    BY <2>1 DEF Connect, Receive, HangUp, SendWelcome, SendOk, SendHelp, SendError
<1>3. ~Work(d)
  <2>1. ~(FetchRow(d) \/ RowTooLong(d) \/ BatchReady(d) \/ QueryEnds(d))
    BY DEF FetchRow, RowTooLong, IsNextRow, BatchReady, QueryEnds, NoMoreRows
  <2>2. ~ \/ Prepare(d) \/ PrepareFails(d) \/ InsertRow(d) \/ InsertFails(d)
          \/ GetIdRange(d) \/ ReadFails(d) \/ OpenBatch(d)
    BY DEF Prepare, PrepareFails, InsertRow, InsertFails, GetIdRange, ReadFails, OpenBatch
  <2> QED
    BY <2>1, <2>2 DEF Work
<1>4. SendBatch(d)
  BY <1>1, <1>2, <1>3 DEF StepOf
<1>5. pc' # [pc EXCEPT ![d] = "error"]
  BY Functions
<1>6. /\ cmd' = cmd
      /\ query' = [query EXCEPT ![d] = [last |-> batch[d].cur, first |-> FALSE,
                                        out |-> query[d].out \o batch[d].rows]]
  BY <1>4, <1>5 DEF SendBatch, Goto
<1> QED
  BY <1>6, Functions

\* The cursor of a query only moves up, within the range.
THEOREM Advances == Spec => CursorAdvances
<1>1. ASSUME IInv, [Next]_vars, NEW c \in Clients, pc[c] = "output", pc'[c] = "batch"
      PROVE  query'[c].last > query[c].last /\ query'[c].last <= cmd[c].end_id
  <2>1. Next
    BY <1>1 DEF vars
  <2>2. query'[c].last = batch[c].cur
    BY <1>1, <2>1, OnlySendBatch
  <2>3. Fetched(c) /\ batch[c].rows # <<>>
    BY <1>1, Own DEF ThreadInv
  <2>4. query[c].last < batch[c].cur /\ batch[c].cur <= cmd[c].end_id
    BY <2>3 DEF Fetched
  <2> QED
    BY <1>1, <2>2, <2>4, Values
<1>2. IInv /\ [Next]_vars =>
        [\A c \in Clients : (pc[c] = "output" /\ pc'[c] = "batch") =>
           /\ query'[c].last > query[c].last
           /\ query'[c].last <= cmd[c].end_id]_vars
  BY <1>1
<1> QED
  BY <1>2, Invariant, PTL DEF Spec, CursorAdvances
=============================================================================
