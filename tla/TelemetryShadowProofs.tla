------------------------ MODULE TelemetryShadowProofs ------------------------
(***************************************************************************)
(* The telemetry table, for every number of installs, triggers, days and   *)
(* concurrent uploads.                                                     *)
(***************************************************************************)
EXTENDS TelemetryShadow, TLAPS

RowsOK == \A r \in rows :
    /\ LowerCase[r.key.hash] = r.key.hash
    /\ r.key.date = r.createdAt \div DayLength
    /\ \A s \in rows : r.key = s.key => r = s

RecordsNormal == \A w \in Workers :
    req[w].busy => LowerCase[req[w].record.hash] = req[w].record.hash

AckedStored == \A key \in acked : \E r \in rows : r.key = key

IInv ==
    /\ TypeOK
    /\ RowsOK
    /\ RecordsNormal
    /\ AckedStored

LEMMA DateType == ASSUME NEW t \in Nat PROVE t \div DayLength \in Nat
BY TelemetryAssumption

LEMMA IInvInit == Init => IInv
BY TelemetryAssumption
   DEF Init, IInv, TypeOK, RowsOK, RecordsNormal, AckedStored, Request, Record, Row, Key

LEMMA ValidateStep ==
    ASSUME IInv, NEW w \in Workers, NEW h \in Hashes, NEW t \in Triggers, Validate(w, h, t)
    PROVE  IInv'
<1> DEFINE r == [busy |-> TRUE,
                 record |-> [hash |-> Normalized(h), trigger |-> t, createdAt |-> clock]]
<1>1. /\ r \in Request /\ LowerCase[r.record.hash] = r.record.hash
      /\ req' = [req EXCEPT ![w] = r]
  BY TelemetryAssumption DEF Normalized, Validate, Request, Record, IInv, TypeOK
<1> HIDE DEF r
<1>2. /\ req' \in [Workers -> Request] /\ req'[w] = r
      /\ \A v \in Workers \ {w} : req'[v] = req[v]
  BY <1>1 DEF IInv, TypeOK
<1> QED BY <1>1, <1>2 DEF Validate, IInv, TypeOK, RowsOK, RecordsNormal, AckedStored

\* Insert and Fail: the request ends.
LEMMA EndOfRequest ==
    ASSUME IInv, NEW w \in Workers, req' = [req EXCEPT ![w].busy = FALSE]
    PROVE  /\ req' \in [Workers -> Request]
           /\ RecordsNormal'
<1> DEFINE r == [req[w] EXCEPT !.busy = FALSE]
<1>1. r \in Request /\ ~r.busy /\ req' = [req EXCEPT ![w] = r]
  BY DEF Request, IInv, TypeOK
<1> HIDE DEF r
<1>2. /\ req' \in [Workers -> Request] /\ req'[w] = r
      /\ \A v \in Workers \ {w} : req'[v] = req[v]
  BY <1>1 DEF IInv, TypeOK
<1> QED BY <1>1, <1>2 DEF IInv, RecordsNormal

LEMMA InsertStep ==
    ASSUME IInv, NEW w \in Workers, Insert(w)
    PROVE  IInv'
<1> DEFINE r == req[w].record
           key == KeyOf(r)
           new == [key |-> key, createdAt |-> r.createdAt]
<1>1. /\ r \in Record /\ LowerCase[r.hash] = r.hash
  BY DEF IInv, TypeOK, Request, RecordsNormal, Insert
<1>2. /\ key \in Key /\ LowerCase[key.hash] = key.hash
      /\ key.date = r.createdAt \div DayLength
  BY <1>1, DateType DEF KeyOf, Record, Key
<1>3. /\ rows' = {row \in rows : row.key # key} \cup {new}
      /\ acked' \subseteq acked \cup {key}
      /\ req' = [req EXCEPT ![w].busy = FALSE]
      /\ clock' = clock
  BY DEF Insert, Replaced
<1> HIDE DEF key
<1>4. /\ new \in Row /\ new.key = key /\ new.createdAt = r.createdAt
  BY <1>1, <1>2 DEF Row, Record
<1> HIDE DEF new, r
<1>5. TypeOK'
  BY <1>2, <1>3, <1>4, EndOfRequest DEF IInv, TypeOK
<1>6. RowsOK'
  BY <1>2, <1>3, <1>4 DEF IInv, RowsOK
<1>7. AckedStored'
  <2> SUFFICES ASSUME NEW k \in acked' PROVE \E row \in rows' : row.key = k
    BY DEF AckedStored
  <2>1. CASE k = key
    BY <1>3, <1>4, <2>1
  <2>2. CASE k # key
    BY <1>3, <2>2 DEF IInv, AckedStored
  <2> QED BY <2>1, <2>2
<1> QED BY <1>3, <1>5, <1>6, <1>7, EndOfRequest DEF IInv

LEMMA IInvNext == IInv /\ [Next]_vars => IInv'
<1> SUFFICES ASSUME IInv, [Next]_vars PROVE IInv'
  OBVIOUS
<1>1. CASE Tick \/ UNCHANGED vars
  BY <1>1 DEF Tick, vars, IInv, TypeOK, RowsOK, RecordsNormal, AckedStored
<1>2. ASSUME NEW w \in Workers, Fail(w) PROVE IInv'
  BY <1>2, EndOfRequest DEF Fail, IInv, TypeOK, RowsOK, AckedStored
<1> QED BY <1>1, <1>2, ValidateStep, InsertStep DEF Next

LEMMA Invariance == Spec => []IInv
BY IInvInit, IInvNext, PTL DEF Spec

\* Every variable of the telemetry worker keeps its type.
THEOREM TelemetryTypeCorrect == Spec => []TypeOK
BY Invariance, PTL DEF IInv

\* insertTelemetry under the UNIQUE constraint: the table holds one row per
\* install, day and trigger, however many workers store reports of one install
\* at once and however its hash is spelled.
THEOREM OneRowCorrect == Spec => []OneRowPerDay
<1>1. IInv => OneRowPerDay
  <2> SUFFICES ASSUME IInv, NEW r \in rows, NEW s \in rows,
                      LowerCase[r.key.hash] = LowerCase[s.key.hash],
                      r.key.date = s.key.date, r.key.trigger = s.key.trigger
               PROVE  r = s
    BY DEF OneRowPerDay
  <2>1. r.key \in Key /\ s.key \in Key /\ r.key.hash = s.key.hash
    BY DEF IInv, TypeOK, Row, RowsOK
  <2>2. r.key = s.key
    BY <2>1 DEF Key
  <2> QED BY <2>2 DEF IInv, RowsOK
<1> QED BY <1>1, Invariance, PTL

\* The day of a report is fixed when its stamp is taken: no acknowledged report
\* is lost from its day, whatever is replaced, fails or is stored meanwhile.
THEOREM AcknowledgedCorrect == Spec => []AcknowledgedKept
<1>1. IInv => AcknowledgedKept
  BY DEF IInv, AckedStored, RowsOK, AcknowledgedKept
<1> QED BY <1>1, Invariance, PTL
=============================================================================
