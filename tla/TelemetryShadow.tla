--------------------------- MODULE TelemetryShadow ---------------------------
(***************************************************************************)
(* The telemetry worker: POST /v1/telemetry/sync-shadow and the table      *)
(* telemetry_shadow.  A report is validated and stamped with the time in   *)
(* one step and stored in another; its answer may be lost, and a client    *)
(* that got no answer may report again.                                    *)
(***************************************************************************)
EXTENDS Integers

CONSTANTS
    Hashes,         \* install id hashes as clients spell them
    LowerCase,      \* [Hashes -> Hashes]: toLowerCase
    Triggers,
    Workers,        \* concurrent uploads
    DayLength,      \* clock units in a UTC day
    MaxTime         \* bound of the clock

ASSUME TelemetryAssumption ==
    /\ LowerCase \in [Hashes -> Hashes]
    /\ \A h \in Hashes : LowerCase[LowerCase[h]] = LowerCase[h]
    /\ DayLength \in Nat \ {0} /\ MaxTime \in Nat

VARIABLES
    clock,
    rows,           \* telemetry_shadow
    req,            \* the upload each worker is storing
    acked           \* keys of the uploads answered 201

vars == <<clock, rows, req, acked>>

Key == [hash : Hashes, date : Nat, trigger : Triggers]
Row == [key : Key, createdAt : Nat]
Record == [hash : Hashes, trigger : Triggers, createdAt : Nat]
Request == [busy : BOOLEAN, record : Record]

TypeOK ==
    /\ clock \in Nat
    /\ rows \subseteq Row
    /\ req \in [Workers -> Request]
    /\ acked \subseteq Key

Init ==
    /\ clock = 0
    /\ rows = {}
    /\ \E h \in Hashes, t \in Triggers :
         req = [w \in Workers |->
                  [busy |-> FALSE, record |-> [hash |-> h, trigger |-> t, createdAt |-> 0]]]
    /\ acked = {}

Tick ==
    /\ clock < MaxTime
    /\ clock' = clock + 1
    /\ UNCHANGED <<rows, req, acked>>

\* Faulty variant: the hash is stored as it was sent.
NormalizedAsSent(h) == h
Normalized(h) == LowerCase[h]

\* validateTelemetryV1; a report that it refuses changes nothing.
Validate(w, h, t) ==
    /\ ~req[w].busy
    /\ req' = [req EXCEPT ![w] =
                 [busy |-> TRUE,
                  record |-> [hash |-> Normalized(h), trigger |-> t, createdAt |-> clock]]]
    /\ UNCHANGED <<clock, rows, acked>>

\* Faulty variant: the date is the INSERT's.
KeyOfWrite(r) == [hash |-> r.hash, date |-> clock \div DayLength, trigger |-> r.trigger]
\* createdAt.slice(0, 10) is the date.
KeyOf(r) == [hash |-> r.hash, date |-> r.createdAt \div DayLength, trigger |-> r.trigger]

\* INSERT OR REPLACE under UNIQUE (install_id_hash, created_date, trigger)
Replaced(key, at) ==
    {row \in rows : row.key # key} \cup {[key |-> key, createdAt |-> at]}

\* insertTelemetry and the answer, which may be lost.
Insert(w) ==
    /\ req[w].busy
    /\ LET key == KeyOf(req[w].record)
       IN  /\ rows' = Replaced(key, req[w].record.createdAt)
           /\ acked' = acked \cup {key} \/ UNCHANGED acked
    /\ req' = [req EXCEPT ![w].busy = FALSE]
    /\ UNCHANGED clock

\* The INSERT fails, which is answered 500, or the worker disappears.
Fail(w) ==
    /\ req[w].busy
    /\ req' = [req EXCEPT ![w].busy = FALSE]
    /\ UNCHANGED <<clock, rows, acked>>

Next ==
    \/ Tick
    \/ \E w \in Workers :
         \/ \E h \in Hashes, t \in Triggers : Validate(w, h, t)
         \/ Insert(w)
         \/ Fail(w)

Spec == Init /\ [][Next]_vars

-----------------------------------------------------------------------------
(* Properties *)

\* One install has one row per day and trigger, however often it reports and
\* however its hash is spelled.
OneRowPerDay ==
    \A r, s \in rows :
      /\ LowerCase[r.key.hash] = LowerCase[s.key.hash]
      /\ r.key.date = s.key.date
      /\ r.key.trigger = s.key.trigger
      => r = s

\* A report that was acknowledged is in the table under its own day, or
\* another of the same day is, even when midnight passes between the stamp
\* and the INSERT and whatever is uploaded meanwhile.
AcknowledgedKept ==
    /\ \A key \in acked : \E r \in rows : r.key = key
    /\ \A r \in rows : r.key.date = r.createdAt \div DayLength
==============================================================================
