----------------------------- MODULE SpaceReader -----------------------------
(***************************************************************************)
(* Readers of a space beside the uploads of SpaceService.  A plan is one   *)
(* query and hands out a ticket that names a revision and a hash; a        *)
(* download checks the ticket against a second query and, when the payload *)
(* is in R2, then fetches the object.  Nothing locks the space: revisions  *)
(* may be published, and slots rewritten, between any two of these calls.  *)
(***************************************************************************)
EXTENDS SpaceService

CONSTANTS
    Readers,
    TicketTtl       \* 5 minutes, in clock units

ASSUME ReaderAssumption == TicketTtl \in Nat

VARIABLE reader     \* what each reader holds and was answered

readerVars == <<vars, reader>>

Answers == {"none", "body", "expired", "stale", "error", "unavailable"}

(***************************************************************************)
(* a, revision, hash, expires: the ticket.  epoch, slot, etag: what the    *)
(* download has read of the space and the asset; answer, body: its reply.  *)
(***************************************************************************)
Reader ==
    [pc : {"idle", "ticket", "get"}, a : Assets \cup {None},
     revision : UploadOrNone, hash : BlobOrNone, expires : Nat,
     epoch : Nat, slot : Slots, etag : UploadOrNone,
     answer : Answers, body : BlobOrNone]

NoTicket ==
    [pc |-> "idle", a |-> None, revision |-> None, hash |-> None, expires |-> 0,
     epoch |-> 0, slot |-> "a", etag |-> None, answer |-> "none", body |-> None]

ReaderTypeOK == TypeOK /\ reader \in [Readers -> Reader]

ReaderInit == Init /\ reader = [r \in Readers |-> NoTicket]

Becomes(r, record) == reader' = [reader EXCEPT ![r] = record]
Answer(r, answer, body) ==
    Becomes(r, [reader[r] EXCEPT !.pc = "ticket", !.epoch = 0, !.slot = "a",
                                 !.etag = None, !.answer = answer, !.body = body])

\* The space's row is joined with one of the asset.
InSnapshot(a) == asset[a].hash # None

\* One query over the space and its assets; every asset of it has a ticket.
PlanSpace(r, a) ==
    /\ reader[r].pc # "get"
    /\ InSnapshot(a)
    /\ Becomes(r, [NoTicket EXCEPT
                     !.pc = "ticket", !.a = a, !.revision = space.revision,
                     !.hash = asset[a].hash, !.expires = clock + TicketTtl])
    /\ UNCHANGED vars

\* The columns of the published R2 slot agree with those of the asset.
ActiveSlotConsistent(row) == SlotMatchesObject(row, row.slot, row.hash)

TicketCurrent(t) ==
    /\ InSnapshot(t.a)
    /\ t.revision = space.revision
    /\ t.hash = asset[t.a].hash

\* The ticket may be used again while it is valid.
Download(r) ==
    /\ reader[r].pc = "ticket"
    /\ LET t == reader[r]
           row == asset[t.a]
       IN  \/ t.expires <= clock /\ Answer(r, "expired", None)
           \/ /\ t.expires > clock
              /\ \/ ~TicketCurrent(t) /\ Answer(r, "stale", None)
                 \/ /\ TicketCurrent(t) /\ row.backend = "d1"
                    /\ Answer(r, IF row.d1 = None THEN "error" ELSE "body", row.d1)
                 \/ /\ TicketCurrent(t) /\ row.backend = "r2"
                    /\ IF ActiveSlotConsistent(row)
                       THEN Becomes(r, [t EXCEPT
                                          !.pc = "get", !.epoch = space.epoch,
                                          !.slot = row.slot, !.etag = row.etag[row.slot],
                                          !.answer = "none", !.body = None])
                       ELSE Answer(r, "error", None)
    /\ UNCHANGED vars

\* Faulty variant: whatever is stored under the key is returned.
AnyObject(t) == object[t.a][t.slot] # NoObject

\* R2 returns the object only if its etag is the recorded one, and the
\* service compares size and sha256 before it answers with the body.
TicketObject(t) ==
    LET o == object[t.a][t.slot]
    IN  /\ o # NoObject
        /\ t.etag # None => o.u = t.etag
        /\ o.blob = t.hash

GetObject(r) ==
    /\ reader[r].pc = "get"
    /\ LET t == reader[r]
       IN  \/ TicketObject(t) /\ Answer(r, "body", object[t.a][t.slot].blob)
           \/ ~TicketObject(t) /\ Answer(r, "stale", None)
           \/ Answer(r, "unavailable", None)
    /\ UNCHANGED vars

Read(r) == (\E a \in Assets : PlanSpace(r, a)) \/ Download(r) \/ GetObject(r)

ReaderNext ==
    \/ Next /\ UNCHANGED reader
    \/ \E r \in Readers : Read(r)

ReaderSpec == ReaderInit /\ [][ReaderNext]_readerVars

-----------------------------------------------------------------------------
(* Properties *)

\* Whatever is published while a reader holds a ticket, the bytes it is given
\* are those whose hash the ticket announced, or it is given none.
DownloadMatchesTicket ==
    \A r \in Readers : reader[r].answer = "body" => reader[r].body = reader[r].hash

\* A published deletion of the asset is the only thing that may take the
\* object of a slot away (see PublishedObjectInv).
DeletionPublished(a) == \E u \in Uploads : del[u][a] \in {"committed", "deleted"}

\* The two slots keep a download in progress alive: its object is still there
\* after the next revision has been published, and until the commit of the one
\* after that begins to write.
DownloadSurvivesPublish ==
    \A r \in Readers :
      LET t == reader[r]
      IN  /\ t.pc = "get"
          /\ ~DeletionPublished(t.a)
          /\ \/ space.epoch = t.epoch
             \/ /\ space.epoch = t.epoch + 1
                /\ \A u \in Uploads : batch[u].state # "committing"
          => TicketObject(t)

\* A client is told that its ticket is stale only when the revision has moved
\* on or the asset has been deleted; asking for a new plan then helps.
StaleOnlyAfterPublish ==
    [][\A r \in Readers :
         reader[r].answer # "stale" /\ reader'[r].answer = "stale" =>
           space.revision # reader[r].revision \/ DeletionPublished(reader[r].a)]_readerVars
=============================================================================
