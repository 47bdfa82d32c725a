------------------------- MODULE UnsetInterfaceMac -------------------------
(***************************************************************************)
(* nbsync unset-interface-mac deletes the MAC records that sit on the      *)
(* interface it is given, or on none.  With all its lines on the command   *)
(* line, all are planned before the first record is deleted; from stdin    *)
(* each is planned and done by itself.                                     *)
(*                                                                         *)
(* As the end of a pipeline it is given what duplicate-macs                *)
(* --limit=unassigned prints, for "the records that are not assigned":     *)
(*                                                                         *)
(*   nblint --porcelain duplicate-macs --limit=unassigned |                *)
(*     nbsync --batch unset-interface-mac : -                              *)
(*                                                                         *)
(* Others may add, move and delete records meanwhile.  Who looks an        *)
(* interface up, and when, makes no difference: interfaces stay.           *)
(***************************************************************************)
EXTENDS DuplicateMacs, Sequences, SequencesExt

CONSTANTS
    Ids,            \* bound: ids of MAC records, handed out in order
    Unknown,        \* a target that names no interface
    Situations      \* [recs, cmd]: a NetBox, and what is called there

Places == Interfaces \cup {Unassigned}
Record == [mac : Macs, on : Places]

\* A target that is a DEV:IFACE is looked up among the interfaces of devices.
Targets == {i \in Interfaces : i.table = "dcim"} \cup {Unassigned, Unknown}

IsCommand(c) ==
    /\ {c.pipe, c.stream, c.keepGoing} \subseteq BOOLEAN
    /\ c.lines \in Seq([target : Targets, mac : Macs])
    /\ c.pipe => c.stream /\ c.lines = << >>
    /\ c.maxEdits \in Nat

ASSUME SituationsAssumption ==
    /\ IsFiniteSet(Macs) /\ IsFiniteSet(Ids)
    /\ Unknown \notin Places
    /\ \A s \in Situations :
           /\ DOMAIN s.recs \subseteq Ids
           /\ s.recs \in [DOMAIN s.recs -> Record]
           /\ IsCommand(s.cmd)

VARIABLES
    recs,       \* the MAC records NetBox holds
    cmd,        \* pipe, stream, keepGoing, the lines given, and the bound maxEdits
    pc,         \* "lint", "ready", "doing", or how the run ended
    lines,      \* [target, mac] lines that are not planned yet
    works,      \* <<number of the line, id>> of the records to delete next
    edits,      \* number of changes by others
    first,      \* the records when the command was given
    been,       \* been[r]: what record r has been on since then
    deleted     \* the records this run has deleted

vars == <<recs, cmd, pc, lines, works, edits, first, been, deleted>>

Init ==
    /\ \E situation \in Situations : recs = situation.recs /\ cmd = situation.cmd
    /\ pc = IF cmd.pipe THEN "lint" ELSE "ready"
    /\ lines = cmd.lines
    /\ works = {}
    /\ edits = 0
    /\ first = recs
    /\ been = [r \in Ids |-> IF r \in DOMAIN recs THEN {recs[r].on} ELSE {}]
    /\ deleted = {}

\* Mutant: a line for each of the loose records.
LinePerRecord ==
    LET loose == {r \in DOMAIN recs : recs[r].mac \in Findings(recs, TRUE, FALSE)
                                      /\ recs[r].on = Unassigned}
        order == SetToSeq(loose)
    IN  [k \in DOMAIN order |-> [target |-> Unassigned, mac |-> recs[order[k]].mac]]

\* nblint prints its findings once it has read everything.
Printed == SetToSeq([target : {Unassigned}, mac : Findings(recs, TRUE, FALSE)])

Lint ==
    /\ pc = "lint"
    /\ lines' = Printed
    /\ pc' = "ready"
    /\ UNCHANGED <<recs, cmd, works, edits, first, been, deleted>>

-----------------------------------------------------------------------------
\* plan_one().

\* Mutant: the type of the interface is not compared.
SameId(record, target) ==
    IF target = Unassigned THEN record.on = Unassigned
    ELSE record.on # Unassigned /\ record.on.id = target.id

\* _sits_on()
SitsOn(record, target) ==
    IF target = Unassigned THEN record.on = Unassigned
    ELSE /\ record.on # Unassigned
         /\ record.on.id = target.id
         /\ record.on.table = "dcim"

PlanFails(line) == line.target = Unknown \/ Copies(recs, line.mac) = {}

\* Mutant: the first record alone.
FirstOnly(line) == {r \in {Min(Copies(recs, line.mac))} : SitsOn(recs[r], line.target)}

\* In no order of ours: that of the list is NetBox's.
Planned(line) == {r \in Copies(recs, line.mac) : SitsOn(recs[r], line.target)}

\* SyncCommand.plan(): all the lines, and then the works.
PlanAll ==
    /\ pc = "ready" /\ ~cmd.stream
    /\ IF \E k \in DOMAIN lines : PlanFails(lines[k])
       THEN pc' = "failed" /\ UNCHANGED <<lines, works>>
       ELSE /\ works' = UNION {{k} \X Planned(lines[k]) : k \in DOMAIN lines}
            /\ lines' = << >>
            /\ pc' = "doing"
    /\ UNCHANGED <<recs, cmd, edits, first, been, deleted>>

\* SyncCommand._do_item(): one line, and its works before the next is read.
PlanNext ==
    /\ pc = "ready" /\ cmd.stream /\ lines # << >>
    /\ IF ~PlanFails(Head(lines))
       THEN pc' = "doing" /\ works' = {1} \X Planned(Head(lines)) /\ lines' = Tail(lines)
       ELSE /\ IF cmd.keepGoing
               THEN lines' = Tail(lines) /\ UNCHANGED pc
               ELSE pc' = "failed" /\ UNCHANGED lines
            /\ UNCHANGED works
    /\ UNCHANGED <<recs, cmd, edits, first, been, deleted>>

-----------------------------------------------------------------------------
\* The works.

IsNext(w) == pc = "doing" /\ \A other \in works : w[1] <= other[1]

Delete(w) ==
    /\ IsNext(w) /\ w[2] \in DOMAIN recs
    /\ recs' = [r \in DOMAIN recs \ {w[2]} |-> recs[r]]
    /\ works' = works \ {w}
    /\ deleted' = deleted \cup {w[2]}
    /\ UNCHANGED <<cmd, pc, lines, edits, first, been>>

\* A 404 is an ApiError, which ends the run, --keep-going or not.
Refused(w) ==
    /\ IsNext(w) /\ w[2] \notin DOMAIN recs
    /\ pc' = "refused"
    /\ UNCHANGED <<recs, cmd, lines, works, edits, first, been, deleted>>

LineDone ==
    /\ pc = "doing" /\ works = {} /\ lines # << >>
    /\ pc' = "ready"
    /\ UNCHANGED <<recs, cmd, lines, works, edits, first, been, deleted>>

Finish ==
    /\ pc \in {"ready", "doing"} /\ works = {} /\ lines = << >>
    /\ pc' = "done"
    /\ UNCHANGED <<recs, cmd, lines, works, edits, first, been, deleted>>

-----------------------------------------------------------------------------
\* Around the run.

Busy == pc \in {"lint", "ready", "doing"} /\ edits < cmd.maxEdits

SomeoneMoves(r, place) ==
    /\ Busy /\ r \in DOMAIN recs /\ recs[r].on # place
    /\ recs' = [recs EXCEPT ![r].on = place]
    /\ been' = [been EXCEPT ![r] = @ \cup {place}]
    /\ edits' = edits + 1
    /\ UNCHANGED <<cmd, pc, lines, works, first, deleted>>

SomeoneAdds(r, record) ==
    /\ Busy /\ r \notin DOMAIN first /\ been[r] = {}
    /\ recs' = [s \in DOMAIN recs \cup {r} |-> IF s = r THEN record ELSE recs[s]]
    /\ been' = [been EXCEPT ![r] = {record.on}]
    /\ edits' = edits + 1
    /\ UNCHANGED <<cmd, pc, lines, works, first, deleted>>

SomeoneDeletes(r) ==
    /\ Busy /\ r \in DOMAIN recs
    /\ recs' = [s \in DOMAIN recs \ {r} |-> recs[s]]
    /\ edits' = edits + 1
    /\ UNCHANGED <<cmd, pc, lines, works, first, been, deleted>>

Next ==
    \/ Lint
    \/ PlanAll
    \/ PlanNext
    \/ \E w \in works : Delete(w) \/ Refused(w)
    \/ LineDone
    \/ Finish
    \/ \E r \in Ids : \/ \E place \in Places : SomeoneMoves(r, place)
                      \/ \E record \in Record : SomeoneAdds(r, record)
                      \/ SomeoneDeletes(r)

Spec == Init /\ [][Next]_vars

-----------------------------------------------------------------------------
\* Properties.

\* What the run was asked for: its lines, or in a pipeline the MACs of which
\* there is more than one copy, and the records that are on no interface.
Asked(mac, place) ==
    IF cmd.pipe THEN place = Unassigned /\ mac \notin NOT_REAL_MACS
    ELSE \E k \in DOMAIN cmd.lines : cmd.lines[k] = [target |-> place, mac |-> mac]

\* "leaving the assigned copies alone": while others move, add and delete records,
\* one that at no time since the command was given was where the command looks is
\* not deleted, and neither is one of another MAC.
OnlyWhatWasAsked ==
    \A r \in deleted \cap DOMAIN first :
        \E place \in been[r] : Asked(first[r].mac, place)

\* When the run succeeds, what has been where it looks all the time is gone.
SuccessMeansGone ==
    pc = "done" /\ ~cmd.pipe =>
        \A r \in DOMAIN first \cap DOMAIN recs :
            ~\E place \in Places : been[r] = {place} /\ Asked(first[r].mac, place)

\* The pipeline deletes each loose copy, and no MAC that has an assigned copy is
\* lost: the lint finds nothing when it is run again, if nobody else is at it.
\* It ends well: the lint names each MAC once, and no record is planned for twice.
PipelineCleansUp ==
    cmd.pipe /\ cmd.maxEdits = 0 =>
        /\ pc \notin {"failed", "refused"}
        /\ pc = "done" =>
               /\ Findings(recs, TRUE, FALSE) = {}
               /\ \A mac \in Macs : Assigned(recs, mac) = Assigned(first, mac)

\* What duplicate-macs leaves out, without --all, is no mistake: the records are
\* on interfaces of their own on one machine, or each on one that is named after
\* the MAC.  What it counts as "+N sub" of a port that it lists is a subinterface
\* of that port, or of one that has no record and another subinterface listed.
NothingWrongIsExplained ==
    \A mac \in Duplicates(recs) :
        /\ IsExplained(recs, mac) =>
               \A r, s \in Copies(recs, mac) :
                   \/ recs[r].on # Unassigned /\ recs[r].on.named = mac
                   \/ r # s => /\ recs[r].on # recs[s].on
                               /\ recs[r].on.machine = recs[s].on.machine
        /\ \A r \in Assigned(recs, mac) \ Listed(recs, mac) :
               /\ recs[r].on.sub
               /\ \E s \in Listed(recs, mac) :
                      /\ recs[s].on.machine = recs[r].on.machine
                      /\ recs[s].on.base = recs[r].on.base
=============================================================================
