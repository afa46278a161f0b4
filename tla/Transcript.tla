------------------------------ MODULE Transcript ------------------------------
(* The transcript of one node of the conversation tree: the items of the node as
   the server assembles them from its rows and from the events of a running turn
   (core/transcript.py), the patches it sends to every page that follows the turn
   (api/routes/runs.py), and the page that applies them or asks for a snapshot
   (frontend utils/transcriptItems.ts, pages/MainPage.tsx).

   The server keeps per node ONE revision counter and ONE baseline of what it has
   sent, shared by all the pages.  A patch is the difference between the items and
   that baseline; a page applies a patch only when its revision is the next one,
   ignores an older one and asks for a snapshot when it sees a gap.

   The events of a run are kept as kinds: "text", "call" (a committed tool call),
   "usage", "stopping", "done" (the turn's last chunk) and "finished".  What an
   item shows is the set of the events it stands for; the order of the items, the
   approval, plan and notification items and the wording are left out. *)
EXTENDS Integers, Sequences, FiniteSets, FiniteSetsExt

CONSTANTS
    Pages,        \* the browser pages that show the node
    MaxRuns,      \* a bound: the turn and its automatic continuations
    Kinds,        \* the kinds of events a turn emits before its end
    MaxEvents,    \* a bound: how many of them a run emits
    MaxWire,      \* a bound: the patches under way to one page
    MaxAsked,     \* a bound: the snapshots one page asks for
    MaxBumps,     \* a bound: the revisions taken by other requests
    Faults        \* what may happen: a subset of FaultKinds

(* "tab": a second page follows the turn; "late": the answer of a snapshot is
   overtaken by a patch; "lost": a page loses its connection; "ahead": a
   snapshot differs from the baseline the patches are made against; "restart":
   the server restarts. *)

ASSUME TranscriptAssumption ==
    /\ MaxRuns \in Nat
    /\ Kinds \subseteq {"text", "call", "usage"}

VARIABLES
    log,        \* log[r]: the kinds of the events of run r
    status,     \* status[r]: the run's row
    kept,       \* kept[r]: the events whose blocks and answer the turn has saved
    revision,   \* the node's revision counter, in memory
    emitted,    \* the node's baseline, in memory
    page,       \* page[p]: what p shows, its revision, when that was computed
    session,    \* session[p]: the stream that serves p
    wire,       \* wire[p]: the patches under way to p
    asked,      \* asked[p]: the request for a snapshot and its answer
    wants,      \* wants[p]: a calibration is scheduled
    clock,      \* the number of changes of the rows and the events so far
    count,      \* the bounded actions taken so far
    faults      \* the fault kinds that happened

serverVars == <<log, status, kept>>
nodeVars == <<revision, emitted>>
pageVars == <<page, session, wire, asked, wants>>
transcriptVars == <<serverVars, nodeVars, pageVars, clock, count, faults>>

Runs == 1..MaxRuns
Active == {"running", "stopping"}
Final == {"completed", "failed", "cancelled", "interrupted"}
NoRun == [run |-> 0]
NoSession == [run |-> 0, fed |-> 0, at |-> "none"]

-----------------------------------------------------------------------------
(* The stream state of a run, rebuilt from the events fed so far. *)

Positions(r, kinds, n) == {i \in 1..n : log[r][i] \in kinds}

\* A run's row status as the transcript words it.
Worded(s) ==
    CASE s = "completed" -> "complete"
      [] s = "failed" -> "error"
      [] s \in {"cancelled", "interrupted"} -> "stopped"
      [] OTHER -> s

\* The last event that carries a status decides.
StreamStatus(r, n) ==
    LET marks == Positions(r, {"stopping", "done", "finished"}, n)
    IN  IF marks = {} THEN "running"
        ELSE CASE log[r][Max(marks)] = "stopping" -> "stopping"
               [] log[r][Max(marks)] = "done" -> "finalizing"
               [] OTHER -> Worded(status[r])

\* The text after the last call is a block while the turn runs, its answer later.
LastCall(r, n) == Max(Positions(r, {"call"}, n) \cup {0})

Stream(r, n) ==
    LET s == StreamStatus(r, n)
        said == Positions(r, {"text", "call"}, n)
        tail == IF s = "running" THEN {} ELSE {i \in said : i > LastCall(r, n)}
    IN  [run |-> r, status |-> s, blocks |-> said \ tail, answer |-> tail,
         usage |-> Positions(r, {"usage"}, n) # {}, named |-> TRUE]

\* A page that attaches to a finished run is served one event made up from its row.
FinishedStream(r) ==
    [run |-> r, status |-> Worded(status[r]), blocks |-> {}, answer |-> {},
     usage |-> FALSE, named |-> FALSE]

-----------------------------------------------------------------------------
(* The items of the node. *)

Started == {r \in Runs : status[r] # "none"}
Latest == Max(Started)

Live(s) == s # NoRun /\ s.status \in {"running", "stopping", "finalizing", "stopped", "error"}

\* The saved blocks of the streamed run give way to the live ones; its saved calls stay.
Blocks(r, s) ==
    IF Live(s) /\ s.run = r
    THEN s.blocks \cup {i \in kept[r].blocks : log[r][i] = "call"}
    ELSE kept[r].blocks

RawStatus(s) == IF s # NoRun THEN s.status ELSE Worded(status[Latest])

ProcessStatus(word) ==
    CASE word \in {"running", "complete", "stopped", "error"} -> word
      [] word = "stopping" -> "stopped"
      [] OTHER -> "complete"

ProcessStatusFor(r, s) ==
    ProcessStatus(IF s # NoRun /\ s.run = r THEN s.status ELSE Worded(status[r]))

AnswerStatus(word) ==
    IF ProcessStatus(word) \in {"stopped", "error"} THEN ProcessStatus(word) ELSE "complete"

\* A saved answer is folded into the one of the continuation that follows it.
VisibleAnswers ==
    {r \in Started : kept[r].answer # {} /\ \A q \in Started : q > r => kept[q].answer = {}}

ProcessItems(s) ==
    LET shown == {r \in Started : Blocks(r, s) # {}}
        place(r) == Cardinality({q \in shown : q < r})
    IN  {[id |-> <<"process", place(r)>>, status |-> ProcessStatusFor(r, s),
          of |-> {r} \X Blocks(r, s)] : r \in shown}

StatusItems(s) ==
    IF \/ s # NoRun /\ RawStatus(s) \in {"stopping", "stopped", "error"}
       \/ RawStatus(s) = "error"
       \/ s # NoRun /\ s.usage /\ RawStatus(s) = "running"
    THEN {[id |-> <<"status", IF s # NoRun THEN s.run ELSE Latest>>,
           status |-> RawStatus(s), of |-> {}]}
    ELSE {}

AnswerItems(s) ==
    LET saved == {[id |-> <<"answer", r>>, status |-> AnswerStatus(Worded(status[r])),
                   of |-> UNION {{q} \X kept[q].answer : q \in 1..r}] : r \in VisibleAnswers}
        live == IF /\ s # NoRun
                   /\ s.status # "stopping"
                   /\ s.named /\ s.answer # {}
                   /\ s.run \notin VisibleAnswers
                THEN {[id |-> <<"answer", s.run>>, status |-> AnswerStatus(s.status),
                       of |-> {s.run} \X s.answer]}
                ELSE {}
    IN  saved \cup live

Items(s) == ProcessItems(s) \cup StatusItems(s) \cup AnswerItems(s)

Ids(items) == {i.id : i \in items}

\* The snapshot route streams the active run, if there is one, from its whole log.
Snapshot ==
    IF Started = {} THEN {}
    ELSE IF status[Latest] \in Active THEN Items(Stream(Latest, Len(log[Latest])))
    ELSE Items(NoRun)

-----------------------------------------------------------------------------
(* The turn. *)

Changed == clock' = clock + 1

Happens(kinds) == kinds \subseteq Faults /\ faults' = faults \cup kinds

StartRun(r) ==
    /\ status[r] = "none"
    /\ r > 1 => status[r - 1] = "failed"
    /\ status' = [status EXCEPT ![r] = "running"]
    /\ Changed
    /\ UNCHANGED <<log, kept, nodeVars, pageVars, count, faults>>

Say(r) ==
    /\ status[r] \in Active /\ ~ kept[r].done
    /\ Len(log[r]) < MaxEvents
    /\ \E kind \in Kinds : log' = [log EXCEPT ![r] = Append(@, kind)]
    /\ Changed
    /\ UNCHANGED <<status, kept, nodeVars, pageVars, count, faults>>

AskStop(r) ==
    /\ status[r] = "running"
    /\ status' = [status EXCEPT ![r] = "stopping"]
    /\ log' = [log EXCEPT ![r] = Append(@, "stopping")]
    /\ Changed
    /\ UNCHANGED <<kept, nodeVars, pageVars, count, faults>>

\* The end of a turn saves its rounds and its answer.
Saved(r) ==
    LET said == Positions(r, {"text", "call"}, Len(log[r]))
        cut == LastCall(r, Len(log[r]))
    IN  [blocks |-> {i \in said : i =< cut}, answer |-> {i \in said : i > cut}, done |-> TRUE]

Persist(r) ==
    /\ status[r] \in Active /\ ~ kept[r].done
    /\ kept' = [kept EXCEPT ![r] = Saved(r)]
    /\ Changed
    /\ UNCHANGED <<log, status, nodeVars, pageVars, count, faults>>

Done(r) ==
    /\ status[r] \in Active /\ kept[r].done
    /\ Positions(r, {"done"}, Len(log[r])) = {}
    /\ log' = [log EXCEPT ![r] = Append(@, "done")]
    /\ Changed
    /\ UNCHANGED <<status, kept, nodeVars, pageVars, count, faults>>

Finish(r) ==
    /\ status[r] \in Active /\ kept[r].done
    /\ \E s \in {"completed", "failed", "cancelled"} :
          /\ (s = "completed") = (Positions(r, {"done"}, Len(log[r])) # {})
          /\ s = "cancelled" => status[r] = "stopping"
          /\ status' = [status EXCEPT ![r] = s]
    /\ log' = [log EXCEPT ![r] = Append(@, "finished")]
    /\ Changed
    /\ UNCHANGED <<kept, nodeVars, pageVars, count, faults>>

-----------------------------------------------------------------------------
(* The server's side of a page: its stream and its snapshots. *)

IsTerminal(r, n) == log[r][n] \in {"done", "finished"}

\* Feeds one event: the items against the shared baseline.  No patch is made when
\* nothing differs, unless the event ends the turn.
\* mutated form: an item that is gone is not removed.
DiffersByUpsert(items) == [remove |-> {}, upsert |-> items \ emitted]

Differs(items) ==
    [remove |-> Ids(emitted) \ Ids(items), upsert |-> items \ emitted]

Silent(items, terminal) ==
    Differs(items) = [remove |-> {}, upsert |-> {}] /\ ~ terminal

Patch(items, last) ==
    [remove |-> Differs(items).remove, upsert |-> Differs(items).upsert,
     revision |-> revision + 1, made |-> clock, last |-> last]

Send(p, items, terminal, last) ==
    /\ emitted' = items
    /\ IF Silent(items, terminal)
       THEN UNCHANGED <<revision, wire>>
       ELSE /\ revision' = revision + 1
            /\ wire' = [wire EXCEPT ![p] = Append(@, Patch(items, last))]

Feed(p) ==
    LET r == session[p].run
        n == session[p].fed + 1
    IN  /\ session[p].at = "open" /\ n =< Len(log[r])
        /\ Len(wire[p]) < MaxWire
        /\ session' = [session EXCEPT ![p].fed = n,
                                      ![p].at = IF log[r][n] = "finished" THEN "ended" ELSE @]
        /\ Send(p, Items(Stream(r, n)), IsTerminal(r, n), log[r][n] = "finished")
        /\ UNCHANGED <<serverVars, page, asked, wants, clock, count, faults>>

\* The page attaches to the active run it polls, or again to the run it has lost.
Attach(p) ==
    LET r == IF session[p].at = "retry" THEN session[p].run ELSE Latest
    IN  /\ page[p].open /\ Started # {}
        /\ session[p].at # "open" /\ session[p].at # "ended"
        /\ session[p].at = "retry" \/ (status[r] \in Active /\ session[p].run # r)
        /\ Happens(IF \E q \in Pages \ {p} : session[q].run # 0 THEN {"tab"} ELSE {})
        /\ IF status[r] \in Active
           THEN /\ session' = [session EXCEPT ![p] = [run |-> r, fed |-> 0, at |-> "open"]]
                /\ UNCHANGED <<nodeVars, wire>>
           ELSE /\ session' = [session EXCEPT ![p] = [run |-> r, fed |-> 0, at |-> "ended"]]
                /\ Len(wire[p]) < MaxWire
                /\ Send(p, Items(FinishedStream(r)), TRUE, TRUE)
        /\ UNCHANGED <<serverVars, page, asked, wants, clock, count>>

Answer(p) ==
    /\ asked[p].at = "sent"
    /\ asked' = [asked EXCEPT ![p] = [at |-> "answered", items |-> Snapshot,
                                      revision |-> revision, made |-> clock]]
    /\ Happens(IF Snapshot # emitted THEN {"ahead"} ELSE {})
    /\ UNCHANGED <<serverVars, nodeVars, page, session, wire, wants, clock, count>>

\* Binding or deleting a notification takes a revision whose patch no stream carries.
NotificationPatch ==
    /\ count.bumps < MaxBumps
    /\ count' = [count EXCEPT !.bumps = @ + 1]
    /\ revision' = revision + 1
    /\ UNCHANGED <<serverVars, emitted, pageVars, clock, faults>>

-----------------------------------------------------------------------------
(* The page. *)

NotAsked == [at |-> "none"]

Asks(p) ==
    /\ asked[p] = NotAsked
    /\ count.asked[p] < MaxAsked
    /\ asked' = [asked EXCEPT ![p] = [at |-> "sent"]]
    /\ count' = [count EXCEPT !.asked[p] = @ + 1]

Open(p) ==
    /\ ~ page[p].open
    /\ Asks(p)
    /\ page' = [page EXCEPT ![p].open = TRUE]
    /\ UNCHANGED <<serverVars, nodeVars, session, wire, wants, clock, faults>>

\* The calibrations of a page are served one at a time.
Calibrate(p) ==
    /\ wants[p]
    /\ Asks(p)
    /\ wants' = [wants EXCEPT ![p] = FALSE]
    /\ UNCHANGED <<serverVars, nodeVars, page, session, wire, clock, faults>>

\* The answer replaces whatever the page shows.
Receive(p) ==
    /\ asked[p].at = "answered"
    /\ page' = [page EXCEPT ![p] = [open |-> TRUE, items |-> asked[p].items,
                                    revision |-> asked[p].revision, made |-> asked[p].made]]
    /\ Happens(IF asked[p].made < page[p].made \/ asked[p].revision < page[p].revision
               THEN {"late"} ELSE {})
    /\ asked' = [asked EXCEPT ![p] = NotAsked]
    /\ UNCHANGED <<serverVars, nodeVars, session, wire, wants, clock, count>>

Applied(items, patch) ==
    {i \in items : i.id \notin patch.remove /\ i.id \notin Ids(patch.upsert)} \cup patch.upsert

IsNext(p, patch) == patch.revision = page[p].revision + 1
\* mutated form: one missed patch is not a gap.
GapOfTwo(p, patch) == patch.revision > page[p].revision + 2
IsGap(p, patch) == patch.revision > page[p].revision + 1

Apply(p) ==
    /\ wire[p] # <<>>
    /\ LET patch == Head(wire[p])
       IN  /\ page' = IF IsNext(p, patch)
                      THEN [page EXCEPT ![p].items = Applied(@, patch),
                                        ![p].revision = patch.revision, ![p].made = patch.made]
                      ELSE page
           /\ wants' = [wants EXCEPT ![p] = @ \/ IsGap(p, patch)]
           /\ session' = IF patch.last THEN [session EXCEPT ![p].at = "done"] ELSE session
    /\ wire' = [wire EXCEPT ![p] = Tail(@)]
    /\ UNCHANGED <<serverVars, nodeVars, asked, clock, count, faults>>

Lose(p) ==
    /\ session[p].at \in {"open", "ended"}
    /\ "lost" \notin faults
    /\ Happens({"lost"})
    /\ session' = [session EXCEPT ![p].at = "retry"]
    /\ wire' = [wire EXCEPT ![p] = <<>>]
    /\ UNCHANGED <<serverVars, nodeVars, page, asked, wants, clock, count>>

-----------------------------------------------------------------------------
\* A restart interrupts the active run and loses the counter and the baseline; a
\* page that follows attaches again, a request under way fails and is not repeated.
Restart ==
    /\ "restart" \notin faults
    /\ Happens({"restart"})
    /\ status' = [r \in Runs |-> IF status[r] \in Active THEN "interrupted" ELSE status[r]]
    /\ revision' = 0 /\ emitted' = {}
    /\ session' = [p \in Pages |-> IF session[p].at \in {"open", "ended"}
                                   THEN [session[p] EXCEPT !.at = "retry"] ELSE session[p]]
    /\ wire' = [p \in Pages |-> <<>>]
    /\ asked' = [p \in Pages |-> NotAsked]
    /\ Changed
    /\ UNCHANGED <<log, kept, page, wants, count>>

TranscriptInit ==
    /\ log = [r \in Runs |-> <<>>]
    /\ status = [r \in Runs |-> "none"]
    /\ kept = [r \in Runs |-> [blocks |-> {}, answer |-> {}, done |-> FALSE]]
    /\ revision = 0 /\ emitted = {}
    /\ page = [p \in Pages |-> [open |-> FALSE, items |-> {}, revision |-> 0, made |-> 0]]
    /\ session = [p \in Pages |-> NoSession]
    /\ wire = [p \in Pages |-> <<>>]
    /\ asked = [p \in Pages |-> NotAsked]
    /\ wants = [p \in Pages |-> FALSE]
    /\ clock = 0
    /\ count = [bumps |-> 0, asked |-> [p \in Pages |-> 0]]
    /\ faults = {}

TranscriptNext ==
    \/ \E r \in Runs : StartRun(r) \/ Say(r) \/ AskStop(r) \/ Persist(r) \/ Done(r) \/ Finish(r)
    \/ \E p \in Pages : Feed(p) \/ Attach(p) \/ Answer(p) \/ Open(p) \/ Calibrate(p)
                        \/ Receive(p) \/ Apply(p) \/ Lose(p)
    \/ NotificationPatch
    \/ Restart

TranscriptSpec == TranscriptInit /\ [][TranscriptNext]_transcriptVars

-----------------------------------------------------------------------------
(* Properties. *)

\* In one life of the server: when a page has read the last patch of its stream, it
\* shows something computed no earlier than that patch, or has scheduled a
\* calibration.  The end of a turn is never dropped unnoticed, however many pages
\* share the node's counter and however late the snapshots come.
EndIsNoticedBy(p) ==
    (wire[p] # <<>> /\ Head(wire[p]).last /\ session'[p].at = "done")
    => page'[p].made >= Head(wire[p]).made \/ wants'[p]

EndIsNoticed == [][\A p \in Pages : "restart" \notin faults => EndIsNoticedBy(p)]_transcriptVars

\* The same across a restart, which takes the counter back to zero.
EndNoticedAfterRestart == [][\A p \in Pages : EndIsNoticedBy(p)]_transcriptVars

\* Nothing of the node is under way and the page has read its stream to the end.
Settled(p) ==
    /\ session[p].at = "done" /\ wire[p] = <<>> /\ ~ wants[p] /\ asked[p] = NotAsked
    /\ status[Latest] \in Final /\ session[p].run = Latest

\* A stopped turn's notice is shown to the pages that watched it, by no snapshot.
NotesLeft(items) == {i \in items : ~ (i.id[1] = "status" /\ i.status = "stopped")}

\* A page that followed a turn and its continuations undisturbed to the end shows
\* what a snapshot shows: no residue of the failed run, nothing missing, no gap.
SettledViewIsExact ==
    \A p \in Pages : Settled(p) /\ faults = {} => NotesLeft(page[p].items) = NotesLeft(Snapshot)
=============================================================================
