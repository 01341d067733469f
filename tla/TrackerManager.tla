---------------------------- MODULE TrackerManager ----------------------------
(***************************************************************************)
(* TrackerManager and its Trackers: the thread that announces to trackers. *)
(*                                                                         *)
(* A tracker is either in manager_space, waiting for one of its timers, or *)
(* in protocol space, waiting for the answer to a request.  The controlling*)
(* thread raises flags in event.set and signals an ev::async; handle_event *)
(* reads the flags, walks manager_space once per flag and clears the flags *)
(* it handled.  The walks are range-for loops over a vector from which the *)
(* loop body removes the current element, so each takes a step per turn    *)
(* and the vector is its storage (cells) plus its size.                    *)
(*                                                                         *)
(* Announce URLs are reduced to their protocol, durations to what they are *)
(* for and which of two expires first, answers to their kind.  Indices     *)
(* start at 1 instead of 0.  `online' is written and never read: left out. *)
(***************************************************************************)
EXTENDS Integers, Sequences, FiniteSets, FiniteSetsExt, SequencesExt

CONSTANTS
  Trackers,     \* the host names of the torrent's announce URLs
  Urls,         \* announce_url.list of each, as protocols
  Answers,      \* the kinds of answer trackers give
  AssertsOn,    \* FALSE models a build with -DNDEBUG
  RetryIntervals, \* entries of get_retry_seconds' table (5)
  FailuresCap,  \* bound at which context.failures stops counting
  MaxCalls      \* bound on calls by the controlling thread

AnswerKinds == {"failure", "interval", "min_first", "max_first", "no_peers",
                "unparsable", "not_dictionary"}

ASSUME TrackersAssumption == IsFiniteSet(Trackers)
ASSUME UrlsAssumption == \A t \in Trackers : Urls[t] \in Seq({"http", "udp"}) /\ Urls[t] # << >>
ASSUME AnswersAssumption == Answers \subseteq AnswerKinds /\ AssertsOn \in BOOLEAN
ASSUME BoundsAssumption == FailuresCap \in Nat /\ MaxCalls \in Nat
                           /\ RetryIntervals \in Nat \ {0}

Events == {"start", "reannounce", "force_reannounce", "shutdown"}

VARIABLES
  tracker_connections, \* trackers not erased
  trk,                 \* the Tracker objects
  cells, size,         \* manager_space: its storage, and how much of it is in use
  active,              \* tracker_context.active
  set,                 \* event.set, shared with the controlling thread
  signal, fed,         \* event.signal: sent to; fed by its own callback
  calling,             \* controlling thread: a flag is raised, send() still to come
  phase,               \* where handle_event is; "idle" outside
  event_, handled,     \* locals of handle_event
  it, end,             \* the loop's iterator and its past-the-end value
  halted,              \* "no", or what ended the program's defined behaviour
  calls

space   == <<cells, size>>
walk    == <<it, end>>
handler == <<phase, event_, handled, walk>>
control == <<set, signal, fed, calling, calls>>
vars    == <<tracker_connections, trk, space, active, handler, control, halted>>

Tracker ==
  [state         : {"null", "inactive", "active"},
   http          : BOOLEAN,             \* current_proto == http
   type          : {"one", "two"},      \* timers.type
   interruptible : BOOLEAN,
   maximum       : BOOLEAN,             \* timers.maximum is running
   minimum       : BOOLEAN,             \* timers.minimum is running
   first         : {"any", "min", "max"},   \* which of the two expires first
   pause         : {"none", "next_url", "retry", "interval"}, \* maximum_duration
   idx           : Nat \ {0},           \* context.manager_space_idx
   current       : Nat \ {0},           \* announce_url.current_idx
   failed_idx    : Nat,                 \* 0 for -1
   just_failed   : BOOLEAN,
   failures      : 0 .. FailuresCap,
   flying        : BOOLEAN,             \* its request is with libcurl
   tried         : SUBSET (Nat \ {0}),  \* history: URLs failed in this cycle
   left_out      : BOOLEAN]             \* history: shut down without a last announce

Blank == [state |-> "null", http |-> FALSE, type |-> "one", interruptible |-> FALSE,
          maximum |-> FALSE, minimum |-> FALSE, first |-> "any", pause |-> "none",
          idx |-> 1, current |-> 1, failed_idx |-> 1, just_failed |-> FALSE,
          failures |-> 0, flying |-> FALSE, tried |-> {}, left_out |-> FALSE]

Init ==
  /\ tracker_connections = Trackers
  /\ trk = [t \in Trackers |-> Blank]
  /\ cells = << >> /\ size = 0
  /\ active = FALSE
  /\ set = {} /\ signal = FALSE /\ fed = FALSE /\ calling = FALSE /\ calls = 0
  /\ phase = "idle" /\ event_ = {} /\ handled = {} /\ it = 1 /\ end = 1
  /\ halted = "no"
------------------------------------------------------------------------------
(* The controlling thread: start(), reannounce(), force_reannounce() and   *)
(* shutdown() raise a flag, then signal.                                   *)

Call(e) ==
  /\ halted = "no" /\ ~calling /\ calls < MaxCalls
  /\ set' = set \cup {e}
  /\ calling' = TRUE
  /\ calls' = calls + 1
  /\ UNCHANGED <<tracker_connections, trk, space, active, handler, signal, fed, halted>>

CallSends ==
  /\ halted = "no" /\ calling
  /\ calling' = FALSE
  /\ signal' = TRUE
  /\ UNCHANGED <<tracker_connections, trk, space, active, handler, set, fed, calls,
                 halted>>
------------------------------------------------------------------------------
(* Moving trackers between the two spaces.                                 *)

HasHttp(t) == \E i \in DOMAIN Urls[t] : Urls[t][i] = "http"

\* Slip: one step along the list, whatever the protocol found there.
SlipSeekHttp(t, i) == (i % Len(Urls[t])) + 1

\* seek_to_next_url until the protocol is http, around the list if need be.
SeekHttp(t, i) ==
  LET After(k) == ((i - 1 + k) % Len(Urls[t])) + 1
  IN After(Min({k \in 1 .. Len(Urls[t]) : Urls[t][After(k)] = "http"}))

\* Storage past the size matters only to the iterator of a walk.
Storage(stored, used) == IF phase = "idle" THEN SubSeq(stored, 1, used) ELSE stored

\* Slip: the tracker that fills the gap keeps its old index.
SlipSent(t, p) ==
  LET gap == trk[t].idx IN
  /\ cells' = Storage([cells EXCEPT ![gap] = cells[size]], size - 1)
  /\ size' = size - 1
  /\ trk' = [trk EXCEPT ![t] = p]

\* send_to_protocol_space: the last tracker fills the gap t leaves; p is t from now on.
Sent(t, p) ==
  LET gap  == trk[t].idx
      last == cells[size]
  IN /\ cells' = Storage([cells EXCEPT ![gap] = last], size - 1)
     /\ size' = size - 1
     /\ trk' = [trk EXCEPT ![last].idx = gap, ![t] = p]

\* back() of an empty vector, or an index past its size.
Unsendable(t) == size = 0 \/ trk[t].idx > size

send_to_protocol_space(t, p) ==
  \/ /\ ~Unsendable(t)
     /\ Sent(t, p)
     /\ UNCHANGED halted
  \/ /\ Unsendable(t)
     /\ halted' = "undefined"
     /\ UNCHANGED <<trk, space>>

\* protocol.add_request: libcurl ignores a handle it already has.
Requested(p) == [p EXCEPT !.flying = @ \/ p.http]

\* return_to_manager_space, with p the tracker's new record.
return_to_manager_space(t, p) ==
  /\ cells' = Append(cells, t)
  /\ size' = size + 1
  /\ trk' = [trk EXCEPT ![t] = [p EXCEPT !.idx = size + 1]]
------------------------------------------------------------------------------
(* Timers and answers: callbacks of the event loop between two handle_event*)
(* calls.                                                                  *)

Idle == phase = "idle" /\ halted = "no"

\* feed_event puts the callback back on the list of pending ones that libev is working
\* off, so timers and sockets wait until it has not fed itself.
Polled == Idle /\ ~fed

\* The timer that expired is stopped.
Expired(p, which) ==
  IF which = "max" THEN [p EXCEPT !.maximum = FALSE] ELSE [p EXCEPT !.minimum = FALSE]

MayExpire(p, which) ==
  IF which = "max" THEN p.maximum /\ ~(p.minimum /\ p.first = "min")
                   ELSE p.minimum /\ ~(p.maximum /\ p.first = "max")

\* The first of two timers only makes the tracker interruptible; otherwise it announces.
tracker_timeout_handler(t, which) ==
  LET p == Expired(trk[t], which) IN
  /\ Polled /\ MayExpire(trk[t], which)
  /\ \/ /\ p.type = "two" /\ ~p.interruptible
        /\ trk' = [trk EXCEPT ![t] = [p EXCEPT !.interruptible = TRUE]]
        /\ UNCHANGED <<space, halted>>
     \/ /\ p.type = "one" \/ p.interruptible
        /\ send_to_protocol_space(t, Requested(p))
  /\ UNCHANGED <<tracker_connections, active, handler, control>>

\* Slip: an answer after shutdown leaves the tracker as it is.
SlipSettled(t, p) ==
  \/ /\ active
     /\ return_to_manager_space(t, [p EXCEPT !.flying = FALSE])
  \/ /\ ~active
     /\ trk' = [trk EXCEPT ![t] = [p EXCEPT !.flying = FALSE, !.maximum = FALSE,
                                            !.minimum = FALSE]]
     /\ UNCHANGED space

\* The end of both state handlers.  shutdown_reset keeps announce_url.list.
Settled(t, p) ==
  \/ /\ active
     /\ return_to_manager_space(t, [p EXCEPT !.flying = FALSE])
  \/ /\ ~active
     /\ trk' = [trk EXCEPT ![t] = Blank]
     /\ UNCHANGED space

\* get_retry_seconds: `failures-1 %5' is failures - (1 % 5), so the table is read behind its
\* end after more failed cycles than it has entries.
get_retry_seconds(failures) ==
  halted' = IF failures > RetryIntervals THEN "undefined" ELSE halted

\* inactive_state_handler: the transfer failed, or the answer was empty or gave a
\* failure reason.  The next URL is tried soon, a whole failed cycle waits longer.
inactive_state_handler(t) ==
  LET p      == trk[t]
      failed == IF p.just_failed THEN p.failed_idx ELSE p.current
      next   == SeekHttp(t, p.current)
      all    == failed = next
  IN
  /\ Polled /\ p.flying /\ "failure" \in Answers
  /\ Settled(t, [p EXCEPT
       !.state = "inactive", !.type = "one", !.first = "any", !.maximum = TRUE,
       !.just_failed = TRUE, !.failed_idx = failed, !.current = next, !.http = TRUE,
       !.failures = IF all /\ @ < FailuresCap THEN @ + 1 ELSE @,
       !.pause = IF all THEN "retry" ELSE "next_url",
       !.tried = IF all THEN {} ELSE @ \cup {p.current}])
  /\ IF all THEN get_retry_seconds(p.failures + 1) ELSE UNCHANGED halted
  /\ UNCHANGED <<tracker_connections, active, handler, control>>

\* The parts of active_state_handler before the peers are looked at.
Answered(p, kind) ==
  [p EXCEPT !.state = "active", !.failures = 0, !.failed_idx = 0, !.just_failed = FALSE,
            !.type = IF kind \in {"min_first", "max_first"} THEN "two" ELSE "one",
            !.pause = "interval", !.tried = {}]

\* Slip: the minimum timer is started and the tracker left interruptible.
SlipRearmed(p, kind) ==
  IF kind = "interval"
  THEN [p EXCEPT !.maximum = TRUE, !.first = "any"]
  ELSE [p EXCEPT !.maximum = TRUE, !.minimum = TRUE, !.interruptible = TRUE,
                 !.first = IF kind = "min_first" THEN "min" ELSE "max"]

\* Slip: with two intervals only the minimum timer is started.
SlipRearmedMinimum(p, kind) ==
  IF kind = "interval"
  THEN [p EXCEPT !.maximum = TRUE, !.first = "any"]
  ELSE [p EXCEPT !.minimum = TRUE, !.interruptible = FALSE, !.first = "any"]

\* Its end: one timer, or two and no reannouncing until the first expires.
Rearmed(p, kind) ==
  IF kind = "interval"
  THEN [p EXCEPT !.maximum = TRUE, !.first = "any"]
  ELSE [p EXCEPT !.maximum = TRUE, !.minimum = TRUE, !.interruptible = FALSE,
                 !.first = IF kind = "min_first" THEN "min" ELSE "max"]

active_state_handler(t) ==
  /\ Polled /\ trk[t].flying
  /\ \/ \E kind \in Answers \cap {"interval", "min_first", "max_first"} :
          Settled(t, Rearmed(Answered(trk[t], kind), kind))
     \* No peers, or not a whole number of them: return before the timers.
     \/ /\ "no_peers" \in Answers
        /\ \E kind \in {"interval", "min_first", "max_first"} :
             trk' = [trk EXCEPT ![t] = [Answered(@, kind) EXCEPT !.flying = FALSE]]
        /\ UNCHANGED space
  /\ UNCHANGED <<tracker_connections, active, handler, control, halted>>

\* An answer that is not bencoded erases the Tracker, which chk_finished then uses.
ErasedByAnswer(t) ==
  /\ Polled /\ trk[t].flying /\ "unparsable" \in Answers
  /\ tracker_connections' = tracker_connections \ {t}
  /\ trk' = [trk EXCEPT ![t] = Blank]
  /\ halted' \in {"no", "undefined"}
  /\ UNCHANGED <<space, active, handler, control>>

\* get_as on an answer of another type throws through the event loop.
ThrownByAnswer(t) ==
  /\ Polled /\ trk[t].flying /\ "not_dictionary" \in Answers
  /\ halted' = "exception"
  /\ UNCHANGED <<tracker_connections, trk, space, active, handler, control>>

AnswerArrives(t) ==
  \/ inactive_state_handler(t) \/ active_state_handler(t)
  \/ ErasedByAnswer(t) \/ ThrownByAnswer(t)
------------------------------------------------------------------------------
(* handle_event.                                                           *)

\* The walk to make after `done', with the flags read at the beginning.
Walk(done, on) ==
  IF done = "begin" /\ "start" \in event_' /\ ~on THEN "start"
  ELSE IF done \notin {"begin", "start"} \/ ~on THEN "finish"
  ELSE IF "shutdown" \in event_' THEN "shutdown"
  ELSE IF "force_reannounce" \in event_' THEN "force_reannounce"
  ELSE IF "reannounce" \in event_' THEN "reannounce"
  ELSE "finish"

\* populate_manager_space: every tracker with an http URL is appended, in the map's
\* order, and one without a current http URL moves to its next.
populate_manager_space ==
  LET known == {t \in tracker_connections : HasHttp(t)} IN
  \E order \in SetToSeqs(known) :
    /\ cells' = SubSeq(cells, 1, size) \o order
    /\ size' = size + Len(order)
    /\ trk' = [t \in Trackers |->
         IF t \notin known THEN trk[t]
         ELSE [trk[t] EXCEPT !.idx = size + CHOOSE i \in DOMAIN order : order[i] = t,
                             !.current = IF trk[t].http THEN @ ELSE SeekHttp(t, @),
                             !.http = TRUE]]

\* Enter the next walk: the range-for fixes its end here.
EnterWalk(done, on) ==
  /\ phase' = Walk(done, on)
  /\ IF phase' = "start" THEN populate_manager_space
     ELSE cells' = SubSeq(cells, 1, size) /\ UNCHANGED <<trk, size>>
  /\ it' = 1 /\ end' = size' + 1

EventBegins ==
  /\ Idle /\ (signal \/ fed)
  /\ fed' = FALSE
  /\ signal' = (signal /\ fed)
  /\ event_' = set /\ handled' = {}
  /\ EnterWalk("begin", active)
  /\ UNCHANGED <<tracker_connections, active, set, calling, calls, halted>>

Current == cells[it]

\* Slip: an index loop that looks at the size anew in each turn.
SlipMore == it <= size

More == it < end

Walking(name) == halted = "no" /\ phase = name /\ More /\ it' = it + 1

start_event ==
  LET p == trk[Current] IN
  /\ Walking("start")
  /\ \/ /\ AssertsOn /\ ~(p.state = "null" /\ p.type = "one")
        /\ halted' = "assert"
        /\ UNCHANGED trk
     \/ /\ ~AssertsOn \/ (p.state = "null" /\ p.type = "one")
        /\ trk' = [trk EXCEPT ![Current].state = "inactive", ![Current].maximum = TRUE,
                              ![Current].left_out = FALSE]
        /\ UNCHANGED halted
  /\ UNCHANGED <<tracker_connections, space, active, phase, event_, handled, end, control>>

reannounce_event ==
  LET p == trk[Current] IN
  /\ Walking("reannounce")
  /\ \/ /\ p.type = "two" /\ p.interruptible /\ p.state = "active"
        /\ send_to_protocol_space(Current, Requested([p EXCEPT !.maximum = FALSE]))
     \/ /\ ~(p.type = "two" /\ p.interruptible /\ p.state = "active")
        /\ UNCHANGED <<trk, space, halted>>
  /\ UNCHANGED <<tracker_connections, active, phase, event_, handled, end, control>>

\* Slip: as the other walk does, only the maximum timer is stopped.
SlipForceReannounce ==
  LET p == trk[Current] IN
  /\ Walking("force_reannounce")
  /\ \/ /\ p.state = "active"
        /\ send_to_protocol_space(Current, Requested([p EXCEPT !.maximum = FALSE]))
     \/ /\ p.state # "active"
        /\ UNCHANGED <<trk, space, halted>>
  /\ UNCHANGED <<tracker_connections, active, phase, event_, handled, end, control>>

force_reannounce_event ==
  LET p == trk[Current] IN
  /\ Walking("force_reannounce")
  /\ \/ /\ p.state = "active"
        /\ send_to_protocol_space(Current,
             Requested([p EXCEPT !.maximum = FALSE, !.minimum = FALSE]))
     \/ /\ p.state # "active"
        /\ UNCHANGED <<trk, space, halted>>
  /\ UNCHANGED <<tracker_connections, active, phase, event_, handled, end, control>>

\* An inactive tracker leaves manager_space and no request is made for it, so no answer
\* will reset it either.
shutdown_event ==
  LET p == [trk[Current] EXCEPT !.maximum = FALSE] IN
  /\ Walking("shutdown")
  /\ send_to_protocol_space(Current,
       IF p.state = "inactive" THEN [p EXCEPT !.left_out = TRUE]
       ELSE Requested([p EXCEPT !.minimum = @ /\ p.type = "one"]))
  /\ UNCHANGED <<tracker_connections, active, phase, event_, handled, end, control>>

WalkEnds ==
  /\ halted = "no" /\ phase \in Events /\ ~More
  /\ active' = CASE phase = "start" -> TRUE [] phase = "shutdown" -> FALSE [] OTHER -> active
  /\ handled' = handled \cup
       CASE phase = "shutdown" -> {"shutdown", "reannounce", "force_reannounce"}
         [] phase = "force_reannounce" -> {"force_reannounce", "reannounce"}
         [] OTHER -> {phase}
  /\ UNCHANGED event_
  /\ EnterWalk(phase, active')
  /\ UNCHANGED <<tracker_connections, control, halted>>

\* Slip: all flags are cleared, those raised meanwhile too.
SlipEventEnds ==
  /\ halted = "no" /\ phase = "finish"
  /\ set' = {}
  /\ phase' = "idle" /\ event_' = {} /\ handled' = {} /\ it' = 1 /\ end' = 1
  /\ UNCHANGED <<tracker_connections, trk, space, active, signal, fed, calling, calls, halted>>

\* fetch_and clears what was handled; anything else feeds the callback again.
EventEnds ==
  /\ halted = "no" /\ phase = "finish"
  /\ set' = set \ handled
  /\ fed' = (set' # {})
  /\ phase' = "idle" /\ event_' = {} /\ handled' = {} /\ it' = 1 /\ end' = 1
  /\ UNCHANGED <<tracker_connections, trk, space, active, signal, calling, calls, halted>>

handle_event ==
  \/ EventBegins \/ start_event \/ reannounce_event \/ force_reannounce_event
  \/ shutdown_event \/ WalkEnds \/ EventEnds
------------------------------------------------------------------------------
Timeout(t) == \E which \in {"min", "max"} : tracker_timeout_handler(t, which)

Next ==
  \/ \E e \in Events : Call(e)
  \/ CallSends
  \/ handle_event
  \/ \E t \in tracker_connections : Timeout(t)
  \/ \E t \in tracker_connections : AnswerArrives(t)

Spec == Init /\ [][Next]_vars

\* A call returns, each turn of the event loop runs what is pending and every expired
\* timer, however often it is signalled, and libcurl ends a transfer within 30 seconds.
Fairness ==
  /\ WF_vars(CallSends) /\ WF_vars(handle_event)
  /\ \A t \in Trackers : SF_vars(Timeout(t)) /\ SF_vars(AnswerArrives(t))

FairSpec == Spec /\ Fairness
------------------------------------------------------------------------------
\* The state is well formed; indices into manager_space and the announce lists start
\* at 1, and manager_space never claims more elements than it stores.
TypeOK ==
  /\ tracker_connections \subseteq Trackers
  /\ trk \in [Trackers -> Tracker]
  /\ cells \in Seq(Trackers) /\ size \in 0 .. Len(cells)
  /\ active \in BOOLEAN
  /\ set \subseteq Events /\ event_ \subseteq Events
  /\ handled \subseteq Events
  /\ signal \in BOOLEAN /\ fed \in BOOLEAN /\ calling \in BOOLEAN
  /\ phase \in Events \cup {"idle", "finish"}
  /\ it \in 1 .. end /\ end \in Nat \ {0}
  /\ halted \in {"no", "assert", "undefined", "exception"}
  /\ calls \in 0 .. MaxCalls

InSpace == {cells[i] : i \in 1 .. size}

\* manager_space and the trackers' own indices agree, also in the middle of a walk
\* that removes the element it stands on; no tracker is in it twice, or with libcurl
\* (past the asserts of start_event, which come after populate_manager_space).  So
\* nobody calls back() on an empty vector or uses an index past the size.
SpaceSound ==
  /\ TypeOK
  /\ \A i \in 1 .. size :
       /\ trk[cells[i]].idx = i
       /\ trk[cells[i]].flying => phase = "start" /\ i >= it - 1
  /\ halted # "undefined"

\* A timer is running only for a tracker that waits in manager_space, so no timeout
\* takes a tracker out of it that is not there.
TimersQuiet ==
  \A t \in Trackers : trk[t].maximum \/ trk[t].minimum => t \in InSpace

\* After a shutdown a tracker is with libcurl for its last announce, or as new, however
\* that announce ended; only one that was inactive when shutdown_event took it out, for
\* which there is no last announce, keeps its old state.  These two kinds, restarted, are
\* the only ones that can fail the assert of start_event.
ShutdownResets ==
  /\ phase = "idle" /\ ~active =>
       \A t \in Trackers : trk[t].flying \/ trk[t].left_out \/ trk[t] = Blank
  /\ halted = "assert" => trk[cells[it - 1]].flying \/ trk[cells[it - 1]].left_out

\* A range-for whose body removes elements still reaches all of them: none that its
\* flag is about is left when it ends.
WalksComplete ==
  [][ phase # phase' =>
        /\ phase = "shutdown" => InSpace = {}
        /\ phase = "force_reannounce" => \A t \in InSpace : trk[t].state # "active"
        /\ phase = "reannounce" =>
             \A t \in InSpace : ~(trk[t].state = "active" /\ trk[t].type = "two"
                                  /\ trk[t].interruptible)
        /\ phase = "start" => \A t \in InSpace : trk[t].state = "inactive" /\ trk[t].maximum
    ]_vars

\* A tracker is not announced to again before its minimum interval is over, unless by
\* force: reannounce() takes it only after its first timer has expired.
MinimumRespected ==
  [][ \A t \in Trackers :
        /\ phase = "reannounce" /\ ~trk[t].flying /\ trk'[t].flying
        => ~trk[t].minimum ]_vars

\* A tracker is given up for a longer time only when all its http URLs have failed
\* since it last answered or was last given up.
CycleComplete ==
  [][ \A t \in Trackers :
        trk[t].flying /\ ~trk'[t].flying /\ trk'[t].pause = "retry"
        => trk[t].tried \cup {trk[t].current} = {i \in DOMAIN Urls[t] : Urls[t][i] = "http"}
    ]_vars

\* An answer without peers leaves a tracker in neither space, an unparsable one erases it.
Stranded(t) == ~trk[t].flying /\ t \notin InSpace

\* As long as the manager is active every tracker that is not stranded is announced to
\* again and again, whatever its URLs and answers.  A start() of a manager that is active
\* is never handled and stops everything.
AnnouncesForever ==
  \A t \in Trackers :
    active ~> (trk[t].flying \/ ~active \/ halted # "no" \/ "start" \in set \/ Stranded(t))

\* A shutdown() raised while the manager is active, or is about to be started, is served,
\* also when it is raised while handle_event runs or together with other flags.  The flags
\* keep no order and no count: one raised again after handle_event has read the first is
\* served, or cleared by the fetch_and, together with it, and a start() between the two
\* comes after both.
ShutdownServed ==
  ("shutdown" \in set \ handled /\ (active \/ "start" \in set \ handled))
    ~> ((phase = "finish" /\ "shutdown" \in handled) \/ halted # "no")
==============================================================================
