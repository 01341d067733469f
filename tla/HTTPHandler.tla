----------------------------- MODULE HTTPHandler -----------------------------
(***************************************************************************)
(* HTTPHandler: libcurl's multi interface driven by libev.                 *)
(*                                                                         *)
(* libcurl has no thread of its own.  It works only inside the calls made  *)
(* here, and asks through callbacks to be called again: socket_callback    *)
(* wants a descriptor watched, timer_callback wants a call after a while.  *)
(* Every request has one ev::io for whatever descriptors its transfer uses,*)
(* and all share one ev::timer.  Each libev callback is one step: a call   *)
(* into libcurl with the callbacks it makes, then chk_finished.            *)
(*                                                                         *)
(* Left to the owner of a request, a Tracker: do_on_success and            *)
(* do_on_failure, which do not add or destroy requests except as           *)
(* TrackerManager's ErasedByAnswer says.  rmv_request has no caller, and   *)
(* user_space.size is never read.                                          *)
(***************************************************************************)
EXTENDS Naturals, Sequences, SequencesExt

CONSTANTS
  Requests,    \* the HTTPRequest objects, each with one easy handle
  Sockets,     \* for each, the descriptors its transfer may have open at the same time
  NoSocket,    \* -1
  MaxAdds,     \* bound on transfers per request
  MaxChunks    \* bound on pieces of body per transfer

ASSUME SocketsAssumption ==
  \A r \in Requests : NoSocket \notin Sockets[r] /\ IsFiniteSet(Sockets[r])
ASSUME BoundsAssumption == MaxAdds \in Nat /\ MaxChunks \in Nat

VARIABLES
  transfer,     \* libcurl: what it does with each easy handle
  polled,       \* libcurl: the events it wants of each of a transfer's sockets
  messages,     \* libcurl: results not yet read with curl_multi_info_read
  reported,     \* libcurl: the last call of timer_callback was for a time-out
  curl_timer,   \* curl_timer is running
  sock_wtchr,   \* each request's watcher: its descriptor and events; stopped if none
  data,         \* user_space.data: for each piece of body the transfer it came with
  serial,       \* history: transfers begun with each request
  told,         \* history: calls of do_on_success and do_on_failure
  crowded       \* history: the transfer has had two sockets in one call of libcurl

curl == <<transfer, polled, messages, reported>>
ours == <<curl_timer, sock_wtchr, data>>
vars == <<curl, ours, serial, told, crowded>>

Directions == {"in", "out"}
Interest   == SUBSET Directions      \* {} for a socket that is not open

Stopped == [fd |-> NoSocket, events |-> {}]
Closed(r) == [s \in Sockets[r] |-> {}]

\* In the multi handle, running or with its result unread.
Added(r) == transfer[r] # "none"

Init ==
  /\ transfer = [r \in Requests |-> "none"]
  /\ polled = [r \in Requests |-> Closed(r)]
  /\ messages = {} /\ reported = FALSE /\ curl_timer = FALSE
  /\ sock_wtchr = [r \in Requests |-> Stopped]
  /\ data = [r \in Requests |-> << >>]
  /\ serial = [r \in Requests |-> 0] /\ told = [r \in Requests |-> 0]
  /\ crowded = [r \in Requests |-> FALSE]
------------------------------------------------------------------------------
(* Called by libcurl.                                                      *)

\* `(what & IN) ? READ : 0 | (what & OUT) ? WRITE : 0' is READ alone if both are wanted.
set_socket(s, what, watcher) ==
  IF what = {} THEN watcher
  ELSE [fd |-> s, events |-> IF "in" \in what THEN {"in"} ELSE {"out"}]

remove_socket == Stopped

\* Slip: CURL_POLL_REMOVE is not looked for.
SlipSocketCallback(s, what, watcher) == set_socket(s, what, watcher)

\* A closed socket stops the watcher, whichever one it is.  curl_multi_assign gets the
\* easy handle instead of the multi handle and refuses it: socketp is null every time.
socket_callback(s, what, watcher) ==
  IF what = {} THEN remove_socket ELSE set_socket(s, what, watcher)

\* One callback for each socket in `changed', in that order.
Watched(watcher, next, changed) ==
  FoldLeft(LAMBDA w, s : socket_callback(s, next[s], w), watcher, changed)

\* Whatever the time-out, and also for -1, which is "none": then the timer expires at once.
timer_callback(due) == TRUE

\* libcurl calls timer_callback when the next time-out is another one than it last said;
\* after a call for CURL_SOCKET_TIMEOUT it has forgotten what it said.
TimerUpdated(due, said, timer) ==
  /\ reported' = due
  /\ curl_timer' = IF due # said THEN timer_callback(due) ELSE timer
------------------------------------------------------------------------------
(* Requests.                                                               *)

\* add_request: libcurl sets a time-out at once for a new transfer.  A handle it already
\* has is refused, and nothing changes.
add_request(r) ==
  /\ ~Added(r) /\ serial[r] < MaxAdds
  /\ transfer' = [transfer EXCEPT ![r] = "running"]
  /\ serial' = [serial EXCEPT ![r] = @ + 1]
  /\ crowded' = [crowded EXCEPT ![r] = FALSE]
  /\ TimerUpdated(TRUE, reported, curl_timer)
  /\ UNCHANGED <<polled, messages, sock_wtchr, data, told>>

\* Slip: `if' for `while': one message is read, the others wait for the next callback.
SlipFinished(results) == IF results = {} THEN {} ELSE {CHOOSE r \in results : TRUE}

\* The requests whose results chk_finished reads: all there are.
Finished(results) == results

\* Slip: the body is kept.
SlipCleared(body) == body

\* user_space.data.clear()
Cleared(body) == << >>

\* Slip: the handle stays with libcurl, which refuses it when it is added again.
SlipRemoved(state) == state

\* curl_multi_remove_handle
Removed(state) == "none"

\* For each result: do_on_success or do_on_failure, the body cleared, the handle removed.
\* t and body are the transfers and bodies libcurl left.
chk_finished(results, t, body) ==
  LET ended == Finished(results) IN
  /\ messages' = results \ ended
  /\ told' = [r \in Requests |-> told[r] + (IF r \in ended THEN 1 ELSE 0)]
  /\ data' = [r \in Requests |-> IF r \in ended THEN Cleared(body[r]) ELSE body[r]]
  /\ transfer' = [r \in Requests |-> IF r \in ended THEN Removed(t[r]) ELSE t[r]]

\* easy_callback: a piece of body is appended to what is there.
easy_callback(r) == Append(data[r], serial[r])
------------------------------------------------------------------------------
(* curl_multi_socket_action, with which libcurl goes on with any of its    *)
(* transfers.  A call that goes on with several of them does what as many  *)
(* calls in a row do; but the transfers that end in a call are reported    *)
(* together.                                                               *)

\* A transfer opens, closes or changes its sockets, and may get a piece of its body.
GoesOn(r, said, timer) ==
  \E next \in [Sockets[r] -> Interest], more \in BOOLEAN :
    /\ more => Len(data[r]) < MaxChunks
    /\ polled' = [polled EXCEPT ![r] = next]
    /\ \E order \in SetToSeqs({s \in Sockets[r] : next[s] # polled[r][s]}) :
         sock_wtchr' = [sock_wtchr EXCEPT ![r] = Watched(@, next, order)]
    /\ crowded' = [crowded EXCEPT ![r] =
         @ \/ \E s, u \in Sockets[r] : s # u /\ {} \notin {next[s], polled[r][u] \cup next[u]}]
    /\ TimerUpdated(TRUE, said, timer)
    /\ chk_finished(messages, transfer,
                    IF more THEN [data EXCEPT ![r] = easy_callback(r)] ELSE data)
    /\ UNCHANGED serial

\* Transfers end, well or not, with all their sockets closed.
End(ends, said, timer) ==
  LET t == [r \in Requests |-> IF r \in ends THEN "done" ELSE transfer[r]] IN
  /\ polled' = [r \in Requests |-> IF r \in ends THEN Closed(r) ELSE polled[r]]
  /\ sock_wtchr' = [r \in Requests |->
       IF r \in ends
       THEN Watched(sock_wtchr[r], Closed(r), SetToSeq({s \in Sockets[r] : polled[r][s] # {}}))
       ELSE sock_wtchr[r]]
  /\ TimerUpdated(\E r \in Requests : t[r] = "running", said, timer)
  /\ chk_finished(messages \cup ends, t, data)
  /\ UNCHANGED <<serial, crowded>>

Running == {r \in Requests : transfer[r] = "running"}

\* The timer has expired and is not running when its callback begins.
drive_timer ==
  /\ curl_timer
  /\ \/ \E r \in Running : GoesOn(r, FALSE, FALSE)
     \/ \E ends \in SUBSET Running : End(ends, FALSE, FALSE)

\* CURLOPT_TIMEOUT, or any other of libcurl's time-outs, ends r.
TimesOut(r) ==
  /\ curl_timer
  /\ \E ends \in SUBSET Running : r \in ends /\ End(ends, FALSE, FALSE)

\* The descriptor of r's watcher is ready.  libcurl also sees to time-outs that are due.
drive_sockt(r) ==
  /\ sock_wtchr[r].events # {}
  /\ \/ \E q \in Running : GoesOn(q, reported, curl_timer)
     \/ \E ends \in SUBSET Running : End(ends, reported, curl_timer)

Next ==
  \/ \E r \in Requests : add_request(r)
  \/ drive_timer
  \/ \E r \in Running : drive_sockt(r)

\* libev calls the timer's watcher once it has expired.  A transfer for which libcurl is
\* called again and again does not outlive its CURLOPT_TIMEOUT of 30 s.
Fairness ==
  /\ WF_vars(drive_timer)
  /\ \A r \in Requests : SF_vars(TimesOut(r))

Spec == Init /\ [][Next]_vars

FairSpec == Spec /\ Fairness
------------------------------------------------------------------------------
(* Properties.                                                             *)

\* chk_finished (71-94): every transfer that was begun and is no longer in the multi handle
\* has been answered with do_on_success or do_on_failure, and only once, whatever else
\* ended in the same call.
AnsweredOnce ==
  \A r \in Requests : serial[r] = told[r] + (IF Added(r) THEN 1 ELSE 0)

\* chk_finished (90): the body a request's owner is given when it is told has nothing of an
\* earlier transfer of the same request in front.
FreshData ==
  \A r \in Requests : \A i \in DOMAIN data[r] : data[r][i] = serial[r]

\* socket_callback (200-219): a watcher that is active watches a descriptor its transfer
\* still has open; and as long as the transfer has had one socket at a time, libev waits
\* for something libcurl wants of it.
WatchersSound ==
  \A r \in Requests :
    LET w == sock_wtchr[r] IN
    /\ w.events # {} => polled[r][w.fd] # {}
    /\ ~crowded[r] => \A s \in Sockets[r] :
         polled[r][s] # {} => w.fd = s /\ w.events \cap polled[r][s] # {}

\* timer_callback (225-242): the one timer is enough for every transfer to be answered in
\* the end, also when the watcher it depends on was stopped for another of its sockets.
RequestEnds == \A r \in Requests : Added(r) ~> ~Added(r)
==============================================================================
