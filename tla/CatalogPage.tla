---------------------------- MODULE CatalogPage ----------------------------
(***************************************************************************)
(* One open page of the public site and the events that keep it up to      *)
(* date: the commits and the publishing of the catalog service (admin.py,  *)
(* processing.py, events.py), the server-sent events of videos.py, and the *)
(* list (App.js), the video page (VideoPage.js) and the subscription       *)
(* (api.js) of the browser.                                                *)
(*                                                                         *)
(* What a video shows is the number of its changes so far; "deleted" and   *)
(* "restored" are changes like an edit.                                    *)
(***************************************************************************)
EXTENDS Naturals, Sequences, SequencesExt

CONSTANTS
    Video,
    None,         \* no video, no change, no answer yet
    Failed,       \* what is shown for a request that failed
    Open,         \* the start of an event stream
    Resync,       \* the change { action: 'resync' }
    MaxChanges,   \* bound: changes of the catalog
    MaxVisits,    \* bound: visits of a video page
    MaxDrops,     \* bound: connections that break
    MaxLost,      \* bound: events that are not published
    MaxFailures   \* bound: requests of the page that fail

ASSUME NamesAssumption ==
    /\ {None, Failed, Open, Resync} \cap Video = {}
    /\ {None, Failed} \cap Nat = {}
    /\ None # Resync
ASSUME LimitsAssumption == {MaxChanges, MaxVisits, MaxDrops, MaxLost, MaxFailures} \subseteq Nat

VARIABLES
    (* the catalog service *)
    version,      \* of every video, as committed
    unannounced,  \* committed changes of every video that are not published yet
    subscribed,   \* subscribe() of this page's stream listens to CHANNEL
    (* the connection *)
    link,         \* down or up
    stream,       \* what was sent to the page and not handled, oldest first
    (* the page *)
    connectedBefore,
    lists,        \* the answers of the GET /videos under way, None before it is made
    videos,       \* the list it has
    page,         \* the video whose VideoPage is open, or None
    lastChange,   \* the change its effect has not seen yet, or None
    fetches,      \* the GET /videos/{id} under way
    shown,        \* the version it shows, None (spinner) or Failed
    (* history and budgets *)
    newest,       \* the newest list it ever got
    missed,       \* videos with a change that did not reach it, since the last resync
    skipped,      \* a change of the open video was replaced by another before its effect saw it
    spent

server == <<version, unannounced>>
connection == <<subscribed, link, stream, connectedBefore>>
grid == <<lists, videos, newest>>
player == <<page, fetches, shown>>
vars == <<version, unannounced, subscribed, link, stream, connectedBefore, lists, videos, page,
          lastChange, fetches, shown, newest, missed, skipped, spent>>

Spend(kind, max) ==
    /\ spent[kind] < max
    /\ spent' = [spent EXCEPT ![kind] = @ + 1]

\* Shell is mounted: loadVideos and subscribeToCatalog are called, at the grid.
Init ==
    /\ version = [v \in Video |-> 0]
    /\ unannounced = [v \in Video |-> 0]
    /\ subscribed = FALSE
    /\ link = "down"
    /\ stream = <<>>
    /\ connectedBefore = FALSE
    /\ lists = <<None>>
    /\ videos = [v \in Video |-> 0]
    /\ page = None
    /\ lastChange = None
    /\ fetches = {}
    /\ shown = None
    /\ newest = [v \in Video |-> 0]
    /\ missed = {}
    /\ skipped = FALSE
    /\ spent = [changes |-> 0, visits |-> 0, drops |-> 0, lost |-> 0, failures |-> 0]

-----------------------------------------------------------------------------
(* The catalog service: every change commits and then publishes. *)

Commit(v) ==
    /\ Spend("changes", MaxChanges)
    /\ version' = [version EXCEPT ![v] = @ + 1]
    /\ unannounced' = [unannounced EXCEPT ![v] = @ + 1]
    /\ UNCHANGED <<connection, grid, player, lastChange, missed, skipped>>

Announced(v) ==
    /\ unannounced[v] > 0
    /\ unannounced' = [unannounced EXCEPT ![v] = @ - 1]
    /\ UNCHANGED version

Publish(v) ==
    /\ Announced(v)
    /\ IF subscribed
       THEN stream' = Append(stream, v) /\ UNCHANGED missed
       ELSE missed' = missed \cup {v} /\ UNCHANGED stream
    /\ UNCHANGED <<subscribed, link, connectedBefore, grid, player, lastChange, skipped, spent>>

\* Redis did not take the message, or the process died before.
PublishFails(v) ==
    /\ Announced(v)
    /\ Spend("lost", MaxLost)
    /\ missed' = missed \cup {v}
    /\ UNCHANGED <<connection, grid, player, lastChange, skipped>>

\* The response to GET /events starts ...
Connect ==
    /\ link = "down"
    /\ link' = "up"
    /\ stream' = Append(stream, Open)
    /\ UNCHANGED <<server, subscribed, connectedBefore, grid, player, lastChange, missed,
                   skipped, spent>>

\* ... before its generator has subscribed.
Subscribe ==
    /\ link = "up"
    /\ ~subscribed
    /\ subscribed' = TRUE
    /\ UNCHANGED <<server, link, stream, connectedBefore, grid, player, lastChange, missed,
                   skipped, spent>>

\* The connection breaks, and what the browser has not received is lost with it.
Drop ==
    /\ link = "up"
    /\ Spend("drops", MaxDrops)
    /\ link' = "down"
    /\ subscribed' = FALSE
    /\ \E n \in 0 .. Len(stream) :
          /\ stream' = SubSeq(stream, 1, n)
          /\ missed' = missed \cup {v \in Video : \E i \in (n + 1) .. Len(stream) : stream[i] = v}
    /\ UNCHANGED <<server, connectedBefore, grid, player, lastChange, skipped>>

-----------------------------------------------------------------------------
(* The subscription of the page. *)

Concerns(c) == c \in {page, Resync}

\* The onChange of Shell: loadVideos, and setLastChange for the page that is open.  Two
\* changes handled before the next rendering leave one lastChange, the second.
OnChange(c) ==
    /\ lists' = Append(lists, None)
    /\ IF page = None
       THEN UNCHANGED <<lastChange, skipped>>
       ELSE /\ lastChange' = c
            /\ skipped' = (skipped \/ (Concerns(lastChange) /\ ~Concerns(c)))
    /\ UNCHANGED <<videos, newest>>

\* Mutant: the list is not loaded again after a reconnect.
OnOpenQuietly ==
    /\ stream # <<>> /\ Head(stream) = Open
    /\ stream' = Tail(stream)
    /\ connectedBefore' = TRUE
    /\ IF connectedBefore
       THEN missed' = {} /\ UNCHANGED <<grid, lastChange, skipped>>
       ELSE UNCHANGED <<grid, lastChange, skipped, missed>>
    /\ UNCHANGED <<server, subscribed, link, player, spent>>

OnOpen ==
    /\ stream # <<>> /\ Head(stream) = Open
    /\ stream' = Tail(stream)
    /\ connectedBefore' = TRUE
    /\ IF connectedBefore
       THEN OnChange(Resync) /\ missed' = {}
       ELSE UNCHANGED <<grid, lastChange, skipped, missed>>
    /\ UNCHANGED <<server, subscribed, link, player, spent>>

OnMessage ==
    /\ stream # <<>> /\ Head(stream) \in Video
    /\ stream' = Tail(stream)
    /\ OnChange(Head(stream))
    /\ UNCHANGED <<server, subscribed, link, connectedBefore, player, missed, spent>>

-----------------------------------------------------------------------------
(* loadVideos: requests may overlap, and their answers arrive in any order. *)

AnswerList(i) ==
    /\ lists[i] = None
    /\ lists' = [lists EXCEPT ![i] = version]
    /\ UNCHANGED <<server, connection, videos, newest, player, lastChange, missed, skipped, spent>>

ReceiveList(i) ==
    /\ lists[i] # None
    /\ lists' = RemoveAt(lists, i)
    /\ videos' = lists[i]
    /\ newest' = IF \E v \in Video : lists[i][v] > newest[v] THEN lists[i] ELSE newest
    /\ UNCHANGED <<server, connection, player, lastChange, missed, skipped, spent>>

\* Mutant: the list is set whether or not the request succeeded.
ListFailsBlank(i) ==
    /\ Spend("failures", MaxFailures)
    /\ lists' = RemoveAt(lists, i)
    /\ videos' = lists[i]
    /\ UNCHANGED <<server, connection, newest, player, lastChange, missed, skipped>>

ListFails(i) ==
    /\ Spend("failures", MaxFailures)
    /\ lists' = RemoveAt(lists, i)
    /\ UNCHANGED <<server, connection, videos, newest, player, lastChange, missed, skipped>>

-----------------------------------------------------------------------------
(* The video page. *)

\* Mutant: the effect has no cleanup.
RefetchOnly(v) ==
    /\ fetches' = fetches \cup {[video |-> v, answer |-> None, cancelled |-> FALSE]}
    /\ skipped' = FALSE

\* Its fetch effect runs again, and the cleanup cancels the fetch before.
Refetch(v) ==
    /\ fetches' = {[f EXCEPT !.cancelled = TRUE] : f \in fetches}
                      \cup {[video |-> v, answer |-> None, cancelled |-> FALSE]}
    /\ skipped' = FALSE

\* A page that was not open counts what Shell already had as handled.
Visit(v) ==
    /\ page # v
    /\ Spend("visits", MaxVisits)
    /\ page' = v
    /\ shown' = None
    /\ lastChange' = IF page = None THEN None ELSE lastChange
    /\ Refetch(v)
    /\ UNCHANGED <<server, connection, grid, missed>>

Leave ==
    /\ page # None
    /\ page' = None
    /\ shown' = None
    /\ lastChange' = None
    /\ skipped' = FALSE
    /\ fetches' = {[f EXCEPT !.cancelled = TRUE] : f \in fetches}
    /\ UNCHANGED <<server, connection, grid, missed, spent>>

\* Mutant: the page looks at the changes of its video only.
SeeOwnChange ==
    /\ lastChange # None
    /\ lastChange' = None
    /\ IF lastChange = page
       THEN Refetch(page)
       ELSE UNCHANGED <<fetches, skipped>>
    /\ UNCHANGED <<server, connection, grid, page, shown, missed, spent>>

\* Shell has rendered, and the effect on lastChange runs.
SeeChange ==
    /\ lastChange # None
    /\ lastChange' = None
    /\ IF Concerns(lastChange)
       THEN Refetch(page)
       ELSE UNCHANGED <<fetches, skipped>>
    /\ UNCHANGED <<server, connection, grid, page, shown, missed, spent>>

AnswerFetch(f) ==
    /\ f.answer = None
    /\ fetches' = (fetches \ {f}) \cup {[f EXCEPT !.answer = version[f.video]]}
    /\ UNCHANGED <<server, connection, grid, page, shown, lastChange, missed, skipped, spent>>

ReceiveFetch(f) ==
    /\ f.answer # None
    /\ fetches' = fetches \ {f}
    /\ shown' = IF f.cancelled THEN shown ELSE f.answer
    /\ UNCHANGED <<server, connection, grid, page, lastChange, missed, skipped, spent>>

FetchFails(f) ==
    /\ Spend("failures", MaxFailures)
    /\ fetches' = fetches \ {f}
    /\ shown' = IF f.cancelled THEN shown ELSE Failed
    /\ UNCHANGED <<server, connection, grid, page, lastChange, missed, skipped>>

-----------------------------------------------------------------------------
Next ==
    \/ \E v \in Video : Commit(v) \/ Publish(v) \/ PublishFails(v) \/ Visit(v)
    \/ Connect \/ Subscribe \/ Drop
    \/ OnOpen \/ OnMessage \/ SeeChange \/ Leave
    \/ \E i \in 1 .. Len(lists) : AnswerList(i) \/ ReceiveList(i) \/ ListFails(i)
    \/ \E f \in fetches : AnswerFetch(f) \/ ReceiveFetch(f) \/ FetchFails(f)

Spec == Init /\ [][Next]_vars

-----------------------------------------------------------------------------
(* Properties. *)

Versions == 0 .. MaxChanges
Lists == [Video -> Versions]

TypeOK ==
    /\ version \in Lists
    /\ unannounced \in Lists
    /\ subscribed \in BOOLEAN
    /\ link \in {"down", "up"}
    /\ stream \in Seq(Video \cup {Open})
    /\ connectedBefore \in BOOLEAN
    /\ lists \in Seq(Lists \cup {None})
    /\ videos \in Lists
    /\ page \in Video \cup {None}
    /\ lastChange \in Video \cup {Resync, None}
    /\ fetches \subseteq [video : Video, answer : Versions \cup {None}, cancelled : BOOLEAN]
    /\ shown \in Versions \cup {None, Failed}
    /\ newest \in Lists
    /\ missed \subseteq Video
    /\ skipped \in BOOLEAN
    /\ spent \in [changes : 0 .. MaxChanges, visits : 0 .. MaxVisits, drops : 0 .. MaxDrops,
                  lost : 0 .. MaxLost, failures : 0 .. MaxFailures]

\* Nothing is under way between the service and the page.
AtRest ==
    /\ \A v \in Video : unannounced[v] = 0
    /\ subscribed
    /\ stream = <<>>
    /\ lists = <<>>
    /\ lastChange = None
    /\ \A f \in fetches : f.cancelled

\* "After a dropped connection comes back it's called with resync, since changes may have
\* been missed in between" (api.js): at rest, the page has been sent a list with every
\* change, but for those published before its stream was subscribed or not at all.
EveryChangeIsLoaded ==
    AtRest /\ spent.failures = 0 => \A v \in Video \ missed : newest[v] = version[v]

\* The open video page is up to date at rest, but for the same changes, and for one that
\* another change replaced before the page saw it.
PageIsCurrent ==
    AtRest /\ page \notin missed \cup {None} /\ ~skipped => shown \in {version[page], Failed}

\* As long as a video page is open, what it shows never goes back to an older version,
\* though its requests overlap: the cancelled flag of VideoPage.
PageNeverGoesBack ==
    [][page' = page /\ {shown, shown'} \subseteq Versions => shown' >= shown]_vars

\* "A video page that's open when its video is deleted swaps the player for a message"
\* (README.md): the same as PageIsCurrent without the exception of a replaced change.
PageFollows ==
    AtRest /\ page \notin missed \cup {None} => shown \in {version[page], Failed}
=============================================================================
