-------------------------------- MODULE Serve --------------------------------
(***************************************************************************)
(* The warm server and its clients (src/internal/serve/serve.go,           *)
(* src/cmd/serve_helpers.go): `ask` commands that find a server at a socket*)
(* path, start one, wait for it or run themselves; servers that take the   *)
(* path over from each other; requests that may never finish; kills.       *)
(*                                                                         *)
(* Time is a clock that winds down the three timers.  A socket file is its *)
(* inode number, which is what os.SameFile compares.                       *)
(***************************************************************************)
EXTENDS Naturals, FiniteSets

CONSTANTS
    Clients,      \* commands that ask, one ask after another
    Servers,      \* server processes that can live at once
    Inodes,       \* inode numbers of socket files
    ReuseInodes,  \* whether a new file can get the number of a removed one
    None,         \* no file, no client
    IdleTime,     \* --idle
    QueueTime,    \* serveQueueTimeout
    AnswerTime    \* serveRequestTimeout

ASSUME ServeAssumption ==
    /\ None \notin Inodes \cup Clients /\ ReuseInodes \in BOOLEAN
    /\ IdleTime \in Nat \ {0} /\ QueueTime \in Nat \ {0} /\ AnswerTime \in Nat \ {0}

VARIABLES
    file,      \* the inode at the socket path, or None
    server,    \* server -> where it is, its listener's inode, the file it statted, ...
    handlers,  \* connections that a server holds
    client     \* client -> where its ask is, its deadline, the bytes it was sent

vars == <<file, server, handlers, client>>

ServerPcs == {"down", "bind", "probe", "remove", "rebind", "listen", "stat", "serve", "drain", "return"}

ServerStates == [pc : ServerPcs, ino : Inodes \cup {None}, own : Inodes \cup {None},
                 idle : 0 .. IdleTime, locked : BOOLEAN]

Down == [pc |-> "down", ino |-> None, own |-> None, idle |-> 0, locked |-> FALSE]

\* A connection: the client whose present ask it carries, or None, whether that
\* client still holds it, and whether it started past the client's deadline.
\* Connections whose clients left before they started are not told apart.
Connections == [srv : Servers, at : {"backlog", "waiting", "probed", "running"},
                cli : Clients \cup {None}, open : BOOLEAN, late : BOOLEAN]

ClientPcs == {"idle", "queued", "started", "local"}

ClientStates == [pc : ClientPcs, left : Nat, got : {"nothing", "ack", "answer"}]

AskState(pc, left, got) == [pc |-> pc, left |-> left, got |-> got]

Idle == AskState("idle", 0, "nothing")

At(s, pc) == server[s].pc = pc

Goto(s, pc) == server' = [server EXCEPT ![s].pc = pc]

Listening(s) == server[s].pc \in {"stat", "serve"}

\* Something accepts connections at the path.
alive == \E s \in Servers : Listening(s) /\ server[s].ino = file /\ file # None

\* A number no file has, and that no running server remembers.
FreeInode(i) ==
    /\ i # file
    /\ \A s \in Servers : server[s].ino # i
    /\ ReuseInodes \/ \A s \in Servers : server[s].own # i

Init ==
    /\ file \in {None} \cup Inodes        \* what a killed server left
    /\ server = [s \in Servers |-> Down]
    /\ handlers = {}
    /\ client = [c \in Clients |-> Idle]

-----------------------------------------------------------------------------
(* A server comes up *)

\* Binding creates the file; it does not accept connections yet.
Bound(s) ==
    \E i \in Inodes :
        /\ FreeInode(i)
        /\ file' = i
        /\ server' = [server EXCEPT ![s] = [@ EXCEPT !.pc = "listen", !.ino = i]]

Bind(s) ==
    /\ At(s, "bind")
    /\ IF file = None THEN Bound(s) ELSE Goto(s, "probe") /\ UNCHANGED file
    /\ UNCHANGED <<handlers, client>>

Exit(s) == server' = [server EXCEPT ![s] = Down]

\* ErrAlreadyServing ends the process.
Probe(s) ==
    /\ At(s, "probe")
    /\ IF alive THEN Exit(s) ELSE Goto(s, "remove")
    /\ UNCHANGED <<file, handlers, client>>

RemoveStale(s) ==
    /\ At(s, "remove")
    /\ file' = None
    /\ Goto(s, "rebind")
    /\ UNCHANGED <<handlers, client>>

\* A second failure is an error, whoever holds the path.
Rebind(s) ==
    /\ At(s, "rebind")
    /\ IF file = None THEN Bound(s) ELSE Exit(s) /\ UNCHANGED file
    /\ UNCHANGED <<handlers, client>>

Listen(s) ==
    /\ At(s, "listen")
    /\ Goto(s, "stat")
    /\ UNCHANGED <<file, handlers, client>>

\* What is at the path by now is taken for the file that was bound.
StatBound(s) ==
    /\ At(s, "stat")
    /\ IF file = None
       THEN Exit(s)
       ELSE server' = [server EXCEPT ![s] = [@ EXCEPT !.pc = "serve", !.own = file, !.idle = IdleTime]]
    /\ handlers' = IF file = None THEN {h \in handlers : h.srv # s} ELSE handlers
    /\ UNCHANGED <<file, client>>

-----------------------------------------------------------------------------
(* A server answers *)

touched(r) == [r EXCEPT !.idle = IdleTime]

\* Fault: accepting a connection counts as activity.
acceptTouch_Counts(r) == touched(r)

acceptTouch(r) == r

\* Its request is read with it.
Accept(s) ==
    /\ At(s, "serve")
    /\ \E h \in handlers :
          /\ h.srv = s /\ h.at = "backlog"
          /\ handlers' = (handlers \ {h}) \cup {[h EXCEPT !.at = "waiting"]}
    /\ server' = [server EXCEPT ![s] = acceptTouch(@)]
    /\ UNCHANGED <<file, client>>

\* Fault: the lock is kept when the client has gone.
afterGone_Locked(r) == [r EXCEPT !.locked = TRUE]

afterGone(r) == r

\* The lock is taken; a request whose client has gone is skipped.
TakeTurn(s) ==
    /\ ~ server[s].locked
    /\ \E h \in handlers :
          /\ h.srv = s /\ h.at = "waiting"
          /\ IF h.open
             THEN /\ handlers' = (handlers \ {h}) \cup {[h EXCEPT !.at = "probed"]}
                  /\ server' = [server EXCEPT ![s].locked = TRUE]
             ELSE /\ handlers' = handlers \ {h}
                  /\ server' = [server EXCEPT ![s] = afterGone(@)]
    /\ UNCHANGED <<file, client>>

\* The start byte.  It reaches a client that holds the connection, even one
\* whose deadline has passed by now.
WriteAck(s) ==
    /\ \E h \in handlers :
          /\ h.srv = s /\ h.at = "probed"
          /\ IF h.open
             THEN /\ handlers' = (handlers \ {h})
                                    \cup {[h EXCEPT !.at = "running", !.late = client[h.cli].left = 0]}
                  /\ client' = [client EXCEPT ![h.cli].got = "ack"]
                  /\ server' = [server EXCEPT ![s] = touched(@)]
             ELSE /\ handlers' = handlers \ {h}
                  /\ server' = [server EXCEPT ![s].locked = FALSE]
                  /\ UNCHANGED client
    /\ UNCHANGED file

\* The command returns, or panics: either way there is an answer.
Finish(s) ==
    /\ \E h \in handlers :
          /\ h.srv = s /\ h.at = "running"
          /\ handlers' = handlers \ {h}
          /\ client' = IF h.open THEN [client EXCEPT ![h.cli].got = "answer"] ELSE client
    /\ server' = [server EXCEPT ![s] = [touched(@) EXCEPT !.locked = FALSE]]
    /\ UNCHANGED file

-----------------------------------------------------------------------------
(* A server goes *)

\* Closing the listener unlinks whatever is at the path.  Connections nobody
\* accepted are reset.
CloseListener(s) ==
    /\ file' = None
    /\ server' = [server EXCEPT ![s] = [@ EXCEPT !.pc = "drain", !.ino = None]]
    /\ handlers' = {h \in handlers : h.srv = s => h.at # "backlog"}
    /\ UNCHANGED client

IdleFires(s) == At(s, "serve") /\ server[s].idle = 0 /\ CloseListener(s)

\* A signal, or a request that left the process over its memory cap.
Cancel(s) == At(s, "serve") /\ CloseListener(s)

Drained(s) == \A h \in handlers : h.srv # s

\* The requests in hand are done: the model is released.
onShutdown(s) ==
    /\ At(s, "drain") /\ Drained(s)
    /\ Goto(s, "return")
    /\ UNCHANGED <<file, handlers, client>>

\* Fault: the path is removed, whoever has bound it.
removeSocket_Any(s) == None

\* What is at the path once s has removed its own file.
removeSocket(s) == IF file = server[s].own THEN None ELSE file

Return(s) ==
    /\ At(s, "return")
    /\ file' = removeSocket(s)
    /\ Exit(s)
    /\ UNCHANGED <<handlers, client>>

\* A kill leaves the file behind.
Kill(s) ==
    /\ ~ At(s, "down")
    /\ Exit(s)
    /\ handlers' = {h \in handlers : h.srv # s}
    /\ UNCHANGED <<file, client>>

-----------------------------------------------------------------------------
(* A client asks *)

\* A connection that its client has closed.
Hung(h) == [h EXCEPT !.open = FALSE, !.cli = IF h.at = "running" THEN @ ELSE None]

\* c closes its connection.
HangUp(c) == handlers' = {IF h.cli = c THEN Hung(h) ELSE h : h \in handlers}

\* What still runs for an earlier ask of c is not the ask it makes now.
Older(c) == {IF h.cli = c THEN [h EXCEPT !.cli = None] ELSE h : h \in handlers}

Becomes(c, r) == client' = [client EXCEPT ![c] = r]

startServer(s) == At(s, "down") /\ Goto(s, "bind")

\* Nothing answers at the path: this ask runs here, and a server is started for
\* the next one, unless that fails.
AskNoServer(c) ==
    /\ client[c].pc = "idle" /\ ~ alive
    /\ Becomes(c, AskState("local", 0, "nothing"))
    /\ UNCHANGED server \/ \E s \in Servers : startServer(s)
    /\ handlers' = Older(c)
    /\ UNCHANGED file

\* The directory is not private, or connecting or sending fails.
AskUnreachable(c) ==
    /\ client[c].pc = "idle"
    /\ Becomes(c, AskState("local", 0, "nothing"))
    /\ handlers' = Older(c)
    /\ UNCHANGED <<file, server>>

AskServer(c) ==
    /\ client[c].pc = "idle"
    /\ \E s \in Servers :
          /\ Listening(s) /\ server[s].ino = file
          /\ handlers' = Older(c) \cup {[srv |-> s, at |-> "backlog", cli |-> c,
                                         open |-> TRUE, late |-> FALSE]}
    /\ Becomes(c, AskState("queued", QueueTime, "nothing"))
    /\ UNCHANGED <<file, server>>

readAck(c) ==
    /\ client[c].pc = "queued" /\ client[c].left > 0 /\ client[c].got # "nothing"
    /\ Becomes(c, AskState("started", AnswerTime, client[c].got))
    /\ UNCHANGED <<file, server, handlers>>

ReadAnswer(c) ==
    /\ client[c].pc = "started" /\ client[c].got = "answer"
    /\ Becomes(c, Idle)
    /\ UNCHANGED <<file, server, handlers>>

\* The server closed the connection, or died, and sent no more.
ReadEnd(c) ==
    /\ \/ client[c].pc = "queued" /\ client[c].got = "nothing"
       \/ client[c].pc = "started" /\ client[c].got # "answer"
    /\ \A h \in handlers : h.cli = c => ~ h.open
    /\ Becomes(c, AskState("local", 0, "nothing"))
    /\ UNCHANGED <<file, server, handlers>>

\* Fault: the wait for the start has no deadline.
queueOver_Never(c) == FALSE

queueOver(c) == client[c].pc = "queued" /\ client[c].left = 0

\* Still queued: the client leaves, and runs the ask itself.
QueueTimeout(c) ==
    /\ queueOver(c)
    /\ Becomes(c, AskState("local", 0, "nothing"))
    /\ HangUp(c)
    /\ UNCHANGED <<file, server>>

\* Fault: an ask that is not answered in time is run again.
afterTotal_Rerun == AskState("local", 0, "nothing")

\* The ask fails and is not run again.
afterTotal == Idle

AnswerTimeout(c) ==
    /\ client[c].pc = "started" /\ client[c].left = 0
    /\ Becomes(c, afterTotal)
    /\ HangUp(c)
    /\ UNCHANGED <<file, server>>

LocalDone(c) ==
    /\ client[c].pc = "local"
    /\ Becomes(c, Idle)
    /\ UNCHANGED <<file, server, handlers>>

\* A hook's timeout kills the command.
ClientKilled(c) ==
    /\ client[c].pc # "idle"
    /\ Becomes(c, Idle)
    /\ HangUp(c)
    /\ UNCHANGED <<file, server>>

-----------------------------------------------------------------------------
(* Time *)

Less(n) == IF n = 0 THEN 0 ELSE n - 1

\* A start byte that arrived in time is read before the deadline passes.
Tick ==
    /\ \A c \in Clients : ~ (client[c].pc = "queued" /\ client[c].left > 0 /\ client[c].got # "nothing")
    /\ server' = [s \in Servers |-> [server[s] EXCEPT !.idle = Less(@)]]
    /\ client' = [c \in Clients |-> [client[c] EXCEPT !.left = Less(@)]]
    /\ UNCHANGED <<file, handlers>>

Start(s) == Bind(s) \/ Probe(s) \/ RemoveStale(s) \/ Rebind(s) \/ Listen(s) \/ StatBound(s)

Close(s) == IdleFires(s) \/ onShutdown(s) \/ Return(s)

Ask(c) == AskNoServer(c) \/ AskUnreachable(c) \/ AskServer(c)

Wait(c) ==
    readAck(c) \/ ReadAnswer(c) \/ ReadEnd(c) \/ QueueTimeout(c) \/ AnswerTimeout(c) \/ LocalDone(c)

Next ==
    \/ \E s \in Servers :
          \/ Start(s) \/ Accept(s) \/ TakeTurn(s) \/ WriteAck(s) \/ Finish(s)
          \/ Close(s) \/ Cancel(s) \/ Kill(s)
    \/ \E c \in Clients : Ask(c) \/ Wait(c) \/ ClientKilled(c)
    \/ Tick

\* Every goroutine and every command takes its next step, and time passes.
\* Nothing makes a request finish, an ask begin, or a process die.
Fairness ==
    /\ \A s \in Servers :
          WF_vars(Start(s)) /\ WF_vars(Accept(s)) /\ WF_vars(TakeTurn(s)) /\ WF_vars(WriteAck(s))
          /\ WF_vars(Close(s))
    /\ \A c \in Clients : WF_vars(Wait(c))
    /\ SF_vars(Tick)

Spec == Init /\ [][Next]_vars /\ Fairness

-----------------------------------------------------------------------------
(* Properties *)

TypeOK ==
    /\ file \in Inodes \cup {None}
    /\ server \in [Servers -> ServerStates]
    /\ handlers \subseteq Connections
    /\ client \in [Clients -> ClientStates]

\* A client that runs its ask itself is the only one to run it: neither an ask
\* that is still queued, nor one that was started and not answered, is run twice.
\* The one exception is the window the code names: the start byte went out past
\* the client's deadline (serve.go:88, :220, serve_helpers.go:32).
AtMostOneCopy ==
    \A h \in handlers :
        h.at = "running" /\ h.cli # None /\ client[h.cli].pc = "local" => h.late

\* A server that returns removes no socket but the one it bound, although others
\* may have come up at the path since it closed its own (serve.go:282).
ReplacementKept ==
    [][\A s \in Servers :
         Return(s) /\ file # None /\ file' = None =>
            \A r \in Servers : server[r].ino # file]_vars

\* Every ask ends, whatever the server does: it is answered, fails, or runs in
\* its own process (serve.go:340).
EveryAskEnds == \A c \in Clients : client[c].pc # "idle" ~> client[c].pc = "idle"

\* A server whose request never finishes does not stay at the socket, however
\* many clients connect: it goes on serving only while requests start or finish
\* (serve.go:138).
WedgedLetsGo ==
    \A s \in Servers :
        []<>~ At(s, "serve") \/ []<><<\E r \in {s} : WriteAck(r) \/ Finish(r)>>_vars

\* The queue moves: unless a request runs for ever, nobody waits for a turn for
\* ever, whichever of the early returns the turns before took (serve.go:210).
QueueMoves ==
    \A s \in Servers :
        \/ []<>(\E h \in handlers : h.srv = s /\ h.at = "running")
        \/ []<>(\A h \in handlers : h.srv = s => h.at # "waiting")
=============================================================================
