----------------------------- MODULE GConfEngine -----------------------------
(***************************************************************************)
(* GConfEngine: the D-Bus library in a program that uses gconfd, across      *)
(* gconfd's going and coming back.                                           *)
(*                                                                          *)
(* A program has one engine for each database it has opened; the engine      *)
(* remembers the object path of its database and the requests the program    *)
(* made.  When gconfd goes, the paths and the requests at the daemon are     *)
(* void.  The library hears of it from the bus (NameOwnerChanged) and, when  *)
(* the daemon is back or is needed again, asks for every path anew and adds  *)
(* every request again.                                                      *)
(*                                                                          *)
(* The library blocks in its D-Bus calls and dispatches nothing meanwhile;   *)
(* other programs and the daemon go on.  A step makes one call.  A call to   *)
(* an absent daemon makes the bus start it, or fails; one the daemon dies    *)
(* in fails.                                                                 *)
(***************************************************************************)
EXTENDS GConfServer, Sequences

CONSTANTS
    Opens,      \* the databases each program may open
    MaxHeld,    \* bound on the requests a program holds for one section, and
                \*     on those it finds listed when it adds another
    Unrefs,     \* programs may drop engines
    Orderly     \* gconfd goes only between calls, and a program changes its
                \*     requests only when it has noticed and recovered

ASSUME OpensAssumption == Opens \in [Clients -> SUBSET Databases]

ASSUME EngineBoundsAssumption == MaxHeld \in Nat \ {0} /\ {Unrefs, Orderly} \subseteq BOOLEAN

VARIABLES
    alive,      \* programs connected to the bus
    queue,      \* NameOwnerChanged signals a program has yet to dispatch
    running,    \* service_running
    reconnect,  \* needs_reconnect
    opened,     \* the program's engines
    database,   \* GConfEngine.database
    known,      \* engines_by_db: the engine found under a path
    held,       \* notify_ids: requests of each engine, by section
    op          \* the library call under way

envars == <<alive, queue, running, reconnect, opened, database, known, held, op>>
vars == <<svvars, envars>>

Calls == {"none", "open", "use", "add", "remove"}
NoSection == "no section"

(* The stage of a call: "ensure", ensure_service and the check of            *)
(* needs_reconnect; "reset" and "readd", the loops of reinitialize_databases, *)
(* with the engines and the requests still to visit; "obtain", asking for    *)
(* the path; "send", the call proper.  A program that "crashed" is no more.  *)
Op == [pc : {"idle", "ensure", "reset", "readd", "obtain", "send", "crashed"},
       call : Calls, db : Databases, section : Sections \cup {NoSection},
       todo : SUBSET Databases,
       adds : [Databases -> [Sections -> Nat]]]

NoAdds == [d \in Databases |-> [s \in Sections |-> 0]]
Idle == [pc |-> "idle", call |-> "none", db |-> Default,
         section |-> NoSection, todo |-> {}, adds |-> NoAdds]

(* engines_by_db maps a path to a set: empty, or one engine.                 *)
TypeOK ==
    /\ SvTypeOK
    /\ alive \in [Clients -> BOOLEAN]
    /\ queue \in [Clients -> Seq({"gone", "back"})]
    /\ running \in [Clients -> BOOLEAN]
    /\ reconnect \in [Clients -> BOOLEAN]
    /\ opened \in [Clients -> SUBSET Databases]
    /\ database \in [Clients -> [Databases -> Paths \cup {NoPath}]]
    /\ known \in [Clients -> [Paths -> SUBSET Databases]]
    /\ held \in [Clients -> [Databases -> [Sections -> Nat]]]
    /\ op \in [Clients -> Op]

Init ==
    /\ SvInit
    /\ alive = [c \in Clients |-> TRUE]
    /\ queue = [c \in Clients |-> <<>>]
    /\ running = [c \in Clients |-> FALSE]
    /\ reconnect = [c \in Clients |-> FALSE]
    /\ opened = [c \in Clients |-> {}]
    /\ database = [c \in Clients |-> Unloaded]
    /\ known = [c \in Clients |-> [p \in Paths |-> {}]]
    /\ held = [c \in Clients |-> NoAdds]
    /\ op = [c \in Clients |-> Idle]

-----------------------------------------------------------------------------
(* The bus.                                                                  *)

Broadcast(signal) ==
    queue' = [c \in Clients |-> IF alive[c] THEN Append(queue[c], signal)
                                            ELSE queue[c]]

(* Nothing of gconfd's going is left for c to notice or to recover from.     *)
Recovered(c) == queue[c] = <<>> /\ ~ reconnect[c]
Quiet(c) == ~ alive[c] \/ (op[c] = Idle /\ Recovered(c))

Gone ==
    /\ Orderly => \A c \in Clients : Quiet(c)
    /\ ServerGoes
    /\ Broadcast("gone")
    /\ UNCHANGED <<alive, running, reconnect, opened, database, known, held, op>>

(* Any program's call or request may have started it.                        *)
Back ==
    /\ ServerStarts
    /\ Broadcast("back")
    /\ UNCHANGED <<alive, running, reconnect, opened, database, known, held, op>>

-----------------------------------------------------------------------------
(* The engines of a program.                                                 *)

(* The entry goes and the engine keeps its path.                             *)
DetachEntry(c, d) ==
    /\ known' = [known EXCEPT ![c][database[c][d]] = {}]
    /\ UNCHANGED database

(* gconf_engine_detach: database_hash_value_destroy unsets the path of the   *)
(* engine the entry names.                                                   *)
Detach(c, d) ==
    LET p == database[c][d] IN
    /\ known' = [known EXCEPT ![c][p] = {}]
    /\ database' = [database EXCEPT ![c] =
                       [e \in Databases |-> IF e \in known[c][p] THEN NoPath
                                            ELSE database[c][e]]]

(* gconf_engine_set_database with the path p, for an engine that has none:    *)
(* the engine already found under p loses the entry, and its path.           *)
Attach(c, d, p) ==
    /\ known' = [known EXCEPT ![c] =
                    [q \in Paths |-> IF q = p THEN {d} ELSE @[q] \ {d}]]
    /\ database' = [database EXCEPT ![c] =
                       [e \in Databases |->
                           IF e = d THEN p
                           ELSE IF e \in known[c][p] THEN NoPath
                           ELSE database[c][e]]]

Goto(c, pc) == op' = [op EXCEPT ![c].pc = pc]

(* The paths are asked for anew, the requests forgotten.                     *)
ReinitializePaths(c) ==
    op' = [op EXCEPT ![c].pc = "reset",
                     ![c].todo = UNION {known[c][p] : p \in Paths}]

(* reinitialize_databases: first every engine found in the table, ...        *)
Reinitialize(c) ==
    op' = [op EXCEPT ![c].pc = "reset", ![c].todo = UNION {known[c][p] : p \in Paths},
                     ![c].adds = [d \in Databases |->
                                     IF \E p \in Paths : d \in known[c][p]
                                     THEN held[c][d] ELSE NoAdds[d]]]

(* The call goes on with the path the engine has, or asks for it.            *)
Proceed(c, path_c) == IF path_c[op[c].db] = NoPath THEN "obtain" ELSE "send"

Finish(c) == op' = [op EXCEPT ![c] = Idle]

-----------------------------------------------------------------------------
(* Signals, dispatched from the main loop.                                   *)

(* Without the note that paths and requests are void.                        *)
NoticeStopped(c) ==
    /\ op[c] = Idle /\ alive[c]
    /\ queue[c] # <<>> /\ Head(queue[c]) = "gone"
    /\ queue' = [queue EXCEPT ![c] = Tail(@)]
    /\ running' = [running EXCEPT ![c] = FALSE]
    /\ UNCHANGED <<svvars, alive, reconnect, opened, database, known, held, op>>

NoticeGone(c) ==
    /\ op[c] = Idle /\ alive[c]
    /\ queue[c] # <<>> /\ Head(queue[c]) = "gone"
    /\ queue' = [queue EXCEPT ![c] = Tail(@)]
    /\ running' = [running EXCEPT ![c] = FALSE]
    /\ reconnect' = [reconnect EXCEPT ![c] = TRUE]
    /\ UNCHANGED <<svvars, alive, opened, database, known, held, op>>

(* Recovers although a call has recovered before; and never recovers.        *)
NoticeRunning(c) ==
    /\ op[c] = Idle /\ alive[c]
    /\ queue[c] # <<>> /\ Head(queue[c]) = "back"
    /\ queue' = [queue EXCEPT ![c] = Tail(@)]
    /\ running' = [running EXCEPT ![c] = TRUE]
    /\ UNCHANGED <<svvars, alive, reconnect, opened, database, known, held, op>>

NoticeBack(c) ==
    /\ op[c] = Idle /\ alive[c]
    /\ queue[c] # <<>> /\ Head(queue[c]) = "back"
    /\ queue' = [queue EXCEPT ![c] = Tail(@)]
    /\ running' = [running EXCEPT ![c] = TRUE]
    /\ reconnect' = [reconnect EXCEPT ![c] = FALSE]
    /\ IF reconnect[c] THEN Reinitialize(c) ELSE UNCHANGED op
    /\ UNCHANGED <<svvars, alive, opened, database, known, held>>

-----------------------------------------------------------------------------
(* Calls of the library.                                                     *)

Start(c, call, d, s) ==
    /\ alive[c] /\ op[c] = Idle
    /\ op' = [op EXCEPT ![c].pc = "ensure", ![c].call = call,
                        ![c].db = d, ![c].section = s]
    /\ UNCHANGED <<svvars, alive, queue, running, reconnect, database, known>>

(* gconf_engine_get_for_address asks for the database at once ...            *)
OpenEngine(c, d) ==
    /\ d \in Opens[c] \ (opened[c] \cup {Default})
    /\ opened' = [opened EXCEPT ![c] = @ \cup {d}]
    /\ Start(c, "open", d, NoSection)
    /\ UNCHANGED held

(* ... gconf_engine_get_default when the engine is used.                     *)
OpenDefault(c) ==
    /\ alive[c] /\ op[c] = Idle
    /\ Default \in Opens[c] \ opened[c]
    /\ opened' = [opened EXCEPT ![c] = @ \cup {Default}]
    /\ UNCHANGED <<svvars, alive, queue, running, reconnect, database, known, held, op>>

(* A read or a write, for what it does to the table of engines.              *)
Use(c, d) ==
    /\ d \in opened[c]
    /\ Start(c, "use", d, NoSection)
    /\ UNCHANGED <<opened, held>>

(* The connection is in notify_ids before the daemon is asked.               *)
NotifyAdd(c, d, s) ==
    /\ d \in opened[c]
    /\ Orderly => Recovered(c)
    /\ held[c][d][s] < MaxHeld /\ listed[d][c][s] <= MaxHeld
    /\ held' = [held EXCEPT ![c][d][s] = @ + 1]
    /\ Start(c, "add", d, s)
    /\ UNCHANGED opened

NotifyRemove(c, d, s) ==
    /\ d \in opened[c]
    /\ Orderly => Recovered(c)
    /\ held[c][d][s] > 0
    /\ held' = [held EXCEPT ![c][d][s] = @ - 1]
    /\ Start(c, "remove", d, s)
    /\ UNCHANGED opened

(* gconf_engine_unref of the last reference.  The requests stay listed.      *)
Unref(c, d) ==
    /\ alive[c] /\ op[c] = Idle
    /\ d \in opened[c] /\ Unrefs
    /\ opened' = [opened EXCEPT ![c] = @ \ {d}]
    /\ held' = [held EXCEPT ![c][d] = NoAdds[d]]
    /\ IF database[c][d] = NoPath THEN UNCHANGED <<database, known>>
                                  ELSE Detach(c, d)
    /\ UNCHANGED <<svvars, alive, queue, running, reconnect, op>>

Exit(c) ==
    /\ alive[c] /\ op[c] = Idle
    /\ alive' = [alive EXCEPT ![c] = FALSE]
    /\ queue' = [queue EXCEPT ![c] = <<>>]
    /\ held' = [held EXCEPT ![c] = NoAdds]
    /\ ClientVanishes(c)
    /\ UNCHANGED <<running, reconnect, opened, database, known, op>>

-----------------------------------------------------------------------------
(* The stages of a call.                                                     *)

(* ensure_service: the bus reports success when gconfd is up already.        *)
Ensure(c) ==
    /\ op[c].pc = "ensure"
    /\ running[c] \/ up
    /\ running' = [running EXCEPT ![c] = TRUE]
    /\ reconnect' = [reconnect EXCEPT ![c] = FALSE]
    /\ IF reconnect[c] THEN Reinitialize(c)
                       ELSE Goto(c, Proceed(c, database[c]))
    /\ UNCHANGED <<svvars, alive, queue, opened, database, known, held>>

(* One engine of the first loop: out of the table, and back under the path   *)
(* gconfd gives it.  Without a path there is no key to look up: the library  *)
(* dereferences NULL.                                                        *)
Reset(c, d) ==
    /\ op[c].pc = "reset" /\ d \in op[c].todo
    /\ IF database[c][d] = NoPath
       THEN Goto(c, "crashed") /\ UNCHANGED <<svvars, database, known>>
       ELSE /\ GetDatabase(d)
            /\ Attach(c, d, path'[d])
            /\ op' = [op EXCEPT ![c].todo = @ \ {d}]
    /\ UNCHANGED <<alive, queue, running, reconnect, opened, held>>

(* The call for the path fails: the engine stays out of the table.           *)
ResetFails(c, d) ==
    /\ op[c].pc = "reset" /\ d \in op[c].todo /\ ~ up
    /\ database[c][d] # NoPath
    /\ Detach(c, d)
    /\ op' = [op EXCEPT ![c].todo = @ \ {d}]
    /\ UNCHANGED <<svvars, alive, queue, running, reconnect, opened, held>>

ResetDone(c) ==
    /\ op[c].pc = "reset" /\ op[c].todo = {}
    /\ Goto(c, "readd")
    /\ UNCHANGED <<svvars, alive, queue, running, reconnect, opened, database,
                   known, held>>

(* One request of the second loop: the path first, if the engine has none.   *)
ReaddObtains(c, d) ==
    /\ op[c].pc = "readd" /\ op[c].adds[d] # NoAdds[d]
    /\ database[c][d] = NoPath
    /\ GetDatabase(d)
    /\ Attach(c, d, path'[d])
    /\ UNCHANGED <<alive, queue, running, reconnect, opened, held, op>>

Readd(c, d, s) ==
    /\ op[c].pc = "readd" /\ op[c].adds[d][s] > 0
    /\ database[c][d] # NoPath
    /\ \E e \in ObjectAt(database[c][d]) : AddNotify(e, c, s)
    /\ op' = [op EXCEPT ![c].adds[d][s] = @ - 1]
    /\ UNCHANGED <<alive, queue, running, reconnect, opened, database, known, held>>

(* Its error is ignored.                                                     *)
ReaddFails(c, d, s) ==
    /\ op[c].pc = "readd" /\ op[c].adds[d][s] > 0
    /\ ~ up \/ (database[c][d] # NoPath /\ ObjectAt(database[c][d]) = {})
    /\ op' = [op EXCEPT ![c].adds[d][s] = @ - 1]
    /\ UNCHANGED <<svvars, alive, queue, running, reconnect, opened, database,
                   known, held>>

(* Back to the main loop, or on with the call that found out.                *)
ReaddDone(c) ==
    /\ op[c].pc = "readd" /\ op[c].adds = NoAdds
    /\ IF op[c].call = "none" THEN Finish(c)
                              ELSE Goto(c, Proceed(c, database[c]))
    /\ UNCHANGED <<svvars, alive, queue, running, reconnect, opened, database,
                   known, held>>

Obtain(c) ==
    /\ op[c].pc = "obtain"
    /\ GetDatabase(op[c].db)
    /\ Attach(c, op[c].db, path'[op[c].db])
    /\ IF op[c].call = "open" THEN Finish(c) ELSE Goto(c, "send")
    /\ UNCHANGED <<alive, queue, running, reconnect, opened, held>>

(* The call proper, to whatever is at the path the engine has.               *)
Send(c) ==
    /\ op[c].pc = "send"
    /\ \E e \in ObjectAt(database[c][op[c].db]) :
          CASE op[c].call = "add" -> AddNotify(e, c, op[c].section)
            [] op[c].call = "remove" -> RemoveNotify(e, c, op[c].section)
            [] OTHER -> UNCHANGED svvars
    /\ Finish(c)
    /\ UNCHANGED <<alive, queue, running, reconnect, opened, database, known, held>>

(* gconfd cannot be started, dies in the call, or has nothing at the path:   *)
(* a request that was being added is forgotten, an engine that was being     *)
(* opened is dropped.                                                        *)
CallFails(c) ==
    /\ \/ op[c].pc = "ensure" /\ ~ running[c] /\ ~ up
       \/ op[c].pc = "obtain" /\ ~ up
       \/ op[c].pc = "send" /\ ObjectAt(database[c][op[c].db]) = {}
    /\ IF op[c].call = "add"
       THEN held' = [held EXCEPT ![c][op[c].db][op[c].section] = @ - 1]
       ELSE UNCHANGED held
    /\ IF op[c].call = "open"
       THEN opened' = [opened EXCEPT ![c] = @ \ {op[c].db}]
       ELSE UNCHANGED opened
    /\ Finish(c)
    /\ UNCHANGED <<svvars, alive, queue, running, reconnect, database, known>>

-----------------------------------------------------------------------------

(* What a program does on its own account, ...                               *)
Api(c) ==
    \/ OpenDefault(c)
    \/ \E d \in Databases : OpenEngine(c, d) \/ Use(c, d) \/ Unref(c, d)
    \/ \E d \in Databases, s \in Sections : NotifyAdd(c, d, s) \/ NotifyRemove(c, d, s)
    \/ Exit(c)

(* ... what its main loop does, ...                                          *)
Dispatch(c) == NoticeGone(c) \/ NoticeBack(c)

(* ... and the rest of a call.                                               *)
CallStep(c) ==
    \/ Ensure(c) \/ ResetDone(c) \/ ReaddDone(c) \/ Obtain(c) \/ Send(c)
    \/ CallFails(c)
    \/ \E d \in Databases : Reset(c, d) \/ ResetFails(c, d) \/ ReaddObtains(c, d)
    \/ \E d \in Databases, s \in Sections : Readd(c, d, s) \/ ReaddFails(c, d, s)

Next ==
    \/ Gone \/ Back
    \/ \E c \in Clients : Api(c) \/ Dispatch(c) \/ CallStep(c)

Spec == Init /\ [][Next]_vars

(* A call that waits gets a reply or an error, and a program that has nothing *)
(* else to do dispatches.                                                    *)
FairSpec ==
    Spec /\ \A c \in Clients : WF_vars(CallStep(c)) /\ SF_vars(Dispatch(c))

-----------------------------------------------------------------------------

(* The table finds every engine that has a path under that path, and no      *)
(* other; and no program dies in it.                                         *)
EngineTableSound ==
    TypeOK /\ \A c \in Clients :
        /\ op[c].pc # "crashed"
        /\ \A d \in Databases, p \in Paths :
              d \in known[c][p] <=> database[c][d] = p

(* A program that knows of nothing left to recover from has only paths that  *)
(* name the databases they named when it asked.                              *)
Settled(c) == alive[c] /\ op[c] = Idle /\ ~ reconnect[c]
              /\ \A i \in DOMAIN queue[c] : queue[c][i] # "gone"

PathsAgree ==
    \A c \in Clients : Settled(c) =>
        \A d \in Databases : database[c][d] # NoPath => path[d] = database[c][d]

(* The requests of a settled program are at the daemon: a change below the   *)
(* section makes a Notify.                                                   *)
RequestsAtDaemon ==
    \A c \in Clients : Settled(c) =>
        \A d \in Databases, s \in Sections : held[c][d][s] <= listed[d][c][s]

(* ... whenever the program calls, while gconfd goes once at most: a second   *)
(* exit can cut a recovery short, and what that loses stays lost.            *)
RequestsSurviveExit == exits <= 1 => RequestsAtDaemon

(* ... and no request at the daemon is one the program does not hold: it is  *)
(* notified once for a change, and not at all after it removed the request.  *)
RequestsExact ==
    \A c \in Clients : Settled(c) =>
        \A d \in Databases, s \in Sections : listed[d][c][s] = held[c][d][s]

(* gconfd counts for a program what it has listed for it, and lists nothing   *)
(* for one that has left the bus.                                            *)
ListsAccounted ==
    /\ CountsAgree
    /\ \A c \in Clients : ~ alive[c] =>
          \A d \in Databases, s \in Sections : listed[d][c][s] = 0

(* A request that a running gconfd does not have is added (again), unless    *)
(* the program drops it or leaves, or gconfd goes once more.                 *)
RequestsComeBack ==
    \A c \in Clients, d \in Databases, s \in Sections :
        (up /\ held[c][d][s] > 0) ~>
            (~ up \/ held[c][d][s] = 0 \/ listed[d][c][s] > 0)
=============================================================================
