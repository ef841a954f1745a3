-------------------------------- MODULE McpStore --------------------------------
(***************************************************************************)
(* The registry of MCP servers (mcp.rs `list', `save', `remove' and how    *)
(* `tools' and `call_tool' find a server).  Saves and removals exclude     *)
(* each other by CONFIG_LOCK; readers take no lock.  A save moves the old  *)
(* file aside before it moves the new one in, and either move may fail, or *)
(* the program may end in between.                                         *)
(***************************************************************************)
EXTENDS Naturals, FiniteSets

CONSTANTS
  Commands,       \* invocations of commands
  Servers,        \* ids
  NoCommand, NoFile,
  MaxDefinition,  \* the definitions a server may be given are 1 .. MaxDefinition
  MaxCommands,    \* bound: commands begun
  MaxFailures       \* bound: file operations that fail, and ends of the program

VARIABLE store
vars == <<store>>

Definitions == 0..MaxDefinition   \* 0: not registered
Registries == [Servers -> Definitions]
Empty == [s \in Servers |-> 0]
Files == Registries \cup {NoFile}
Content(file) == IF file = NoFile THEN Empty ELSE file

Writers == {"save", "remove"}
Idle == [pc |-> "idle", kind |-> "list", id |-> CHOOSE s \in Servers : TRUE, definition |-> 0,
         seen |-> Empty, backup |-> NoFile]
Pcs == {"idle", "waiting", "loading", "reading", "staged", "aside", "moved"}

TypeOK ==
  /\ store.file \in Files /\ store.saved \in Registries
  /\ store.lock \in Commands \cup {NoCommand}
  /\ \A c \in Commands : LET cmd == store.cmds[c] IN
       /\ cmd.pc \in Pcs /\ cmd.kind \in Writers \cup {"list"} /\ cmd.id \in Servers
       /\ cmd.definition \in Definitions /\ cmd.seen \in Registries /\ cmd.backup \in Files
  /\ store.lost \in BOOLEAN
  /\ store.begun \in 0..MaxCommands /\ store.faults \in 0..MaxFailures

Init ==
  \E file \in {NoFile} \cup {r \in Registries : Cardinality({s \in Servers : r[s] = 1}) = 1} :
    store = [ file |-> file,
              lock |-> NoCommand,             \* CONFIG_LOCK
              cmds |-> [c \in Commands |-> Idle],
              saved |-> Content(file),        \* what the reported saves and removals make, for the properties
              lost |-> FALSE,                 \* a file was moved aside and never came back
              begun |-> 0, faults |-> 0 ]

-----------------------------------------------------------------------------
Cmd(c) == store.cmds[c]
Does(c, cmd) == [store EXCEPT !.cmds[c] = cmd]
Fault == store.faults < MaxFailures
Failed(s) == [s EXCEPT !.faults = @ + 1]
Leaves(s, c) == [s EXCEPT !.cmds[c] = Idle, !.lock = IF @ = c THEN NoCommand ELSE @]

Begin(c) ==
  /\ Cmd(c).pc = "idle" /\ store.begun < MaxCommands
  /\ \E kind \in Writers \cup {"list"}, id \in Servers, d \in Definitions \ {0} :
       /\ kind # "save" => d = 1
       /\ kind = "list" => id = Idle.id
       /\ store' = [Does(c, [Idle EXCEPT !.pc = IF kind = "list" THEN "loading" ELSE "waiting",
                                         !.kind = kind, !.id = id, !.definition = IF kind = "save" THEN d ELSE 0])
                    EXCEPT !.begun = @ + 1]

\* Mutant: the commands do not exclude each other.
Acquire_Unlocked(c) ==
  /\ Cmd(c).pc = "waiting" /\ store' = Does(c, [Cmd(c) EXCEPT !.pc = "loading"])

Acquire(c) ==
  /\ Cmd(c).pc = "waiting" /\ store.lock = NoCommand
  /\ store' = [Does(c, [Cmd(c) EXCEPT !.pc = "loading"]) EXCEPT !.lock = c]

\* load_servers: first whether the file is there ...
Exists(c) ==
  /\ Cmd(c).pc = "loading"
  /\ \/ store.file # NoFile /\ store' = Does(c, [Cmd(c) EXCEPT !.pc = "reading"])
     \/ /\ store.file = NoFile /\ Cmd(c).kind \in Writers
        /\ store' = Does(c, [Cmd(c) EXCEPT !.pc = "staged"])
     \/ store.file = NoFile /\ Cmd(c).kind = "list" /\ store' = Leaves(store, c)
     \/ Fault /\ store' = Failed(Leaves(store, c))

\* ... and then its content; it may have been moved aside in between, and that is
\* an error.  A reader is done with it, a writer stages the new registry.
Read(c) ==
  /\ Cmd(c).pc = "reading"
  /\ \/ store.file = NoFile /\ store' = Leaves(store, c)
     \/ store.file # NoFile /\ Cmd(c).kind = "list" /\ store' = Leaves(store, c)
     \/ /\ store.file # NoFile /\ Cmd(c).kind \in Writers
        /\ store' = Does(c, [Cmd(c) EXCEPT !.pc = "staged", !.seen = store.file])
     \/ Fault /\ store' = Failed(Leaves(store, c))

\* activate_staged_file.  Staging, or the first move, may fail: nothing has changed.
MoveAside(c) ==
  /\ Cmd(c).pc = "staged"
  /\ \/ store' = [Does(c, [Cmd(c) EXCEPT !.pc = "aside", !.backup = store.file]) EXCEPT !.file = NoFile]
     \/ Fault /\ store' = Failed(Leaves(store, c))

New(c) == [Cmd(c).seen EXCEPT ![Cmd(c).id] = Cmd(c).definition]

\* Mutant: when the second move fails, the old file stays aside.
MoveIn_KeepsAside(c) ==
  /\ Cmd(c).pc = "aside"
  /\ \/ store' = [Does(c, [Cmd(c) EXCEPT !.pc = "moved"]) EXCEPT !.file = New(c)]
     \/ Fault /\ store' = Failed(Leaves(store, c))

\* The new file takes the path; if that fails the old one is moved back, and if that
\* fails too the registry is gone.
MoveIn(c) ==
  /\ Cmd(c).pc = "aside"
  /\ \/ store' = [Does(c, [Cmd(c) EXCEPT !.pc = "moved"]) EXCEPT !.file = New(c)]
     \/ Fault /\ store' = [Failed(Leaves(store, c)) EXCEPT !.file = Cmd(c).backup]
     \/ /\ store.faults + 1 < MaxFailures
        /\ store' = [Failed(Failed(Leaves(store, c))) EXCEPT !.lost = @ \/ Cmd(c).backup # NoFile]

\* The backup is removed, if it can be, and the command reports success.
Return(c) ==
  /\ Cmd(c).pc = "moved"
  /\ store' = [Leaves(store, c) EXCEPT !.saved[Cmd(c).id] = Cmd(c).definition]

\* The program ends.  What a command has written but not reported counts.
Dies ==
  /\ Fault /\ \E c \in Commands : Cmd(c).pc # "idle"
  /\ store' = [Failed(store) EXCEPT
       !.cmds = [c \in Commands |-> Idle], !.lock = NoCommand,
       !.saved = IF \E c \in Commands : Cmd(c).pc = "moved" THEN Content(store.file) ELSE @,
       !.lost = @ \/ \E c \in Commands : Cmd(c).pc = "aside" /\ Cmd(c).backup # NoFile]

Next ==
  \/ \E c \in Commands : Begin(c) \/ Acquire(c) \/ Exists(c) \/ Read(c) \/ MoveAside(c) \/ MoveIn(c) \/ Return(c)
  \/ Dies

Spec == Init /\ [][Next]_vars

-----------------------------------------------------------------------------
\* Whenever no command is at work on the file the registry on disk is exactly what
\* the saves and removals that reported success have made of it, though each of them
\* writes the whole file, unless the program ended, or the way back failed, between
\* the two moves.
Kept ==
  ~store.lost /\ (\A c \in Commands : Cmd(c).pc \notin {"aside", "moved"}) =>
    Content(store.file) = store.saved
===============================================================================
