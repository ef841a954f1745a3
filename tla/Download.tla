-------------------------------- MODULE Download --------------------------------
(***************************************************************************)
(* The download of one file of a repository (discover.rs `download', and   *)
(* hf_download_model, hf_cancel_download of lib.rs).  The command holds    *)
(* the operation mutex, so downloads follow each other; a cancellation,    *)
(* other programs that put a file at the destination or take it away, and  *)
(* the end of the program come in between.                                 *)
(***************************************************************************)
EXTENDS Naturals

CONSTANTS
  Contents,      \* what the repository's file may be, from one push to the next
  Size,          \* its length in chunks
  Slack,         \* chunks beyond the length that are still read
  MaxDownloads,  \* bound: downloads begun
  MaxOutside,    \* bound: changes by other programs
  MaxFaults      \* bound: removals that fail, and ends of the program

VARIABLES
  command,  \* the download: where it is, and the cancel flag
  disk,     \* the destination, and how many staging files there are
  ghost     \* for the properties
vars == <<command, disk, ghost>>

Pcs == {"idle", "begun", "listed", "asking", "receiving", "hashing", "verified",
        "activating", "linking", "linked"}
Results == {"none", "complete", "failed", "cancelled"}
Sent == Contents \cup {"damaged"}
Found == Contents \cup {"nothing", "theirs", "damaged", "cut"}

TypeOK ==
  /\ command.pc \in Pcs /\ command.result \in Results /\ command.cancel \in BOOLEAN
  /\ command.expected \in Contents /\ command.sent \in Sent
  /\ command.received \in 0..(Size + Slack)
  /\ disk.target \in Found /\ disk.parts \in 0..MaxDownloads
  /\ ghost.before \in Found /\ {ghost.pressed, ghost.touched, ghost.theirs} \subseteq BOOLEAN
  /\ ghost.downloads \in 0..MaxDownloads /\ ghost.outside \in 0..MaxOutside /\ ghost.faults \in 0..MaxFaults

Init ==
  /\ \E v \in Contents : command = [pc |-> "idle", result |-> "none", cancel |-> FALSE,
                                    expected |-> v, sent |-> v, received |-> 0]
  /\ \E found \in Contents \cup {"nothing", "theirs"} :
       /\ disk = [target |-> found, parts |-> 0]
       /\ ghost = [before |-> found, pressed |-> FALSE, touched |-> FALSE, theirs |-> found = "theirs",
                   downloads |-> 0, outside |-> 0, faults |-> 0]

-----------------------------------------------------------------------------
To(pc) == command' = [command EXCEPT !.pc = pc]
Ends(result) == command' = [command EXCEPT !.pc = "idle", !.result = result]
Fault == ghost.faults < MaxFaults /\ ghost' = [ghost EXCEPT !.faults = @ + 1]

\* The staging file is removed, and if that fails nobody is told.
Discarded ==
  \/ disk' = [disk EXCEPT !.parts = @ - 1] /\ UNCHANGED ghost
  \/ Fault /\ UNCHANGED disk
Drops(result) == Ends(result) /\ Discarded

\* hf_download_model has the operation mutex.
Begin ==
  /\ command.pc = "idle" /\ ghost.downloads < MaxDownloads
  /\ command' = [command EXCEPT !.pc = "begun", !.result = "none", !.cancel = FALSE, !.received = 0]
  /\ ghost' = [ghost EXCEPT !.before = disk.target, !.pressed = FALSE, !.touched = FALSE,
                            !.downloads = @ + 1]
  /\ UNCHANGED disk

\* The repository's listing says what is expected; it may be unreachable, or name
\* no such file or no digest.
List ==
  /\ command.pc = "begun"
  /\ \/ command.cancel /\ Ends("cancelled")
     \/ ~command.cancel /\ Ends("failed")
     \/ ~command.cancel /\ \E v \in Contents : command' = [command EXCEPT !.pc = "listed", !.expected = v]
  /\ UNCHANGED <<disk, ghost>>

\* A file that is there already is compared, never replaced.
Inspect ==
  /\ command.pc = "listed"
  /\ \/ disk.target = "nothing" /\ To("asking")
     \/ disk.target = command.expected /\ Ends("complete")
     \/ disk.target # "nothing" /\ Ends("failed")
  /\ UNCHANGED <<disk, ghost>>

\* What the transport will deliver is open: the file listed, the one pushed
\* since, or something else.  A refused request, another length or a staging file that
\* cannot be created ends the download.
Respond ==
  /\ command.pc = "asking"
  /\ \/ Ends("failed") /\ UNCHANGED disk
     \/ /\ \E s \in Sent : command' = [command EXCEPT !.pc = "receiving", !.sent = s]
        /\ disk' = [disk EXCEPT !.parts = @ + 1]
  /\ UNCHANGED ghost

\* Mutant: a cancelled transfer keeps its staging file.
Chunk_KeepsPart ==
  /\ command.pc = "receiving"
  /\ \/ command.cancel /\ Ends("cancelled") /\ UNCHANGED <<disk, ghost>>
     \/ ~command.cancel /\ command.received < Size + Slack
        /\ command' = [command EXCEPT !.received = @ + 1] /\ UNCHANGED <<disk, ghost>>

\* One chunk: the stream or the disk may fail, the sender may send too much.
Chunk ==
  /\ command.pc = "receiving"
  /\ \/ command.cancel /\ Drops("cancelled")
     \/ Drops("failed")
     \/ /\ ~command.cancel /\ command.received < Size + Slack
        /\ command' = [command EXCEPT !.received = @ + 1] /\ UNCHANGED <<disk, ghost>>

\* The stream has ended, perhaps early, or the last of it cannot be written.
Ended ==
  /\ command.pc = "receiving"
  /\ \/ Drops("failed")
     \/ command.received = Size /\ To("hashing") /\ UNCHANGED <<disk, ghost>>

Content == IF command.received = Size THEN command.sent ELSE "cut"

\* Mutant: the length is all that is compared.
Hash_LengthOnly == command.pc = "hashing" /\ To("verified") /\ UNCHANGED <<disk, ghost>>

Hash ==
  /\ command.pc = "hashing"
  /\ \/ Drops("failed")
     \/ Content = command.expected /\ To("verified") /\ UNCHANGED <<disk, ghost>>

\* Mutant: the flag is read between chunks only.
Check_None == command.pc = "verified" /\ To("activating") /\ UNCHANGED <<disk, ghost>>

\* The last look at the cancel flag.
Check ==
  /\ command.pc = "verified"
  /\ IF command.cancel THEN Drops("cancelled") ELSE To("activating") /\ UNCHANGED <<disk, ghost>>

\* activate_download
Look ==
  /\ command.pc = "activating"
  /\ \/ disk.target = "nothing" /\ To("linking") /\ UNCHANGED <<disk, ghost>>
     \/ Drops("failed")

\* Mutant: a rename, which replaces what has appeared since.
Link_Renames ==
  /\ command.pc = "linking" /\ To("linked")
  /\ disk' = [disk EXCEPT !.target = Content] /\ UNCHANGED ghost

\* A hard link is made only where there is nothing.
Link ==
  /\ command.pc = "linking"
  /\ \/ /\ disk.target = "nothing" /\ To("linked")
        /\ disk' = [disk EXCEPT !.target = Content] /\ UNCHANGED ghost
     \/ Drops("failed")

\* The staging name goes.  If it cannot be removed, it is tried once more and
\* the download fails, although the file is in its place.
Unstage ==
  /\ command.pc = "linked"
  /\ \/ Ends("complete") /\ disk' = [disk EXCEPT !.parts = @ - 1] /\ UNCHANGED ghost
     \/ /\ Ends("failed") /\ Fault
        /\ disk' \in {disk, [disk EXCEPT !.parts = @ - 1]}

\* hf_cancel_download.  In time is what comes before the last look.
Cancel ==
  /\ ~command.cancel /\ command' = [command EXCEPT !.cancel = TRUE]
  /\ ghost' = [ghost EXCEPT !.pressed = command.pc \in Pcs \ {"idle", "activating", "linking", "linked"}]
  /\ UNCHANGED disk

\* The program ends: what was staged stays, for nobody sweeps it.
Dies == command.pc # "idle" /\ Ends("none") /\ Fault /\ UNCHANGED disk

\* Another program puts a file there, or removes it.
Outside ==
  /\ ghost.outside < MaxOutside
  /\ disk' = [disk EXCEPT !.target = IF @ = "nothing" THEN "theirs" ELSE "nothing"]
  /\ ghost' = [ghost EXCEPT !.outside = @ + 1, !.touched = TRUE,
                            !.theirs = disk.target = "nothing"]
  /\ UNCHANGED command

Next ==
  \/ Begin \/ List \/ Inspect \/ Respond \/ Chunk \/ Ended \/ Hash \/ Check \/ Look \/ Link
  \/ Unstage \/ Cancel \/ Dies \/ Outside

Spec == Init /\ [][Next]_vars

-----------------------------------------------------------------------------
\* The destination never holds part of a file or one with another digest, and a
\* file that another program has put there, whenever it did, is not replaced; a
\* download that reports success has put the file the repository listed there or found
\* it, and one that reports anything else has changed nothing.
Whole ==
  /\ disk.target \notin {"cut", "damaged"}
  /\ ghost.theirs = (disk.target = "theirs")
  /\ ~ghost.touched =>
       /\ command.result = "complete" => disk.target = command.expected
       /\ command.result \in {"failed", "cancelled"} /\ ghost.faults = 0 => disk.target = ghost.before

\* However a download ends, no staging file is left, unless the program died or
\* the removal failed.
NothingLeft == command.pc = "idle" /\ ghost.faults = 0 => disk.parts = 0

\* A cancellation before the last look is obeyed, unless the file was there.
CancelHeeded ==
  ghost.pressed /\ command.result = "complete" => ghost.before = command.expected \/ ghost.touched
===============================================================================
