------------------------------ MODULE StoresProofs ------------------------------
(***************************************************************************)
(* Proofs about the parts that keep data beside the store (MCStores), for  *)
(* every value of the constants.  Each part has an inductive invariant of  *)
(* its own, and no step of one part is a step of another.                  *)
(***************************************************************************)
EXTENDS MCStores, FiniteSetTheorems, SequenceTheorems, WellFoundedInduction, TLAPS

-----------------------------------------------------------------------------
\* Downloads (discover.rs).

CommandRecords ==
  [pc : Model!Pcs, result : Model!Results, cancel : BOOLEAN, expected : Contents,
   sent : Model!Sent, received : 0..(Size + Slack)]
DiskRecords == [target : Model!Found, parts : Nat]
GhostRecords ==
  [before : Model!Found, pressed : BOOLEAN, touched : BOOLEAN, theirs : BOOLEAN,
   downloads : 0..MaxDownloads, outside : 0..MaxOutside, faults : 0..MaxFaults]
ModelTypes == command \in CommandRecords /\ disk \in DiskRecords /\ ghost \in GhostRecords

Staging == {"receiving", "hashing", "verified", "activating", "linking", "linked"}
Before == {"begun", "listed", "asking"}

\* Each download stages one file at most, and without faults it is there exactly
\* while the download is between the answer and its end.
PartsCounted ==
  /\ disk.parts <= ghost.downloads
  /\ command.pc \in Before => disk.parts + 1 <= ghost.downloads
  /\ command.pc \in Staging => disk.parts >= 1
  /\ ghost.faults = 0 /\ command.pc \in Staging => disk.parts = 1
  /\ ghost.faults = 0 /\ command.pc \notin Staging => disk.parts = 0

\* From the comparison of digests on, what was received is what was listed.
Verified ==
  command.pc \in {"verified", "activating", "linking", "linked"} => Model!Content = command.expected

\* While a download runs it has no result, and until the link nothing has changed.
Underway ==
  /\ command.pc # "idle" => command.result = "none"
  /\ ~ghost.touched /\ command.pc \notin {"idle", "linked"} => disk.target = ghost.before
  /\ ~ghost.touched /\ command.pc = "linked" => disk.target = command.expected

\* A cancellation in time is seen by the last look.
Pressed ==
  /\ ghost.pressed => command.pc \notin {"activating", "linking", "linked"}
  /\ ghost.pressed /\ command.pc # "idle" => command.cancel

ModelInv ==
  /\ ModelTypes /\ PartsCounted /\ Verified /\ Underway /\ Pressed
  /\ Model!Whole /\ Model!CancelHeeded

\* Records stay records, whatever field is changed within its type.
LEMMA MovedCommand ==
  ASSUME NEW r \in CommandRecords, NEW pc \in Model!Pcs
  PROVE /\ [r EXCEPT !.pc = pc] \in CommandRecords
        /\ \A result \in Model!Results : [r EXCEPT !.pc = pc, !.result = result] \in CommandRecords
BY Zenon DEF CommandRecords

LEMMA ListedCommand ==
  ASSUME NEW r \in CommandRecords, NEW pc \in Model!Pcs, NEW v \in Contents
  PROVE [r EXCEPT !.pc = pc, !.expected = v] \in CommandRecords
BY Zenon DEF CommandRecords

LEMMA AnsweredCommand ==
  ASSUME NEW r \in CommandRecords, NEW pc \in Model!Pcs, NEW v \in Model!Sent
  PROVE [r EXCEPT !.pc = pc, !.sent = v] \in CommandRecords
BY Zenon DEF CommandRecords

LEMMA NewCommand ==
  ASSUME NEW r \in CommandRecords, NEW pc \in Model!Pcs, NEW result \in Model!Results,
         0 \in 0..(Size + Slack)
  PROVE [r EXCEPT !.pc = pc, !.result = result, !.cancel = FALSE, !.received = 0] \in CommandRecords
BY Zenon DEF CommandRecords

LEMMA CommandReceives ==
  ASSUME NEW r \in CommandRecords, NEW n \in 0..(Size + Slack)
  PROVE [r EXCEPT !.received = n] \in CommandRecords
BY Zenon DEF CommandRecords

LEMMA CommandCancelled ==
  ASSUME NEW r \in CommandRecords
  PROVE [r EXCEPT !.cancel = TRUE] \in CommandRecords
BY Zenon DEF CommandRecords

LEMMA DiskUpdates ==
  ASSUME NEW r \in DiskRecords
  PROVE /\ \A target \in Model!Found : [r EXCEPT !.target = target] \in DiskRecords
        /\ \A n \in Nat : [r EXCEPT !.parts = n] \in DiskRecords
BY Zenon DEF DiskRecords

LEMMA GhostFault ==
  ASSUME NEW r \in GhostRecords, NEW k \in 0..MaxFaults
  PROVE [r EXCEPT !.faults = k] \in GhostRecords
BY Zenon DEF GhostRecords

LEMMA GhostPressed ==
  ASSUME NEW r \in GhostRecords, NEW b \in BOOLEAN
  PROVE [r EXCEPT !.pressed = b] \in GhostRecords
BY Zenon DEF GhostRecords

LEMMA GhostOutside ==
  ASSUME NEW r \in GhostRecords, NEW b \in BOOLEAN, NEW n \in 0..MaxOutside
  PROVE [r EXCEPT !.outside = n, !.touched = TRUE, !.theirs = b] \in GhostRecords
BY Zenon DEF GhostRecords

LEMMA GhostBegins ==
  ASSUME NEW r \in GhostRecords, NEW target \in Model!Found, NEW n \in 0..MaxDownloads
  PROVE [r EXCEPT !.before = target, !.pressed = FALSE, !.touched = FALSE, !.downloads = n] \in GhostRecords
BY Zenon DEF GhostRecords

\* What the fields of well-typed records are.
LEMMA ModelFields ==
  ASSUME ModelTypes
  PROVE /\ command \in CommandRecords /\ disk \in DiskRecords /\ ghost \in GhostRecords
        /\ command.expected \in Contents /\ command.received \in Nat
        /\ disk.target \in Model!Found /\ disk.parts \in Nat
        /\ ghost.downloads \in Nat /\ ghost.outside \in Nat /\ ghost.faults \in Nat
        /\ "idle" \in Model!Pcs /\ "none" \in Model!Results
        /\ 0 \in 0..(Size + Slack)
BY DownloadAssumption
   DEF ModelTypes, CommandRecords, DiskRecords, GhostRecords, Model!Pcs, Model!Results

\* A fault is counted and nothing else.
LEMMA FaultCounts ==
  ASSUME ModelTypes, Model!Fault
  PROVE  /\ ghost' \in GhostRecords
         /\ ghost'.faults = ghost.faults + 1 /\ ghost'.downloads = ghost.downloads
<1>1. ghost.faults + 1 \in 0..MaxFaults
  BY ModelFields, DownloadAssumption DEF Model!Fault
<1>2. ghost' = [ghost EXCEPT !.faults = ghost.faults + 1]
  BY DEF Model!Fault
<1>3. ghost' \in GhostRecords
  BY <1>1, <1>2, GhostFault, ModelFields
<1>4. ghost'.faults = ghost.faults + 1 /\ ghost'.downloads = ghost.downloads
  BY <1>2, ModelFields DEF GhostRecords
<1> QED BY <1>3, <1>4

\* The end of a download, whether its staging file goes or not.
LEMMA DropsEnd ==
  ASSUME ModelTypes, PartsCounted, command.pc \in Staging, NEW result \in Model!Results, Model!Drops(result)
  PROVE  ModelTypes' /\ PartsCounted'
<1>1. command' \in CommandRecords
  BY MovedCommand, ModelFields DEF Model!Drops, Model!Ends
<1>2. command'.pc = "idle"
  BY ModelFields DEF Model!Drops, Model!Ends, CommandRecords
<1>3. disk.parts - 1 \in Nat
  BY ModelFields DEF PartsCounted
<1>4. CASE disk' = [disk EXCEPT !.parts = @ - 1] /\ UNCHANGED ghost
  <2>1. disk' \in DiskRecords /\ disk'.parts = disk.parts - 1
    BY <1>3, <1>4, DiskUpdates, ModelFields DEF DiskRecords
  <2>2. PartsCounted'
    BY <1>2, <1>4, <2>1, ModelFields DEF PartsCounted, Before, Staging
  <2> QED BY <1>1, <1>4, <2>1, <2>2 DEF ModelTypes
<1>5. CASE Model!Fault /\ UNCHANGED disk
  <2>1. PartsCounted'
    BY <1>2, <1>5, FaultCounts, ModelFields DEF PartsCounted, Before, Staging
  <2> QED BY <1>1, <1>5, <2>1, FaultCounts, ModelFields DEF ModelTypes
<1> QED BY <1>4, <1>5 DEF Model!Drops, Model!Discarded

LEMMA ToKeepsTypes ==
  ASSUME ModelTypes, NEW pc \in Model!Pcs, Model!To(pc)
  PROVE  command' \in CommandRecords
BY MovedCommand, ModelFields DEF Model!To

LEMMA EndsKeepsTypes ==
  ASSUME ModelTypes, NEW result \in Model!Results, Model!Ends(result)
  PROVE  command' \in CommandRecords
BY MovedCommand, ModelFields DEF Model!Ends

LEMMA ModelInvInit == Model!Init => ModelInv
<1> USE DownloadAssumption
<1> SUFFICES ASSUME Model!Init PROVE ModelInv OBVIOUS
<1>1. ModelTypes
  BY DEF Model!Init, ModelTypes, CommandRecords, DiskRecords, GhostRecords, Model!Pcs, Model!Results,
         Model!Sent, Model!Found
<1>2. PartsCounted
  BY DEF Model!Init, PartsCounted, Staging, Before
<1>3. Verified /\ Underway /\ Pressed
  BY DEF Model!Init, Verified, Underway, Pressed
<1>4. Model!Whole /\ Model!CancelHeeded
  BY DEF Model!Init, Model!Whole, Model!CancelHeeded
<1> QED BY <1>1, <1>2, <1>3, <1>4 DEF ModelInv

LEMMA BeginKeepsModelInv == ModelInv /\ Model!Begin => ModelInv'
<1> SUFFICES ASSUME ModelInv, Model!Begin PROVE ModelInv' OBVIOUS
<1>1. ModelTypes'
  <2>1. command' \in CommandRecords
    BY NewCommand, ModelFields DEF ModelInv, Model!Begin, Model!Pcs
  <2>2. ghost.downloads + 1 \in 0..MaxDownloads
    BY ModelFields, DownloadAssumption DEF ModelInv, Model!Begin
  <2>3. ghost' \in GhostRecords
    BY <2>2, GhostBegins, ModelFields DEF ModelInv, Model!Begin
  <2> QED BY <2>1, <2>3 DEF ModelInv, ModelTypes, Model!Begin
<1>2. PartsCounted'
  BY ModelFields DEF ModelInv, Model!Begin, ModelTypes, CommandRecords, DiskRecords, GhostRecords, PartsCounted, Staging, Before
<1>3. Verified'
  BY DEF ModelInv, Model!Begin, ModelTypes, CommandRecords, DiskRecords, GhostRecords, Verified, Model!Content
<1>4. Underway'
  BY DEF ModelInv, Model!Begin, ModelTypes, CommandRecords, DiskRecords, GhostRecords, Underway, Verified, Model!Content
<1>5. Pressed'
  BY DEF ModelInv, Model!Begin, ModelTypes, CommandRecords, DiskRecords, GhostRecords, Pressed, Model!Pcs
<1>6. Model!Whole'
  BY DownloadAssumption DEF ModelInv, Model!Begin, ModelTypes, CommandRecords, DiskRecords, GhostRecords, Model!Whole, Underway, Verified, Model!Content
<1>7. Model!CancelHeeded'
  BY DEF ModelInv, Model!Begin, ModelTypes, CommandRecords, DiskRecords, GhostRecords, Model!CancelHeeded, Underway, Verified, Pressed, Model!Whole
<1> QED BY <1>1, <1>2, <1>3, <1>4, <1>5, <1>6, <1>7 DEF ModelInv

LEMMA ListKeepsModelInv == ModelInv /\ Model!List => ModelInv'
<1> SUFFICES ASSUME ModelInv, Model!List PROVE ModelInv' OBVIOUS
<1>1. ModelTypes'
  <2>1. command' \in CommandRecords
    <3>1. CASE Model!Ends("cancelled") \/ Model!Ends("failed")
      BY <3>1, EndsKeepsTypes DEF ModelInv, Model!Results
    <3>2. CASE \E v \in Contents : command' = [command EXCEPT !.pc = "listed", !.expected = v]
      BY <3>2, ListedCommand, ModelFields DEF ModelInv, Model!Pcs
    <3> QED BY <3>1, <3>2 DEF Model!List
  <2> QED BY <2>1 DEF ModelInv, ModelTypes, Model!List
<1>2. PartsCounted'
  BY ModelFields DEF ModelInv, Model!List, Model!Ends, ModelTypes, CommandRecords, DiskRecords, GhostRecords, PartsCounted, Staging, Before
<1>3. Verified'
  BY DEF ModelInv, Model!List, Model!Ends, ModelTypes, CommandRecords, DiskRecords, GhostRecords, Verified, Model!Content
<1>4. Underway'
  BY DEF ModelInv, Model!List, Model!Ends, ModelTypes, CommandRecords, DiskRecords, GhostRecords, Underway, Verified, Model!Content
<1>5. Pressed'
  BY DEF ModelInv, Model!List, Model!Ends, ModelTypes, CommandRecords, DiskRecords, GhostRecords, Pressed, Model!Pcs
<1>6. Model!Whole'
  BY DownloadAssumption DEF ModelInv, Model!List, Model!Ends, ModelTypes, CommandRecords, DiskRecords, GhostRecords, Model!Whole, Underway, Verified, Model!Content
<1>7. Model!CancelHeeded'
  BY DEF ModelInv, Model!List, Model!Ends, ModelTypes, CommandRecords, DiskRecords, GhostRecords, Model!CancelHeeded, Underway, Verified, Pressed, Model!Whole
<1> QED BY <1>1, <1>2, <1>3, <1>4, <1>5, <1>6, <1>7 DEF ModelInv

LEMMA InspectKeepsModelInv == ModelInv /\ Model!Inspect => ModelInv'
<1> SUFFICES ASSUME ModelInv, Model!Inspect PROVE ModelInv' OBVIOUS
<1>1. ModelTypes'
  <2>1. command' \in CommandRecords
    BY ToKeepsTypes, EndsKeepsTypes DEF ModelInv, Model!Inspect, Model!Pcs, Model!Results
  <2> QED BY <2>1 DEF ModelInv, ModelTypes, Model!Inspect
<1>2. PartsCounted'
  BY ModelFields DEF ModelInv, Model!Inspect, Model!To, Model!Ends, ModelTypes, CommandRecords, DiskRecords, GhostRecords, PartsCounted, Staging, Before
<1>3. Verified'
  BY DEF ModelInv, Model!Inspect, Model!To, Model!Ends, ModelTypes, CommandRecords, DiskRecords, GhostRecords, Verified, Model!Content
<1>4. Underway'
  BY DEF ModelInv, Model!Inspect, Model!To, Model!Ends, ModelTypes, CommandRecords, DiskRecords, GhostRecords, Underway, Verified, Model!Content
<1>5. Pressed'
  BY DEF ModelInv, Model!Inspect, Model!To, Model!Ends, ModelTypes, CommandRecords, DiskRecords, GhostRecords, Pressed, Model!Pcs
<1>6. Model!Whole'
  BY DownloadAssumption DEF ModelInv, Model!Inspect, Model!To, Model!Ends, ModelTypes, CommandRecords, DiskRecords, GhostRecords, Model!Whole, Underway, Verified, Model!Content
<1>7. Model!CancelHeeded'
  BY DEF ModelInv, Model!Inspect, Model!To, Model!Ends, ModelTypes, CommandRecords, DiskRecords, GhostRecords, Model!CancelHeeded, Underway, Verified, Pressed, Model!Whole
<1> QED BY <1>1, <1>2, <1>3, <1>4, <1>5, <1>6, <1>7 DEF ModelInv

LEMMA RespondKeepsModelInv == ModelInv /\ Model!Respond => ModelInv'
<1> SUFFICES ASSUME ModelInv, Model!Respond PROVE ModelInv' OBVIOUS
<1>1. ModelTypes' /\ PartsCounted'
  <2>1. CASE Model!Ends("failed") /\ UNCHANGED <<disk, ghost>>
    <3>1. command' \in CommandRecords /\ command'.pc = "idle"
      BY <2>1, EndsKeepsTypes, ModelFields DEF ModelInv, Model!Results, Model!Ends, CommandRecords
    <3>2. PartsCounted'
      BY <2>1, <3>1, ModelFields DEF ModelInv, PartsCounted, Staging, Before, Model!Respond
    <3> QED BY <2>1, <3>1, <3>2 DEF ModelInv, ModelTypes
  <2>2. CASE /\ \E v \in Model!Sent : command' = [command EXCEPT !.pc = "receiving", !.sent = v]
             /\ disk' = [disk EXCEPT !.parts = @ + 1] /\ UNCHANGED ghost
    <3>1. PICK v \in Model!Sent : command' = [command EXCEPT !.pc = "receiving", !.sent = v]
      BY <2>2
    <3>2. command' \in CommandRecords
      BY <3>1, AnsweredCommand, ModelFields DEF ModelInv, Model!Pcs
    <3>3. command'.pc = "receiving"
      BY <3>1, ModelFields DEF ModelInv, CommandRecords
    <3>4. disk.parts + 1 \in Nat
      BY ModelFields DEF ModelInv
    <3>5. disk' \in DiskRecords /\ disk'.parts = disk.parts + 1
      BY <2>2, <3>4, DiskUpdates, ModelFields DEF ModelInv, DiskRecords
    <3>6. disk.parts + 1 <= ghost.downloads /\ (ghost.faults = 0 => disk.parts = 0)
      BY DEF ModelInv, PartsCounted, Staging, Before, Model!Respond
    <3>7. PartsCounted'
      BY <2>2, <3>3, <3>5, <3>6, ModelFields DEF ModelInv, PartsCounted, Staging, Before
    <3> QED BY <2>2, <3>2, <3>5, <3>7 DEF ModelInv, ModelTypes
  <2> QED BY <2>1, <2>2 DEF Model!Respond
<1>3. Verified'
  BY DEF ModelInv, Model!Respond, Model!Ends, ModelTypes, CommandRecords, DiskRecords, GhostRecords, Verified, Model!Content
<1>4. Underway'
  BY DEF ModelInv, Model!Respond, Model!Ends, ModelTypes, CommandRecords, DiskRecords, GhostRecords, Underway, Verified, Model!Content
<1>5. Pressed'
  BY DEF ModelInv, Model!Respond, Model!Ends, ModelTypes, CommandRecords, DiskRecords, GhostRecords, Pressed, Model!Pcs
<1>6. Model!Whole'
  BY DownloadAssumption DEF ModelInv, Model!Respond, Model!Ends, ModelTypes, CommandRecords, DiskRecords, GhostRecords, Model!Whole, Underway, Verified, Model!Content
<1>7. Model!CancelHeeded'
  BY DEF ModelInv, Model!Respond, Model!Ends, ModelTypes, CommandRecords, DiskRecords, GhostRecords, Model!CancelHeeded, Underway, Verified, Pressed, Model!Whole
<1> QED BY <1>1, <1>3, <1>4, <1>5, <1>6, <1>7 DEF ModelInv

LEMMA ChunkKeepsModelInv == ModelInv /\ Model!Chunk => ModelInv'
<1> SUFFICES ASSUME ModelInv, Model!Chunk PROVE ModelInv' OBVIOUS
<1>a. CASE Model!Drops("failed") \/ Model!Drops("cancelled")
  <2>1. ModelTypes' /\ PartsCounted'
    BY <1>a, DropsEnd DEF ModelInv, Model!Chunk, Staging, Model!Results
  <2>2. Verified' /\ Underway' /\ Pressed'
    BY <1>a DEF ModelInv, Model!Chunk, Model!Drops, Model!Ends, Model!Discarded, Model!Fault, ModelTypes, CommandRecords, DiskRecords, GhostRecords, Verified, Underway, Pressed
  <2>3. Model!Whole' /\ Model!CancelHeeded'
    BY <1>a DEF ModelInv, Model!Chunk, Model!Drops, Model!Ends, Model!Discarded, Model!Fault, ModelTypes, CommandRecords, DiskRecords, GhostRecords, Model!Whole, Model!CancelHeeded, Underway
  <2> QED BY <2>1, <2>2, <2>3 DEF ModelInv
<1>b. CASE /\ command.received < Size + Slack
             /\ command' = [command EXCEPT !.received = @ + 1] /\ UNCHANGED <<disk, ghost>>
  <2>1. ModelTypes'
    <3>1. command.received + 1 \in 0..(Size + Slack)
      BY <1>b, ModelFields, DownloadAssumption DEF ModelInv
    <3>2. command' \in CommandRecords
      BY <1>b, <3>1, CommandReceives, ModelFields DEF ModelInv
    <3> QED BY <1>b, <3>2 DEF ModelInv, ModelTypes
  <2>2. PartsCounted'
    BY <1>b, DownloadAssumption DEF ModelInv, Model!Chunk, Model!Drops, Model!Ends, Model!Discarded, Model!Fault, ModelTypes, CommandRecords, DiskRecords, GhostRecords, PartsCounted, Staging, Before
  <2>3. Verified'
    BY <1>b, DownloadAssumption DEF ModelInv, Model!Chunk, Model!Drops, Model!Ends, Model!Discarded, Model!Fault, ModelTypes, CommandRecords, DiskRecords, GhostRecords, Verified, Model!Content
  <2>4. Underway'
    BY <1>b, DownloadAssumption DEF ModelInv, Model!Chunk, Model!Drops, Model!Ends, Model!Discarded, Model!Fault, ModelTypes, CommandRecords, DiskRecords, GhostRecords, Underway, Verified, Model!Content
  <2>5. Pressed'
    BY <1>b, DownloadAssumption DEF ModelInv, Model!Chunk, Model!Drops, Model!Ends, Model!Discarded, Model!Fault, ModelTypes, CommandRecords, DiskRecords, GhostRecords, Pressed
  <2>6. Model!Whole'
    BY <1>b, DownloadAssumption DEF ModelInv, Model!Chunk, Model!Drops, Model!Ends, Model!Discarded, Model!Fault, ModelTypes, CommandRecords, DiskRecords, GhostRecords, Model!Whole, Underway, Verified, Model!Content
  <2>7. Model!CancelHeeded'
    BY <1>b, DownloadAssumption DEF ModelInv, Model!Chunk, Model!Drops, Model!Ends, Model!Discarded, Model!Fault, ModelTypes, CommandRecords, DiskRecords, GhostRecords, Model!CancelHeeded, Underway
  <2> QED BY <2>1, <2>2, <2>3, <2>4, <2>5, <2>6, <2>7 DEF ModelInv
<1> QED BY <1>a, <1>b DEF Model!Chunk

LEMMA EndedKeepsModelInv == ModelInv /\ Model!Ended => ModelInv'
<1> SUFFICES ASSUME ModelInv, Model!Ended PROVE ModelInv' OBVIOUS
<1>a. CASE Model!Drops("failed") \/ Model!Drops("cancelled")
  <2>1. ModelTypes' /\ PartsCounted'
    BY <1>a, DropsEnd DEF ModelInv, Model!Ended, Staging, Model!Results
  <2>2. Verified' /\ Underway' /\ Pressed'
    BY <1>a DEF ModelInv, Model!Ended, Model!To, Model!Drops, Model!Ends, Model!Discarded, Model!Fault, ModelTypes, CommandRecords, DiskRecords, GhostRecords, Verified, Underway, Pressed
  <2>3. Model!Whole' /\ Model!CancelHeeded'
    BY <1>a DEF ModelInv, Model!Ended, Model!To, Model!Drops, Model!Ends, Model!Discarded, Model!Fault, ModelTypes, CommandRecords, DiskRecords, GhostRecords, Model!Whole, Model!CancelHeeded, Underway
  <2> QED BY <2>1, <2>2, <2>3 DEF ModelInv
<1>b. CASE Model!To("hashing") /\ UNCHANGED <<disk, ghost>>
  <2>1. ModelTypes'
    BY <1>b, ToKeepsTypes DEF ModelInv, ModelTypes, Model!Pcs
  <2>2. PartsCounted'
    BY <1>b, DownloadAssumption DEF ModelInv, Model!Ended, Model!To, Model!Drops, Model!Ends, Model!Discarded, Model!Fault, ModelTypes, CommandRecords, DiskRecords, GhostRecords, PartsCounted, Staging, Before
  <2>3. Verified'
    BY <1>b, DownloadAssumption DEF ModelInv, Model!Ended, Model!To, Model!Drops, Model!Ends, Model!Discarded, Model!Fault, ModelTypes, CommandRecords, DiskRecords, GhostRecords, Verified, Model!Content
  <2>4. Underway'
    BY <1>b, DownloadAssumption DEF ModelInv, Model!Ended, Model!To, Model!Drops, Model!Ends, Model!Discarded, Model!Fault, ModelTypes, CommandRecords, DiskRecords, GhostRecords, Underway, Verified, Model!Content
  <2>5. Pressed'
    BY <1>b, DownloadAssumption DEF ModelInv, Model!Ended, Model!To, Model!Drops, Model!Ends, Model!Discarded, Model!Fault, ModelTypes, CommandRecords, DiskRecords, GhostRecords, Pressed
  <2>6. Model!Whole'
    BY <1>b, DownloadAssumption DEF ModelInv, Model!Ended, Model!To, Model!Drops, Model!Ends, Model!Discarded, Model!Fault, ModelTypes, CommandRecords, DiskRecords, GhostRecords, Model!Whole, Underway, Verified, Model!Content
  <2>7. Model!CancelHeeded'
    BY <1>b, DownloadAssumption DEF ModelInv, Model!Ended, Model!To, Model!Drops, Model!Ends, Model!Discarded, Model!Fault, ModelTypes, CommandRecords, DiskRecords, GhostRecords, Model!CancelHeeded, Underway
  <2> QED BY <2>1, <2>2, <2>3, <2>4, <2>5, <2>6, <2>7 DEF ModelInv
<1> QED BY <1>a, <1>b DEF Model!Ended

LEMMA HashKeepsModelInv == ModelInv /\ Model!Hash => ModelInv'
<1> SUFFICES ASSUME ModelInv, Model!Hash PROVE ModelInv' OBVIOUS
<1>a. CASE Model!Drops("failed") \/ Model!Drops("cancelled")
  <2>1. ModelTypes' /\ PartsCounted'
    BY <1>a, DropsEnd DEF ModelInv, Model!Hash, Staging, Model!Results
  <2>2. Verified' /\ Underway' /\ Pressed'
    BY <1>a DEF ModelInv, Model!Hash, Model!To, Model!Drops, Model!Ends, Model!Discarded, Model!Fault, ModelTypes, CommandRecords, DiskRecords, GhostRecords, Verified, Underway, Pressed
  <2>3. Model!Whole' /\ Model!CancelHeeded'
    BY <1>a DEF ModelInv, Model!Hash, Model!To, Model!Drops, Model!Ends, Model!Discarded, Model!Fault, ModelTypes, CommandRecords, DiskRecords, GhostRecords, Model!Whole, Model!CancelHeeded, Underway
  <2> QED BY <2>1, <2>2, <2>3 DEF ModelInv
<1>b. CASE Model!To("verified") /\ UNCHANGED <<disk, ghost>>
  <2>1. ModelTypes'
    BY <1>b, ToKeepsTypes DEF ModelInv, ModelTypes, Model!Pcs
  <2>2. PartsCounted'
    BY <1>b, DownloadAssumption DEF ModelInv, Model!Hash, Model!To, Model!Drops, Model!Ends, Model!Discarded, Model!Fault, ModelTypes, CommandRecords, DiskRecords, GhostRecords, PartsCounted, Staging, Before
  <2>3. Verified'
    BY <1>b, DownloadAssumption DEF ModelInv, Model!Hash, Model!To, Model!Drops, Model!Ends, Model!Discarded, Model!Fault, ModelTypes, CommandRecords, DiskRecords, GhostRecords, Verified, Model!Content
  <2>4. Underway'
    BY <1>b, DownloadAssumption DEF ModelInv, Model!Hash, Model!To, Model!Drops, Model!Ends, Model!Discarded, Model!Fault, ModelTypes, CommandRecords, DiskRecords, GhostRecords, Underway, Verified, Model!Content
  <2>5. Pressed'
    BY <1>b, DownloadAssumption DEF ModelInv, Model!Hash, Model!To, Model!Drops, Model!Ends, Model!Discarded, Model!Fault, ModelTypes, CommandRecords, DiskRecords, GhostRecords, Pressed
  <2>6. Model!Whole'
    BY <1>b, DownloadAssumption DEF ModelInv, Model!Hash, Model!To, Model!Drops, Model!Ends, Model!Discarded, Model!Fault, ModelTypes, CommandRecords, DiskRecords, GhostRecords, Model!Whole, Underway, Verified, Model!Content
  <2>7. Model!CancelHeeded'
    BY <1>b, DownloadAssumption DEF ModelInv, Model!Hash, Model!To, Model!Drops, Model!Ends, Model!Discarded, Model!Fault, ModelTypes, CommandRecords, DiskRecords, GhostRecords, Model!CancelHeeded, Underway
  <2> QED BY <2>1, <2>2, <2>3, <2>4, <2>5, <2>6, <2>7 DEF ModelInv
<1> QED BY <1>a, <1>b DEF Model!Hash

LEMMA CheckKeepsModelInv == ModelInv /\ Model!Check => ModelInv'
<1> SUFFICES ASSUME ModelInv, Model!Check PROVE ModelInv' OBVIOUS
<1>a. CASE Model!Drops("failed") \/ Model!Drops("cancelled")
  <2>1. ModelTypes' /\ PartsCounted'
    BY <1>a, DropsEnd DEF ModelInv, Model!Check, Staging, Model!Results
  <2>2. Verified' /\ Underway' /\ Pressed'
    BY <1>a DEF ModelInv, Model!Check, Model!To, Model!Drops, Model!Ends, Model!Discarded, Model!Fault, ModelTypes, CommandRecords, DiskRecords, GhostRecords, Verified, Underway, Pressed
  <2>3. Model!Whole' /\ Model!CancelHeeded'
    BY <1>a DEF ModelInv, Model!Check, Model!To, Model!Drops, Model!Ends, Model!Discarded, Model!Fault, ModelTypes, CommandRecords, DiskRecords, GhostRecords, Model!Whole, Model!CancelHeeded, Underway
  <2> QED BY <2>1, <2>2, <2>3 DEF ModelInv
<1>b. CASE Model!To("activating") /\ UNCHANGED <<disk, ghost>>
  <2>1. ModelTypes'
    BY <1>b, ToKeepsTypes DEF ModelInv, ModelTypes, Model!Pcs
  <2>2. PartsCounted'
    BY <1>b, DownloadAssumption DEF ModelInv, Model!Check, Model!To, Model!Drops, Model!Ends, Model!Discarded, Model!Fault, ModelTypes, CommandRecords, DiskRecords, GhostRecords, PartsCounted, Staging, Before
  <2>3. Verified'
    BY <1>b, DownloadAssumption DEF ModelInv, Model!Check, Model!To, Model!Drops, Model!Ends, Model!Discarded, Model!Fault, ModelTypes, CommandRecords, DiskRecords, GhostRecords, Verified, Model!Content
  <2>4. Underway'
    BY <1>b, DownloadAssumption DEF ModelInv, Model!Check, Model!To, Model!Drops, Model!Ends, Model!Discarded, Model!Fault, ModelTypes, CommandRecords, DiskRecords, GhostRecords, Underway, Verified, Model!Content
  <2>5. Pressed'
    BY <1>b, DownloadAssumption DEF ModelInv, Model!Check, Model!To, Model!Drops, Model!Ends, Model!Discarded, Model!Fault, ModelTypes, CommandRecords, DiskRecords, GhostRecords, Pressed
  <2>6. Model!Whole'
    BY <1>b, DownloadAssumption DEF ModelInv, Model!Check, Model!To, Model!Drops, Model!Ends, Model!Discarded, Model!Fault, ModelTypes, CommandRecords, DiskRecords, GhostRecords, Model!Whole, Underway, Verified, Model!Content
  <2>7. Model!CancelHeeded'
    BY <1>b, DownloadAssumption DEF ModelInv, Model!Check, Model!To, Model!Drops, Model!Ends, Model!Discarded, Model!Fault, ModelTypes, CommandRecords, DiskRecords, GhostRecords, Model!CancelHeeded, Underway
  <2> QED BY <2>1, <2>2, <2>3, <2>4, <2>5, <2>6, <2>7 DEF ModelInv
<1> QED BY <1>a, <1>b DEF Model!Check

LEMMA LookKeepsModelInv == ModelInv /\ Model!Look => ModelInv'
<1> SUFFICES ASSUME ModelInv, Model!Look PROVE ModelInv' OBVIOUS
<1>a. CASE Model!Drops("failed") \/ Model!Drops("cancelled")
  <2>1. ModelTypes' /\ PartsCounted'
    BY <1>a, DropsEnd DEF ModelInv, Model!Look, Staging, Model!Results
  <2>2. Verified' /\ Underway' /\ Pressed'
    BY <1>a DEF ModelInv, Model!Look, Model!To, Model!Drops, Model!Ends, Model!Discarded, Model!Fault, ModelTypes, CommandRecords, DiskRecords, GhostRecords, Verified, Underway, Pressed
  <2>3. Model!Whole' /\ Model!CancelHeeded'
    BY <1>a DEF ModelInv, Model!Look, Model!To, Model!Drops, Model!Ends, Model!Discarded, Model!Fault, ModelTypes, CommandRecords, DiskRecords, GhostRecords, Model!Whole, Model!CancelHeeded, Underway
  <2> QED BY <2>1, <2>2, <2>3 DEF ModelInv
<1>b. CASE Model!To("linking") /\ UNCHANGED <<disk, ghost>>
  <2>1. ModelTypes'
    BY <1>b, ToKeepsTypes DEF ModelInv, ModelTypes, Model!Pcs
  <2>2. PartsCounted'
    BY <1>b, DownloadAssumption DEF ModelInv, Model!Look, Model!To, Model!Drops, Model!Ends, Model!Discarded, Model!Fault, ModelTypes, CommandRecords, DiskRecords, GhostRecords, PartsCounted, Staging, Before
  <2>3. Verified'
    BY <1>b, DownloadAssumption DEF ModelInv, Model!Look, Model!To, Model!Drops, Model!Ends, Model!Discarded, Model!Fault, ModelTypes, CommandRecords, DiskRecords, GhostRecords, Verified, Model!Content
  <2>4. Underway'
    BY <1>b, DownloadAssumption DEF ModelInv, Model!Look, Model!To, Model!Drops, Model!Ends, Model!Discarded, Model!Fault, ModelTypes, CommandRecords, DiskRecords, GhostRecords, Underway, Verified, Model!Content
  <2>5. Pressed'
    BY <1>b, DownloadAssumption DEF ModelInv, Model!Look, Model!To, Model!Drops, Model!Ends, Model!Discarded, Model!Fault, ModelTypes, CommandRecords, DiskRecords, GhostRecords, Pressed
  <2>6. Model!Whole'
    BY <1>b, DownloadAssumption DEF ModelInv, Model!Look, Model!To, Model!Drops, Model!Ends, Model!Discarded, Model!Fault, ModelTypes, CommandRecords, DiskRecords, GhostRecords, Model!Whole, Underway, Verified, Model!Content
  <2>7. Model!CancelHeeded'
    BY <1>b, DownloadAssumption DEF ModelInv, Model!Look, Model!To, Model!Drops, Model!Ends, Model!Discarded, Model!Fault, ModelTypes, CommandRecords, DiskRecords, GhostRecords, Model!CancelHeeded, Underway
  <2> QED BY <2>1, <2>2, <2>3, <2>4, <2>5, <2>6, <2>7 DEF ModelInv
<1> QED BY <1>a, <1>b DEF Model!Look

LEMMA LinkKeepsModelInv == ModelInv /\ Model!Link => ModelInv'
<1> SUFFICES ASSUME ModelInv, Model!Link PROVE ModelInv' OBVIOUS
<1>a. CASE Model!Drops("failed") \/ Model!Drops("cancelled")
  <2>1. ModelTypes' /\ PartsCounted'
    BY <1>a, DropsEnd DEF ModelInv, Model!Link, Staging, Model!Results
  <2>2. Verified' /\ Underway' /\ Pressed'
    BY <1>a DEF ModelInv, Model!Link, Model!To, Model!Drops, Model!Ends, Model!Discarded, Model!Fault, ModelTypes, CommandRecords, DiskRecords, GhostRecords, Verified, Underway, Pressed
  <2>3. Model!Whole' /\ Model!CancelHeeded'
    BY <1>a DEF ModelInv, Model!Link, Model!To, Model!Drops, Model!Ends, Model!Discarded, Model!Fault, ModelTypes, CommandRecords, DiskRecords, GhostRecords, Model!Whole, Model!CancelHeeded, Underway
  <2> QED BY <2>1, <2>2, <2>3 DEF ModelInv
<1>b. CASE /\ Model!To("linked")
             /\ disk' = [disk EXCEPT !.target = Model!Content] /\ UNCHANGED ghost
  <2>1. ModelTypes'
    <3>1. Model!Content \in Model!Found
      BY ModelFields DEF ModelInv, Verified, Model!Link, Model!Found
    <3>2. command' \in CommandRecords
      BY <1>b, ToKeepsTypes DEF ModelInv, Model!Pcs
    <3>3. disk' \in DiskRecords
      BY <1>b, <3>1, DiskUpdates, ModelFields DEF ModelInv
    <3> QED BY <1>b, <3>2, <3>3 DEF ModelInv, ModelTypes
  <2>2. PartsCounted'
    BY <1>b, DownloadAssumption DEF ModelInv, Model!Link, Model!To, Model!Drops, Model!Ends, Model!Discarded, Model!Fault, ModelTypes, CommandRecords, DiskRecords, GhostRecords, PartsCounted, Staging, Before
  <2>3. Verified'
    BY <1>b, DownloadAssumption DEF ModelInv, Model!Link, Model!To, Model!Drops, Model!Ends, Model!Discarded, Model!Fault, ModelTypes, CommandRecords, DiskRecords, GhostRecords, Verified, Model!Content
  <2>4. Underway'
    BY <1>b, DownloadAssumption DEF ModelInv, Model!Link, Model!To, Model!Drops, Model!Ends, Model!Discarded, Model!Fault, ModelTypes, CommandRecords, DiskRecords, GhostRecords, Underway, Verified, Model!Content
  <2>5. Pressed'
    BY <1>b, DownloadAssumption DEF ModelInv, Model!Link, Model!To, Model!Drops, Model!Ends, Model!Discarded, Model!Fault, ModelTypes, CommandRecords, DiskRecords, GhostRecords, Pressed
  <2>6. Model!Whole'
    BY <1>b, DownloadAssumption DEF ModelInv, Model!Link, Model!To, Model!Drops, Model!Ends, Model!Discarded, Model!Fault, ModelTypes, CommandRecords, DiskRecords, GhostRecords, Model!Whole, Underway, Verified, Model!Content
  <2>7. Model!CancelHeeded'
    BY <1>b, DownloadAssumption DEF ModelInv, Model!Link, Model!To, Model!Drops, Model!Ends, Model!Discarded, Model!Fault, ModelTypes, CommandRecords, DiskRecords, GhostRecords, Model!CancelHeeded, Underway
  <2> QED BY <2>1, <2>2, <2>3, <2>4, <2>5, <2>6, <2>7 DEF ModelInv
<1> QED BY <1>a, <1>b DEF Model!Link

LEMMA UnstageKeepsModelInv == ModelInv /\ Model!Unstage => ModelInv'
<1> SUFFICES ASSUME ModelInv, Model!Unstage PROVE ModelInv' OBVIOUS
<1>1. command' \in CommandRecords /\ command'.pc = "idle"
  BY EndsKeepsTypes, ModelFields DEF ModelInv, Model!Unstage, Model!Results, Model!Ends, CommandRecords
<1>a. disk.parts - 1 \in Nat
  BY ModelFields DEF ModelInv, PartsCounted, Staging, Model!Unstage
<1>b. disk' = disk \/ disk' = [disk EXCEPT !.parts = disk.parts - 1]
  BY DEF Model!Unstage
<1>c. /\ disk' \in DiskRecords /\ disk'.target = disk.target
      /\ disk' = disk \/ disk'.parts = disk.parts - 1
  BY <1>a, <1>b, DiskUpdates, ModelFields DEF ModelInv, DiskRecords
<1>2. ModelTypes' /\ PartsCounted'
  <2>1. CASE disk' = [disk EXCEPT !.parts = @ - 1] /\ UNCHANGED ghost
    <3>1. disk'.parts = disk.parts - 1
      BY <2>1, ModelFields DEF ModelInv, DiskRecords
    <3>2. PartsCounted'
      BY <1>1, <2>1, <3>1, ModelFields DEF ModelInv, PartsCounted, Staging, Before, Model!Unstage
    <3> QED BY <1>1, <1>c, <2>1, <3>2 DEF ModelInv, ModelTypes
  <2>2. CASE Model!Fault
    <3>1. PartsCounted'
      BY <1>1, <1>c, <2>2, FaultCounts, ModelFields DEF ModelInv, PartsCounted, Staging, Before
    <3> QED BY <1>1, <1>c, <2>2, <3>1, FaultCounts, ModelFields DEF ModelInv, ModelTypes
  <2> QED BY <2>1, <2>2 DEF Model!Unstage
<1>3. Verified'
  BY DEF ModelInv, Model!Unstage, Model!Ends, Model!Fault, ModelTypes, CommandRecords, DiskRecords, GhostRecords, Verified, Model!Content
<1>4. Underway'
  BY DEF ModelInv, Model!Unstage, Model!Ends, Model!Fault, ModelTypes, CommandRecords, DiskRecords, GhostRecords, Underway, Verified, Model!Content
<1>5. Pressed'
  BY DEF ModelInv, Model!Unstage, Model!Ends, Model!Fault, ModelTypes, CommandRecords, DiskRecords, GhostRecords, Pressed, Model!Pcs
<1>6. Model!Whole'
  <2>1. disk.target = disk'.target /\ ghost'.theirs = ghost.theirs /\ ghost'.touched = ghost.touched
    BY <1>c, FaultCounts, ModelFields DEF ModelInv, Model!Unstage, Model!Fault, GhostRecords
  <2>2. CASE Model!Ends("complete")
    BY <2>1, <2>2, ModelFields DEF ModelInv, Model!Unstage, Model!Ends, CommandRecords, Model!Whole, Underway
  <2>3. CASE Model!Ends("failed") /\ Model!Fault
    BY <2>1, <2>3, FaultCounts, ModelFields DEF ModelInv, Model!Ends, CommandRecords, Model!Whole
  <2> QED BY <2>2, <2>3 DEF Model!Unstage
<1>7. Model!CancelHeeded'
  BY DEF ModelInv, Model!Unstage, Model!Ends, Model!Fault, ModelTypes, CommandRecords, DiskRecords, GhostRecords, Model!CancelHeeded, Underway, Verified, Pressed, Model!Whole
<1> QED BY <1>2, <1>3, <1>4, <1>5, <1>6, <1>7 DEF ModelInv

LEMMA CancelKeepsModelInv == ModelInv /\ Model!Cancel => ModelInv'
<1> SUFFICES ASSUME ModelInv, Model!Cancel PROVE ModelInv' OBVIOUS
<1>1. ModelTypes'
  <2>1. command' \in CommandRecords
    BY CommandCancelled, ModelFields DEF ModelInv, Model!Cancel
  <2>2. (command.pc \in Model!Pcs \ {"idle", "activating", "linking", "linked"}) \in BOOLEAN
    OBVIOUS
  <2>3. ghost' \in GhostRecords
    BY <2>2, GhostPressed, ModelFields, Zenon DEF ModelInv, Model!Cancel
  <2> QED BY <2>1, <2>3 DEF ModelInv, ModelTypes, Model!Cancel
<1>2. PartsCounted'
  BY ModelFields DEF ModelInv, Model!Cancel, ModelTypes, CommandRecords, DiskRecords, GhostRecords, PartsCounted, Staging, Before
<1>3. Verified'
  BY DEF ModelInv, Model!Cancel, ModelTypes, CommandRecords, DiskRecords, GhostRecords, Verified, Model!Content
<1>4. Underway'
  BY DEF ModelInv, Model!Cancel, ModelTypes, CommandRecords, DiskRecords, GhostRecords, Underway, Verified, Model!Content
<1>5. Pressed'
  BY DEF ModelInv, Model!Cancel, ModelTypes, CommandRecords, DiskRecords, GhostRecords, Pressed, Model!Pcs
<1>6. Model!Whole'
  BY DownloadAssumption DEF ModelInv, Model!Cancel, ModelTypes, CommandRecords, DiskRecords, GhostRecords, Model!Whole, Underway, Verified, Model!Content
<1>7. Model!CancelHeeded'
  BY DEF ModelInv, Model!Cancel, ModelTypes, CommandRecords, DiskRecords, GhostRecords, Model!CancelHeeded, Underway, Verified, Pressed, Model!Whole
<1> QED BY <1>1, <1>2, <1>3, <1>4, <1>5, <1>6, <1>7 DEF ModelInv

LEMMA DiesKeepsModelInv == ModelInv /\ Model!Dies => ModelInv'
<1> SUFFICES ASSUME ModelInv, Model!Dies PROVE ModelInv' OBVIOUS
<1>1. ModelTypes'
  <2>1. command' \in CommandRecords
    BY EndsKeepsTypes DEF ModelInv, Model!Dies, Model!Results
  <2>2. ghost' \in GhostRecords
    BY FaultCounts DEF ModelInv, Model!Dies
  <2> QED BY <2>1, <2>2 DEF ModelInv, ModelTypes, Model!Dies
<1>2. PartsCounted'
  BY ModelFields DEF ModelInv, Model!Dies, Model!Ends, Model!Fault, ModelTypes, CommandRecords, DiskRecords, GhostRecords, PartsCounted, Staging, Before
<1>3. Verified'
  BY DEF ModelInv, Model!Dies, Model!Ends, Model!Fault, ModelTypes, CommandRecords, DiskRecords, GhostRecords, Verified, Model!Content
<1>4. Underway'
  BY DEF ModelInv, Model!Dies, Model!Ends, Model!Fault, ModelTypes, CommandRecords, DiskRecords, GhostRecords, Underway, Verified, Model!Content
<1>5. Pressed'
  BY DEF ModelInv, Model!Dies, Model!Ends, Model!Fault, ModelTypes, CommandRecords, DiskRecords, GhostRecords, Pressed, Model!Pcs
<1>6. Model!Whole'
  BY DownloadAssumption DEF ModelInv, Model!Dies, Model!Ends, Model!Fault, ModelTypes, CommandRecords, DiskRecords, GhostRecords, Model!Whole, Underway, Verified, Model!Content
<1>7. Model!CancelHeeded'
  BY DEF ModelInv, Model!Dies, Model!Ends, Model!Fault, ModelTypes, CommandRecords, DiskRecords, GhostRecords, Model!CancelHeeded, Underway, Verified, Pressed, Model!Whole
<1> QED BY <1>1, <1>2, <1>3, <1>4, <1>5, <1>6, <1>7 DEF ModelInv

LEMMA OutsideKeepsModelInv == ModelInv /\ Model!Outside => ModelInv'
<1> SUFFICES ASSUME ModelInv, Model!Outside PROVE ModelInv' OBVIOUS
<1>1. ModelTypes'
  <2>1. disk' \in DiskRecords
    BY DiskUpdates, ModelFields DEF ModelInv, Model!Outside, Model!Found
  <2>2. ghost.outside + 1 \in 0..MaxOutside
    BY ModelFields, DownloadAssumption DEF ModelInv, Model!Outside
  <2>3. (disk.target = "nothing") \in BOOLEAN
    OBVIOUS
  <2>4. ghost' \in GhostRecords
    BY <2>2, <2>3, GhostOutside, ModelFields, Zenon DEF ModelInv, Model!Outside
  <2> QED BY <2>1, <2>4 DEF ModelInv, ModelTypes, Model!Outside
<1>2. PartsCounted'
  BY ModelFields DEF ModelInv, Model!Outside, ModelTypes, CommandRecords, DiskRecords, GhostRecords, PartsCounted, Staging, Before
<1>3. Verified'
  BY DEF ModelInv, Model!Outside, ModelTypes, CommandRecords, DiskRecords, GhostRecords, Verified, Model!Content
<1>4. Underway'
  BY DEF ModelInv, Model!Outside, ModelTypes, CommandRecords, DiskRecords, GhostRecords, Underway, Verified, Model!Content
<1>5. Pressed'
  BY DEF ModelInv, Model!Outside, ModelTypes, CommandRecords, DiskRecords, GhostRecords, Pressed, Model!Pcs
<1>6. Model!Whole'
  BY DownloadAssumption DEF ModelInv, Model!Outside, ModelTypes, CommandRecords, DiskRecords, GhostRecords, Model!Whole, Underway, Verified, Model!Content
<1>7. Model!CancelHeeded'
  BY DEF ModelInv, Model!Outside, ModelTypes, CommandRecords, DiskRecords, GhostRecords, Model!CancelHeeded, Underway, Verified, Pressed, Model!Whole
<1> QED BY <1>1, <1>2, <1>3, <1>4, <1>5, <1>6, <1>7 DEF ModelInv

LEMMA ModelInvStutters == ModelInv /\ UNCHANGED ofModel => ModelInv'
BY DEF ofModel, ModelInv, ModelTypes, PartsCounted, Verified, Underway, Pressed, Model!Whole,
       Model!CancelHeeded, Model!Content

LEMMA ModelInvNext == ModelInv /\ Model!Next => ModelInv'
BY BeginKeepsModelInv, ListKeepsModelInv, InspectKeepsModelInv, RespondKeepsModelInv, ChunkKeepsModelInv,
   EndedKeepsModelInv, HashKeepsModelInv, CheckKeepsModelInv, LookKeepsModelInv, LinkKeepsModelInv,
   UnstageKeepsModelInv, CancelKeepsModelInv, DiesKeepsModelInv, OutsideKeepsModelInv
   DEF Model!Next

LEMMA ModelInvImplies ==
  ModelInv => Model!TypeOK /\ Model!Whole /\ Model!NothingLeft /\ Model!CancelHeeded
<1> SUFFICES ASSUME ModelInv PROVE Model!TypeOK /\ Model!NothingLeft
  BY DEF ModelInv
<1>1. disk.parts \in 0..MaxDownloads
  BY ModelFields, DownloadAssumption DEF ModelInv, ModelTypes, GhostRecords, PartsCounted
<1>2. Model!TypeOK
  BY <1>1 DEF ModelInv, ModelTypes, CommandRecords, DiskRecords, GhostRecords, Model!TypeOK
<1>3. Model!NothingLeft
  BY DEF ModelInv, PartsCounted, Staging, Model!NothingLeft
<1> QED BY <1>2, <1>3

-----------------------------------------------------------------------------
\* The registry of MCP servers (mcp.rs).

RegistryCommands ==
  [pc : Registry!Pcs, kind : Registry!Writers \cup {"list"}, id : Servers,
   definition : Registry!Definitions, seen : Registry!Registries, backup : Registry!Files]
StoreRecords ==
  [file : Registry!Files, lock : Commands \cup {NoCommand}, cmds : [Commands -> RegistryCommands],
   saved : Registry!Registries, lost : BOOLEAN, begun : 0..MaxCommands, faults : 0..MaxFailures]

AtWork == {"staged", "aside", "moved"}

\* A save or removal that is past the lock holds it, and only those write.
Locked(c) ==
  LET cmd == store.cmds[c] IN
  /\ cmd.kind \in Registry!Writers /\ cmd.pc \in {"loading", "reading"} => store.lock = c
  /\ cmd.pc \in AtWork => store.lock = c
  /\ cmd.pc = "waiting" => cmd.kind \in Registry!Writers

\* What a writer has read is what the file holds, then what was moved aside; and what
\* it moves in is the registry that was reported, with its own change.
WriterKnows(c) ==
  LET cmd == store.cmds[c] IN
  /\ cmd.pc \in {"waiting", "loading", "reading"} => cmd.seen = Registry!Empty
  /\ cmd.pc = "staged" => cmd.seen = Registry!Content(store.file)
  /\ cmd.pc = "aside" =>
       /\ store.file = NoFile /\ cmd.seen = Registry!Content(cmd.backup)
       /\ ~store.lost => cmd.seen = store.saved
  /\ cmd.pc = "moved" =>
       /\ store.file \in Registry!Registries
       /\ ~store.lost => store.file = [store.saved EXCEPT ![cmd.id] = cmd.definition]

RegistryInv ==
  /\ store \in StoreRecords /\ Registry!Kept
  /\ \A c \in Commands : Locked(c) /\ WriterKnows(c)

LEMMA RegistryTypes ==
  /\ Registry!Empty \in Registry!Registries /\ Registry!Idle \in RegistryCommands
  /\ Registry!Idle.pc = "idle" /\ Registry!Idle.kind = "list" /\ Registry!Idle.seen = Registry!Empty
  /\ \A f \in Registry!Files : Registry!Content(f) \in Registry!Registries
  /\ NoFile \notin Registry!Registries /\ NoFile \in Registry!Files
  /\ Registry!Registries \subseteq Registry!Files
<1>1. Registry!Empty \in Registry!Registries
  BY RegistryAssumption DEF Registry!Empty, Registry!Registries, Registry!Definitions
<1>2. NoFile \notin Registry!Registries
  BY RegistryAssumption DEF Registry!Registries, Registry!Definitions
<1>3. \A f \in Registry!Files : Registry!Content(f) \in Registry!Registries
  BY <1>1 DEF Registry!Files, Registry!Content
<1>4. (CHOOSE s \in Servers : TRUE) \in Servers
  BY RegistryAssumption
<1>5. Registry!Idle \in RegistryCommands
  BY <1>1, <1>4, RegistryAssumption
     DEF Registry!Idle, RegistryCommands, Registry!Pcs, Registry!Definitions, Registry!Files
<1> QED BY <1>1, <1>2, <1>3, <1>5 DEF Registry!Idle, Registry!Files

\* Each change of a field of the store keeps its type and the other fields.
LEMMA StoreCommand ==
  ASSUME NEW s \in StoreRecords, NEW c \in Commands, NEW cmd \in RegistryCommands
  PROVE LET t == [s EXCEPT !.cmds[c] = cmd] IN
        /\ t \in StoreRecords /\ t.cmds = [s.cmds EXCEPT ![c] = cmd]
        /\ t.file = s.file /\ t.lock = s.lock /\ t.saved = s.saved /\ t.lost = s.lost
        /\ t.begun = s.begun /\ t.faults = s.faults
<1> DEFINE cmds == [s.cmds EXCEPT ![c] = cmd]
<1>1. s.cmds \in [Commands -> RegistryCommands]
  BY Zenon DEF StoreRecords
<1>2. cmds \in [Commands -> RegistryCommands]
  BY <1>1
<1>3. [s EXCEPT !.cmds[c] = cmd] = [s EXCEPT !.cmds = cmds]
  BY Zenon
<1> HIDE DEF cmds
<1>4. [s EXCEPT !.cmds = cmds] \in StoreRecords
  BY <1>2, Zenon DEF StoreRecords
<1>5. LET t == [s EXCEPT !.cmds = cmds] IN
      /\ t.cmds = cmds /\ t.file = s.file /\ t.lock = s.lock /\ t.saved = s.saved /\ t.lost = s.lost
      /\ t.begun = s.begun /\ t.faults = s.faults
  BY Zenon DEF StoreRecords
<1> QED BY <1>3, <1>4, <1>5 DEF cmds

LEMMA StoreFields ==
  ASSUME NEW s \in StoreRecords, NEW file \in Registry!Files, NEW lock \in Commands \cup {NoCommand},
         NEW saved \in Registry!Registries, NEW lost \in BOOLEAN
  PROVE /\ [s EXCEPT !.file = file] \in StoreRecords
        /\ [s EXCEPT !.lock = lock] \in StoreRecords
        /\ [s EXCEPT !.saved = saved] \in StoreRecords
        /\ [s EXCEPT !.lost = lost] \in StoreRecords
        /\ \A n \in 0..MaxCommands : [s EXCEPT !.begun = n] \in StoreRecords
        /\ \A n \in 0..MaxFailures : [s EXCEPT !.faults = n] \in StoreRecords
        /\ \A cmds \in [Commands -> RegistryCommands] : [s EXCEPT !.cmds = cmds] \in StoreRecords
BY Zenon DEF StoreRecords

LEMMA StoreParts ==
  ASSUME NEW s \in StoreRecords
  PROVE /\ s.file \in Registry!Files /\ s.lock \in Commands \cup {NoCommand}
        /\ s.cmds \in [Commands -> RegistryCommands] /\ s.saved \in Registry!Registries
        /\ s.lost \in BOOLEAN /\ s.begun \in 0..MaxCommands /\ s.faults \in 0..MaxFailures
BY Zenon DEF StoreRecords

LEMMA LeavesStore ==
  ASSUME NEW s \in StoreRecords, NEW c \in Commands
  PROVE LET t == Registry!Leaves(s, c) IN
        /\ t \in StoreRecords /\ t.cmds = [s.cmds EXCEPT ![c] = Registry!Idle]
        /\ t.lock = (IF s.lock = c THEN NoCommand ELSE s.lock)
        /\ t.file = s.file /\ t.saved = s.saved /\ t.lost = s.lost /\ t.faults = s.faults
<1> DEFINE u == [s EXCEPT !.cmds[c] = Registry!Idle]
           lock == IF s.lock = c THEN NoCommand ELSE s.lock
<1>1. /\ u \in StoreRecords /\ u.cmds = [s.cmds EXCEPT ![c] = Registry!Idle]
      /\ u.file = s.file /\ u.lock = s.lock /\ u.saved = s.saved /\ u.lost = s.lost /\ u.faults = s.faults
  BY StoreCommand, RegistryTypes
<1>2. Registry!Leaves(s, c) = [u EXCEPT !.lock = lock]
  BY <1>1 DEF Registry!Leaves
<1> HIDE DEF u
<1>3. lock \in Commands \cup {NoCommand}
  BY StoreParts
<1> HIDE DEF lock
<1>4. [u EXCEPT !.lock = lock] \in StoreRecords
  BY <1>1, <1>3, Zenon DEF StoreRecords
<1>5. LET t == [u EXCEPT !.lock = lock] IN
      /\ t.lock = lock /\ t.cmds = u.cmds /\ t.file = u.file /\ t.saved = u.saved /\ t.lost = u.lost
      /\ t.faults = u.faults
  BY <1>1, Zenon DEF StoreRecords
<1> QED BY <1>1, <1>2, <1>4, <1>5 DEF lock

LEMMA FailedStore ==
  ASSUME NEW s \in StoreRecords, s.faults < MaxFailures
  PROVE LET t == Registry!Failed(s) IN
        /\ t \in StoreRecords /\ t.cmds = s.cmds /\ t.lock = s.lock /\ t.file = s.file
        /\ t.saved = s.saved /\ t.lost = s.lost /\ t.faults = s.faults + 1
<1> DEFINE n == s.faults + 1
<1>1. n \in 0..MaxFailures
  BY StoreParts, RegistryAssumption
<1>2. Registry!Failed(s) = [s EXCEPT !.faults = n]
  BY DEF Registry!Failed
<1> HIDE DEF n
<1>3. [s EXCEPT !.faults = n] \in StoreRecords
  BY <1>1, Zenon DEF StoreRecords
<1>4. LET t == [s EXCEPT !.faults = n] IN
      /\ t.cmds = s.cmds /\ t.lock = s.lock /\ t.file = s.file
      /\ t.saved = s.saved /\ t.lost = s.lost /\ t.faults = n
  BY Zenon DEF StoreRecords
<1> QED BY <1>2, <1>3, <1>4 DEF n

\* A step of one command: what becomes of it and of the store.
Goes(c, cmd, file, lock, saved, lost) ==
  /\ store' \in StoreRecords /\ store'.cmds = [store.cmds EXCEPT ![c] = cmd]
  /\ store'.file = file /\ store'.lock = lock /\ store'.saved = saved /\ store'.lost = lost
Unlocked(c) == IF store.lock = c THEN NoCommand ELSE store.lock

LEMMA LeavesGoes ==
  ASSUME store \in StoreRecords, NEW c \in Commands,
         \/ store' = Registry!Leaves(store, c)
         \/ Registry!Fault /\ store' = Registry!Failed(Registry!Leaves(store, c))
  PROVE  Goes(c, Registry!Idle, store.file, Unlocked(c), store.saved, store.lost)
<1>1. CASE store' = Registry!Leaves(store, c)
  BY <1>1, LeavesStore DEF Goes, Unlocked
<1>2. CASE Registry!Fault /\ store' = Registry!Failed(Registry!Leaves(store, c))
  <2> DEFINE t == Registry!Leaves(store, c)
  <2>1. /\ t \in StoreRecords /\ t.cmds = [store.cmds EXCEPT ![c] = Registry!Idle]
        /\ t.lock = Unlocked(c) /\ t.faults < MaxFailures
        /\ t.file = store.file /\ t.saved = store.saved /\ t.lost = store.lost
    BY <1>2, LeavesStore DEF Registry!Fault, Unlocked
  <2> HIDE DEF t
  <2> QED BY <1>2, <2>1, FailedStore DEF Goes, t
<1> QED BY <1>1, <1>2

LEMMA DoesGoes ==
  ASSUME store \in StoreRecords, NEW c \in Commands, NEW cmd \in RegistryCommands,
         store' = Registry!Does(c, cmd)
  PROVE  Goes(c, cmd, store.file, store.lock, store.saved, store.lost)
BY StoreCommand DEF Goes, Registry!Does

\* Whoever else is at work is not disturbed.
LEMMA OthersUndisturbed ==
  ASSUME RegistryInv, NEW c \in Commands, NEW d \in Commands, d # c,
         NEW cmd, NEW file, NEW lock, NEW saved, NEW lost, Goes(c, cmd, file, lock, saved, lost),
         \/ file = store.file /\ saved = store.saved /\ lost = store.lost
         \/ store.lock = c,
         \/ lock = store.lock
         \/ store.lock = c /\ lock = NoCommand
         \/ store.lock = NoCommand /\ lock = c
  PROVE  Locked(d)' /\ WriterKnows(d)'
<1>1. store'.cmds[d] = store.cmds[d]
  BY StoreParts DEF Goes, RegistryInv
<1>2. Locked(d) /\ WriterKnows(d) /\ NoCommand # d
  BY RegistryAssumption DEF RegistryInv
<1>3. Locked(d)'
  BY <1>1, <1>2 DEF Locked, Goes, AtWork
<1>4. store.lock = c => store.cmds[d].pc \notin AtWork
  BY <1>2 DEF Locked
<1>5. WriterKnows(d)'
  <2>1. CASE store.lock = c
    BY <1>1, <1>2, <1>4, <2>1 DEF WriterKnows, AtWork
  <2>2. CASE file = store.file /\ saved = store.saved /\ lost = store.lost
    BY <1>1, <1>2, <2>2 DEF WriterKnows, Goes, Registry!Content
  <2> QED BY <2>1, <2>2
<1> QED BY <1>3, <1>5

\* A command that leaves without having changed anything.
LEMMA LeavingIsSafe ==
  ASSUME RegistryInv, NEW c \in Commands, store.cmds[c].pc \notin {"aside", "moved"},
         Goes(c, Registry!Idle, store.file, Unlocked(c), store.saved, store.lost)
  PROVE  RegistryInv'
<1>1. store' \in StoreRecords /\ store'.cmds[c] = Registry!Idle
  BY StoreParts DEF Goes, RegistryInv
<1>2. Locked(c)' /\ WriterKnows(c)'
  BY <1>1, RegistryTypes DEF Locked, WriterKnows, AtWork, Registry!Writers
<1>3. \A d \in Commands : d # c => Locked(d)' /\ WriterKnows(d)'
  BY OthersUndisturbed DEF Unlocked
<1>4. \A d \in Commands : store'.cmds[d].pc \notin {"aside", "moved"} => store.cmds[d].pc \notin {"aside", "moved"}
  BY <1>1, StoreParts DEF Goes, RegistryInv
<1>5. Registry!Kept'
  <2>1. Registry!Kept /\ store'.file = store.file /\ store'.saved = store.saved /\ store'.lost = store.lost
    BY DEF RegistryInv, Goes
  <2> QED BY <1>4, <2>1 DEF Registry!Kept, Registry!Cmd, Registry!Content
<1> QED BY <1>1, <1>2, <1>3, <1>5 DEF RegistryInv

\* Commands keep their types.
LEMMA CommandParts ==
  ASSUME RegistryInv, NEW c \in Commands
  PROVE  LET cmd == store.cmds[c] IN
         /\ cmd \in RegistryCommands /\ cmd.pc \in Registry!Pcs /\ cmd.id \in Servers
         /\ cmd.kind \in Registry!Writers \cup {"list"} /\ cmd.definition \in Registry!Definitions
         /\ cmd.seen \in Registry!Registries /\ cmd.backup \in Registry!Files
BY StoreParts DEF RegistryInv, RegistryCommands

LEMMA NextCommand ==
  ASSUME NEW cmd \in RegistryCommands, NEW pc \in Registry!Pcs
  PROVE LET t == [cmd EXCEPT !.pc = pc] IN
        /\ t \in RegistryCommands /\ t.pc = pc /\ t.kind = cmd.kind /\ t.id = cmd.id
        /\ t.definition = cmd.definition /\ t.seen = cmd.seen /\ t.backup = cmd.backup
BY Zenon DEF RegistryCommands

\* A command that goes on without touching the file.
LEMMA GoingOnIsSafe ==
  ASSUME RegistryInv, NEW c \in Commands, NEW cmd, NEW lock,
         Goes(c, cmd, store.file, lock, store.saved, store.lost),
         lock = store.lock \/ (store.lock = NoCommand /\ lock = c),
         store.cmds[c].pc \notin {"aside", "moved"}, cmd.pc \notin {"aside", "moved"},
         cmd.kind \in Registry!Writers /\ cmd.pc \in {"loading", "reading", "staged"} => lock = c,
         cmd.pc \in {"waiting", "staged"} => cmd.kind \in Registry!Writers,
         cmd.pc \in {"waiting", "loading", "reading"} => cmd.seen = Registry!Empty,
         cmd.pc = "staged" => cmd.seen = Registry!Content(store.file)
  PROVE  RegistryInv'
<1>1. store' \in StoreRecords /\ store'.cmds[c] = cmd
  BY StoreParts DEF Goes, RegistryInv
<1>2. Locked(c)' /\ WriterKnows(c)'
  BY <1>1 DEF Goes, Locked, WriterKnows, AtWork, Registry!Content
<1>3. \A d \in Commands : d # c => Locked(d)' /\ WriterKnows(d)'
  BY OthersUndisturbed
<1>4. \A d \in Commands : store'.cmds[d].pc \notin {"aside", "moved"} => store.cmds[d].pc \notin {"aside", "moved"}
  BY <1>1, StoreParts DEF Goes, RegistryInv
<1>5. Registry!Kept'
  <2>1. Registry!Kept /\ store'.file = store.file /\ store'.saved = store.saved /\ store'.lost = store.lost
    BY DEF RegistryInv, Goes
  <2> QED BY <1>4, <2>1 DEF Registry!Kept, Registry!Cmd, Registry!Content
<1> QED BY <1>1, <1>2, <1>3, <1>5 DEF RegistryInv

LEMMA BeginKeepsRegistryInv ==
  ASSUME RegistryInv, NEW c \in Commands, Registry!Begin(c)
  PROVE  RegistryInv'
<1>1. PICK kind \in Registry!Writers \cup {"list"}, id \in Servers, d \in Registry!Definitions \ {0} :
        store' = [Registry!Does(c, [Registry!Idle EXCEPT
                    !.pc = IF kind = "list" THEN "loading" ELSE "waiting",
                    !.kind = kind, !.id = id, !.definition = IF kind = "save" THEN d ELSE 0])
                  EXCEPT !.begun = @ + 1]
  BY DEF Registry!Begin
<1> DEFINE pc == IF kind = "list" THEN "loading" ELSE "waiting"
           definition == IF kind = "save" THEN d ELSE 0
           cmd == [Registry!Idle EXCEPT !.pc = pc, !.kind = kind, !.id = id, !.definition = definition]
           s == Registry!Does(c, cmd)
           n == s.begun + 1
<1>2. pc \in Registry!Pcs /\ definition \in Registry!Definitions
  BY RegistryAssumption DEF Registry!Pcs, Registry!Definitions
<1>3. /\ cmd.pc = pc /\ cmd.kind = kind /\ cmd.seen = Registry!Empty /\ cmd \in RegistryCommands
  <2> HIDE DEF pc, definition
  <2> QED BY <1>2, RegistryTypes, Zenon DEF RegistryCommands
<1>4. (pc = "loading" /\ kind = "list") \/ (pc = "waiting" /\ kind \in Registry!Writers)
  BY DEF Registry!Writers
<1>5. store' = [s EXCEPT !.begun = n]
  BY <1>1
<1> HIDE DEF pc, definition, cmd
<1>6. /\ s \in StoreRecords /\ s.cmds = [store.cmds EXCEPT ![c] = cmd] /\ s.begun = store.begun
      /\ s.file = store.file /\ s.lock = store.lock /\ s.saved = store.saved /\ s.lost = store.lost
  BY <1>3, StoreCommand DEF Registry!Does, RegistryInv
<1>7. n \in 0..MaxCommands
  BY <1>6, StoreParts, RegistryAssumption DEF Registry!Begin, RegistryInv
<1> HIDE DEF s, n
<1>8. Goes(c, cmd, store.file, store.lock, store.saved, store.lost)
  <2>1. [s EXCEPT !.begun = n] \in StoreRecords
    BY <1>6, <1>7, Zenon DEF StoreRecords
  <2>2. LET t == [s EXCEPT !.begun = n] IN
        t.cmds = s.cmds /\ t.file = s.file /\ t.lock = s.lock /\ t.saved = s.saved /\ t.lost = s.lost
    BY <1>6, Zenon DEF StoreRecords
  <2> QED BY <1>5, <1>6, <2>1, <2>2 DEF Goes
<1>9. store.cmds[c].pc = "idle"
  BY DEF Registry!Begin, Registry!Cmd
<1> QED BY <1>3, <1>4, <1>8, <1>9, GoingOnIsSafe DEF Registry!Writers

LEMMA AcquireKeepsRegistryInv ==
  ASSUME RegistryInv, NEW c \in Commands, Registry!Acquire(c)
  PROVE  RegistryInv'
<1> DEFINE cmd == [store.cmds[c] EXCEPT !.pc = "loading"]
           s == Registry!Does(c, cmd)
<1>1. /\ cmd \in RegistryCommands /\ cmd.pc = "loading" /\ cmd.kind = store.cmds[c].kind
      /\ cmd.seen = store.cmds[c].seen
  BY NextCommand, CommandParts DEF Registry!Pcs
<1>2. store' = [s EXCEPT !.lock = c] /\ store.cmds[c].pc = "waiting" /\ store.lock = NoCommand
  BY DEF Registry!Acquire, Registry!Cmd
<1> HIDE DEF cmd
<1>3. /\ s \in StoreRecords /\ s.cmds = [store.cmds EXCEPT ![c] = cmd]
      /\ s.file = store.file /\ s.lock = store.lock /\ s.saved = store.saved /\ s.lost = store.lost
  BY <1>1, StoreCommand DEF Registry!Does, RegistryInv
<1> HIDE DEF s
<1>4. Goes(c, cmd, store.file, c, store.saved, store.lost)
  <2>1. [s EXCEPT !.lock = c] \in StoreRecords
    BY <1>3, StoreFields DEF StoreRecords
  <2>2. LET t == [s EXCEPT !.lock = c] IN
        t.lock = c /\ t.cmds = s.cmds /\ t.file = s.file /\ t.saved = s.saved /\ t.lost = s.lost
    BY <1>3, Zenon DEF StoreRecords
  <2> QED BY <1>2, <1>3, <2>1, <2>2 DEF Goes
<1>5. store.cmds[c].seen = Registry!Empty
  BY <1>2 DEF RegistryInv, WriterKnows
<1> QED BY <1>1, <1>2, <1>4, <1>5, GoingOnIsSafe

LEMMA ExistsKeepsRegistryInv ==
  ASSUME RegistryInv, NEW c \in Commands, Registry!Exists(c)
  PROVE  RegistryInv'
<1>1. store.cmds[c].pc = "loading" /\ store.cmds[c].seen = Registry!Empty /\ Locked(c)
  BY DEF RegistryInv, WriterKnows, Registry!Exists, Registry!Cmd
<1>2. CASE store' = Registry!Does(c, [Registry!Cmd(c) EXCEPT !.pc = "reading"])
  <2> DEFINE cmd == [store.cmds[c] EXCEPT !.pc = "reading"]
  <2>1. /\ cmd \in RegistryCommands /\ cmd.pc = "reading" /\ cmd.kind = store.cmds[c].kind
        /\ cmd.seen = store.cmds[c].seen
    BY NextCommand, CommandParts DEF Registry!Pcs
  <2>2. store' = Registry!Does(c, cmd)
    BY <1>2 DEF Registry!Cmd
  <2> HIDE DEF cmd
  <2>3. Goes(c, cmd, store.file, store.lock, store.saved, store.lost)
    BY <2>1, <2>2, DoesGoes DEF RegistryInv
  <2> QED BY <1>1, <2>1, <2>3, GoingOnIsSafe DEF Locked
<1>3. CASE /\ store.file = NoFile /\ Registry!Cmd(c).kind \in Registry!Writers
           /\ store' = Registry!Does(c, [Registry!Cmd(c) EXCEPT !.pc = "staged"])
  <2> DEFINE cmd == [store.cmds[c] EXCEPT !.pc = "staged"]
  <2>1. /\ cmd \in RegistryCommands /\ cmd.pc = "staged" /\ cmd.kind = store.cmds[c].kind
        /\ cmd.seen = store.cmds[c].seen
    BY NextCommand, CommandParts DEF Registry!Pcs
  <2>2. store' = Registry!Does(c, cmd) /\ cmd.kind \in Registry!Writers
    BY <1>3, <2>1 DEF Registry!Cmd
  <2> HIDE DEF cmd
  <2>3. Goes(c, cmd, store.file, store.lock, store.saved, store.lost)
    BY <2>1, <2>2, DoesGoes DEF RegistryInv
  <2> QED BY <1>1, <1>3, <2>1, <2>2, <2>3, GoingOnIsSafe DEF Locked, Registry!Content
<1>4. CASE \/ store' = Registry!Leaves(store, c)
           \/ Registry!Fault /\ store' = Registry!Failed(Registry!Leaves(store, c))
  BY <1>1, <1>4, LeavesGoes, LeavingIsSafe DEF RegistryInv
<1> QED BY <1>2, <1>3, <1>4 DEF Registry!Exists

LEMMA ReadKeepsRegistryInv ==
  ASSUME RegistryInv, NEW c \in Commands, Registry!Read(c)
  PROVE  RegistryInv'
<1>1. store.cmds[c].pc = "reading" /\ Locked(c)
  BY DEF RegistryInv, Registry!Read, Registry!Cmd
<1>2. CASE /\ store.file # NoFile /\ Registry!Cmd(c).kind \in Registry!Writers
           /\ store' = Registry!Does(c, [Registry!Cmd(c) EXCEPT !.pc = "staged", !.seen = store.file])
  <2> DEFINE cmd == [store.cmds[c] EXCEPT !.pc = "staged", !.seen = store.file]
  <2>1. store.file \in Registry!Registries
    BY <1>2, StoreParts DEF RegistryInv, Registry!Files
  <2>2. store.cmds[c] \in RegistryCommands /\ "staged" \in Registry!Pcs
    BY CommandParts DEF Registry!Pcs
  <2>3. /\ cmd \in RegistryCommands /\ cmd.pc = "staged" /\ cmd.kind = store.cmds[c].kind
        /\ cmd.seen = store.file
    BY <2>1, <2>2, Zenon DEF RegistryCommands
  <2>4. store' = Registry!Does(c, cmd) /\ cmd.kind \in Registry!Writers
    BY <1>2, <2>3 DEF Registry!Cmd
  <2> HIDE DEF cmd
  <2>5. Goes(c, cmd, store.file, store.lock, store.saved, store.lost)
    BY <2>3, <2>4, DoesGoes DEF RegistryInv
  <2> QED BY <1>1, <1>2, <2>3, <2>4, <2>5, GoingOnIsSafe DEF Locked, Registry!Content
<1>3. CASE \/ store' = Registry!Leaves(store, c)
           \/ Registry!Fault /\ store' = Registry!Failed(Registry!Leaves(store, c))
  BY <1>1, <1>3, LeavesGoes, LeavingIsSafe DEF RegistryInv
<1> QED BY <1>2, <1>3 DEF Registry!Read

\* While a writer is at work on the file nobody else is.
LEMMA WriterAlone ==
  ASSUME RegistryInv, NEW c \in Commands, store.lock = c, NEW d \in Commands, d # c
  PROVE  store.cmds[d].pc \notin AtWork
BY DEF RegistryInv, Locked

LEMMA MoveAsideKeepsRegistryInv ==
  ASSUME RegistryInv, NEW c \in Commands, Registry!MoveAside(c)
  PROVE  RegistryInv'
<1>1. /\ store.cmds[c].pc = "staged" /\ store.lock = c
      /\ store.cmds[c].seen = Registry!Content(store.file)
  BY DEF RegistryInv, Locked, WriterKnows, AtWork, Registry!MoveAside, Registry!Cmd
<1>2. ~store.lost => Registry!Content(store.file) = store.saved
  BY <1>1, WriterAlone DEF RegistryInv, Registry!Kept, Registry!Cmd, AtWork
<1>3. CASE store' = [Registry!Does(c, [Registry!Cmd(c) EXCEPT !.pc = "aside", !.backup = store.file])
                     EXCEPT !.file = NoFile]
  <2> DEFINE cmd == [store.cmds[c] EXCEPT !.pc = "aside", !.backup = store.file]
             s == Registry!Does(c, cmd)
  <2>1. store.cmds[c] \in RegistryCommands /\ "aside" \in Registry!Pcs /\ store.file \in Registry!Files
    BY CommandParts, StoreParts DEF Registry!Pcs, RegistryInv
  <2>2. /\ cmd \in RegistryCommands /\ cmd.pc = "aside" /\ cmd.backup = store.file
        /\ cmd.seen = store.cmds[c].seen
    BY <2>1, Zenon DEF RegistryCommands
  <2>3. store' = [s EXCEPT !.file = NoFile]
    BY <1>3 DEF Registry!Cmd
  <2> HIDE DEF cmd
  <2>4. /\ s \in StoreRecords /\ s.cmds = [store.cmds EXCEPT ![c] = cmd]
        /\ s.lock = store.lock /\ s.saved = store.saved /\ s.lost = store.lost
    BY <2>2, StoreCommand DEF Registry!Does, RegistryInv
  <2> HIDE DEF s
  <2>5. Goes(c, cmd, NoFile, store.lock, store.saved, store.lost)
    <3>1. [s EXCEPT !.file = NoFile] \in StoreRecords
      BY <2>4, RegistryTypes, StoreFields, StoreParts
    <3>2. LET t == [s EXCEPT !.file = NoFile] IN
          t.file = NoFile /\ t.cmds = s.cmds /\ t.lock = s.lock /\ t.saved = s.saved /\ t.lost = s.lost
      BY <2>4, Zenon DEF StoreRecords
    <3> QED BY <2>3, <2>4, <3>1, <3>2 DEF Goes
  <2>6. store' \in StoreRecords /\ store'.cmds[c] = cmd
    BY <2>5, StoreParts DEF Goes, RegistryInv
  <2>7. Locked(c)' /\ WriterKnows(c)'
    BY <1>1, <1>2, <2>2, <2>5, <2>6 DEF Goes, Locked, WriterKnows, AtWork, Registry!Content
  <2>8. \A d \in Commands : d # c => Locked(d)' /\ WriterKnows(d)'
    BY <1>1, <2>5, OthersUndisturbed
  <2>9. Registry!Kept'
    BY <2>2, <2>6 DEF Registry!Kept, Registry!Cmd
  <2> QED BY <2>6, <2>7, <2>8, <2>9 DEF RegistryInv
<1>4. CASE Registry!Fault /\ store' = Registry!Failed(Registry!Leaves(store, c))
  BY <1>1, <1>4, LeavesGoes, LeavingIsSafe DEF RegistryInv
<1> QED BY <1>3, <1>4 DEF Registry!MoveAside

\* A writer that leaves with the file as the reported saves and removals make it.
LEMMA LeavingAfterWork ==
  ASSUME RegistryInv, NEW c \in Commands, store.lock = c,
         NEW file, NEW saved, NEW lost, Goes(c, Registry!Idle, file, NoCommand, saved, lost),
         ~lost => Registry!Content(file) = saved
  PROVE  RegistryInv'
<1>1. store' \in StoreRecords /\ store'.cmds[c] = Registry!Idle
  BY StoreParts DEF Goes, RegistryInv
<1>2. Locked(c)' /\ WriterKnows(c)'
  BY <1>1, RegistryTypes DEF Locked, WriterKnows, AtWork, Registry!Writers
<1>3. \A d \in Commands : d # c => Locked(d)' /\ WriterKnows(d)'
  BY OthersUndisturbed
<1>4. Registry!Kept'
  BY DEF Registry!Kept, Goes, Registry!Content
<1> QED BY <1>1, <1>2, <1>3, <1>4 DEF RegistryInv

LEMMA MoveInKeepsRegistryInv ==
  ASSUME RegistryInv, NEW c \in Commands, Registry!MoveIn(c)
  PROVE  RegistryInv'
<1> DEFINE cmd == store.cmds[c]
           new == [cmd.seen EXCEPT ![cmd.id] = cmd.definition]
           s == Registry!Leaves(store, c)
<1>1. /\ cmd.pc = "aside" /\ store.lock = c /\ store.file = NoFile
      /\ cmd.seen = Registry!Content(cmd.backup) /\ (~store.lost => cmd.seen = store.saved)
  BY DEF RegistryInv, Locked, WriterKnows, AtWork, Registry!MoveIn, Registry!Cmd
<1>2. new \in Registry!Registries
  BY CommandParts DEF Registry!Registries
<1>3. /\ s \in StoreRecords /\ s.cmds = [store.cmds EXCEPT ![c] = Registry!Idle] /\ s.lock = NoCommand
      /\ s.file = store.file /\ s.saved = store.saved /\ s.lost = store.lost /\ s.faults = store.faults
  BY <1>1, LeavesStore DEF RegistryInv
<1> HIDE DEF s
<1>4. CASE store' = [Registry!Does(c, [Registry!Cmd(c) EXCEPT !.pc = "moved"]) EXCEPT !.file = Registry!New(c)]
  <2> DEFINE next == [cmd EXCEPT !.pc = "moved"]
             t == Registry!Does(c, next)
  <2>1. /\ next \in RegistryCommands /\ next.pc = "moved" /\ next.id = cmd.id
        /\ next.definition = cmd.definition
    BY NextCommand, CommandParts DEF Registry!Pcs
  <2>2. store' = [t EXCEPT !.file = new]
    BY <1>4 DEF Registry!Cmd, Registry!New
  <2> HIDE DEF next
  <2>3. /\ t \in StoreRecords /\ t.cmds = [store.cmds EXCEPT ![c] = next]
        /\ t.lock = store.lock /\ t.saved = store.saved /\ t.lost = store.lost
    BY <2>1, StoreCommand DEF Registry!Does, RegistryInv
  <2> HIDE DEF t
  <2>4. Goes(c, next, new, store.lock, store.saved, store.lost)
    <3> HIDE DEF new
    <3>1. new \in Registry!Files
      BY <1>2, RegistryTypes
    <3>2. [t EXCEPT !.file = new] \in StoreRecords
      BY <2>3, <3>1, StoreFields, StoreParts
    <3>3. LET u == [t EXCEPT !.file = new] IN
          u.file = new /\ u.cmds = t.cmds /\ u.lock = t.lock /\ u.saved = t.saved /\ u.lost = t.lost
      BY <2>3, Zenon DEF StoreRecords
    <3> QED BY <2>2, <2>3, <3>2, <3>3 DEF Goes
  <2>5. store' \in StoreRecords /\ store'.cmds[c] = next
    BY <2>4, StoreParts DEF Goes, RegistryInv
  <2>6. Locked(c)' /\ WriterKnows(c)'
    BY <1>1, <1>2, <2>1, <2>4, <2>5 DEF Goes, Locked, WriterKnows, AtWork
  <2>7. \A d \in Commands : d # c => Locked(d)' /\ WriterKnows(d)'
    BY <1>1, <2>4, OthersUndisturbed
  <2>8. Registry!Kept'
    BY <2>1, <2>5 DEF Registry!Kept, Registry!Cmd
  <2> QED BY <2>5, <2>6, <2>7, <2>8 DEF RegistryInv
<1>5. CASE Registry!Fault /\ store' = [Registry!Failed(s) EXCEPT !.file = Registry!Cmd(c).backup]
  <2> DEFINE t == Registry!Failed(s)
             backup == cmd.backup
  <2>1. /\ t \in StoreRecords /\ t.cmds = s.cmds /\ t.lock = s.lock /\ t.saved = s.saved /\ t.lost = s.lost
    BY <1>3, <1>5, FailedStore DEF Registry!Fault
  <2>2. store' = [t EXCEPT !.file = backup] /\ backup \in Registry!Files
    BY <1>5, CommandParts DEF Registry!Cmd
  <2> HIDE DEF t, backup
  <2>3. Goes(c, Registry!Idle, backup, NoCommand, store.saved, store.lost)
    <3>1. [t EXCEPT !.file = backup] \in StoreRecords
      BY <2>1, <2>2, StoreFields, StoreParts
    <3>2. LET u == [t EXCEPT !.file = backup] IN
          u.file = backup /\ u.cmds = t.cmds /\ u.lock = t.lock /\ u.saved = t.saved /\ u.lost = t.lost
      BY <2>1, Zenon DEF StoreRecords
    <3> QED BY <1>3, <2>1, <2>2, <3>1, <3>2 DEF Goes
  <2> QED BY <1>1, <2>3, LeavingAfterWork DEF backup
<1>6. CASE /\ store.faults + 1 < MaxFailures
           /\ store' = [Registry!Failed(Registry!Failed(s)) EXCEPT !.lost = @ \/ Registry!Cmd(c).backup # NoFile]
  <2> DEFINE t == Registry!Failed(s)
             u == Registry!Failed(t)
             lost == store.lost \/ cmd.backup # NoFile
  <2>1. /\ t \in StoreRecords /\ t.cmds = s.cmds /\ t.lock = s.lock /\ t.saved = s.saved /\ t.lost = s.lost
        /\ t.file = s.file /\ t.faults = store.faults + 1
    BY <1>3, <1>6, FailedStore, StoreParts, RegistryAssumption
  <2> HIDE DEF t
  <2>2. /\ u \in StoreRecords /\ u.cmds = s.cmds /\ u.lock = s.lock /\ u.saved = s.saved /\ u.lost = s.lost
        /\ u.file = s.file
    BY <1>6, <2>1, FailedStore
  <2>3. store' = [u EXCEPT !.lost = lost]
    BY <1>3, <1>6, <2>2 DEF Registry!Cmd, t
  <2>4. lost \in BOOLEAN
    OBVIOUS
  <2> HIDE DEF u
  <2>5. Goes(c, Registry!Idle, store.file, NoCommand, store.saved, lost)
    <3> HIDE DEF lost
    <3>1. [u EXCEPT !.lost = lost] \in StoreRecords
      BY <2>2, <2>4, Zenon DEF StoreRecords
    <3>2. LET v == [u EXCEPT !.lost = lost] IN
          v.lost = lost /\ v.cmds = u.cmds /\ v.lock = u.lock /\ v.saved = u.saved /\ v.file = u.file
      BY <2>2, Zenon DEF StoreRecords
    <3> QED BY <1>3, <2>2, <2>3, <3>1, <3>2 DEF Goes
  <2> QED BY <1>1, <2>5, LeavingAfterWork DEF Registry!Content
<1> QED BY <1>4, <1>5, <1>6 DEF Registry!MoveIn, s

LEMMA ReturnKeepsRegistryInv ==
  ASSUME RegistryInv, NEW c \in Commands, Registry!Return(c)
  PROVE  RegistryInv'
<1> DEFINE cmd == store.cmds[c]
           saved == [store.saved EXCEPT ![cmd.id] = cmd.definition]
           s == Registry!Leaves(store, c)
<1>1. /\ cmd.pc = "moved" /\ store.lock = c /\ store.file \in Registry!Registries
      /\ ~store.lost => store.file = saved
  BY DEF RegistryInv, Locked, WriterKnows, AtWork, Registry!Return, Registry!Cmd
<1>2. saved \in Registry!Registries
  BY CommandParts, StoreParts DEF Registry!Registries, RegistryInv
<1>3. /\ s \in StoreRecords /\ s.cmds = [store.cmds EXCEPT ![c] = Registry!Idle] /\ s.lock = NoCommand
      /\ s.file = store.file /\ s.saved = store.saved /\ s.lost = store.lost
  BY <1>1, LeavesStore DEF RegistryInv
<1>4. store' = [s EXCEPT !.saved = saved]
  BY <1>3 DEF Registry!Return, Registry!Cmd
<1> HIDE DEF s, saved
<1>5. Goes(c, Registry!Idle, store.file, NoCommand, saved, store.lost)
  <2>1. [s EXCEPT !.saved = saved] \in StoreRecords
    BY <1>2, <1>3, Zenon DEF StoreRecords
  <2>2. LET t == [s EXCEPT !.saved = saved] IN
        t.saved = saved /\ t.cmds = s.cmds /\ t.lock = s.lock /\ t.file = s.file /\ t.lost = s.lost
    BY <1>3, Zenon DEF StoreRecords
  <2> QED BY <1>3, <1>4, <2>1, <2>2 DEF Goes
<1> QED BY <1>1, <1>5, RegistryTypes, LeavingAfterWork DEF Registry!Content

LEMMA DiesKeepsRegistryInv == RegistryInv /\ Registry!Dies => RegistryInv'
<1> SUFFICES ASSUME RegistryInv, Registry!Dies PROVE RegistryInv' OBVIOUS
<1> DEFINE s == Registry!Failed(store)
           cmds == [c \in Commands |-> Registry!Idle]
           saved == IF \E c \in Commands : store.cmds[c].pc = "moved"
                    THEN Registry!Content(store.file) ELSE store.saved
           lost == store.lost \/ \E c \in Commands : store.cmds[c].pc = "aside" /\ store.cmds[c].backup # NoFile
<1>1. /\ s \in StoreRecords /\ s.file = store.file /\ s.saved = store.saved /\ s.lost = store.lost
  BY FailedStore DEF RegistryInv, Registry!Dies, Registry!Fault
<1>2. store' = [s EXCEPT !.cmds = cmds, !.lock = NoCommand, !.saved = saved, !.lost = lost]
  BY <1>1 DEF Registry!Dies, Registry!Cmd
<1>3. cmds \in [Commands -> RegistryCommands] /\ saved \in Registry!Registries /\ lost \in BOOLEAN
  BY RegistryTypes, StoreParts DEF RegistryInv
<1>4. ~lost => Registry!Content(store.file) = saved
  <2>1. CASE \E c \in Commands : store.cmds[c].pc = "moved"
    BY <2>1
  <2>2. CASE \E c \in Commands : store.cmds[c].pc = "aside"
    <3>1. PICK c \in Commands : store.cmds[c].pc = "aside"
      BY <2>2
    <3>2. WriterKnows(c) /\ store.lock = c
      BY <3>1 DEF RegistryInv, Locked, AtWork
    <3>3. ~lost => store.cmds[c].backup = NoFile /\ ~store.lost
      BY <3>1
    <3>4. \A d \in Commands : store.cmds[d].pc # "moved"
      BY <3>1, <3>2, WriterAlone DEF AtWork
    <3> QED BY <3>1, <3>2, <3>3, <3>4 DEF WriterKnows, Registry!Content
  <2>3. CASE \A c \in Commands : store.cmds[c].pc \notin {"aside", "moved"}
    BY <2>3 DEF RegistryInv, Registry!Kept, Registry!Cmd
  <2> QED BY <2>1, <2>2, <2>3
<1> HIDE DEF s, cmds, saved, lost
<1>5. /\ store' \in StoreRecords /\ store'.cmds = cmds /\ store'.file = store.file
      /\ store'.saved = saved /\ store'.lost = lost
  <2>1. [s EXCEPT !.cmds = cmds, !.lock = NoCommand, !.saved = saved, !.lost = lost] \in StoreRecords
    BY <1>1, <1>3, Zenon DEF StoreRecords
  <2>2. LET t == [s EXCEPT !.cmds = cmds, !.lock = NoCommand, !.saved = saved, !.lost = lost] IN
        t.cmds = cmds /\ t.file = s.file /\ t.saved = saved /\ t.lost = lost
    BY <1>1, Zenon DEF StoreRecords
  <2> QED BY <1>1, <1>2, <2>1, <2>2
<1>6. \A c \in Commands : store'.cmds[c] = Registry!Idle
  BY <1>5 DEF cmds
<1>7. \A c \in Commands : Locked(c)' /\ WriterKnows(c)'
  BY <1>6, RegistryTypes DEF Locked, WriterKnows, AtWork, Registry!Writers
<1>8. Registry!Kept'
  BY <1>4, <1>5 DEF Registry!Kept, Registry!Content
<1> QED BY <1>5, <1>7, <1>8 DEF RegistryInv

LEMMA RegistryInvInit == Registry!Init => RegistryInv
<1> SUFFICES ASSUME Registry!Init PROVE RegistryInv OBVIOUS
<1>1. PICK file \in Registry!Files :
        store = [file |-> file, lock |-> NoCommand, cmds |-> [c \in Commands |-> Registry!Idle],
                 saved |-> Registry!Content(file), lost |-> FALSE, begun |-> 0, faults |-> 0]
  BY DEF Registry!Init, Registry!Files
<1>2. /\ [c \in Commands |-> Registry!Idle] \in [Commands -> RegistryCommands]
      /\ Registry!Content(file) \in Registry!Registries /\ 0 \in 0..MaxCommands /\ 0 \in 0..MaxFailures
  BY RegistryTypes, RegistryAssumption
<1>3. store \in StoreRecords
  BY <1>1, <1>2, Zenon DEF StoreRecords
<1>4. /\ \A c \in Commands : store.cmds[c] = Registry!Idle
      /\ store.file = file /\ store.saved = Registry!Content(file)
  BY <1>1
<1>5. \A c \in Commands : Locked(c) /\ WriterKnows(c)
  BY <1>4, RegistryTypes DEF Locked, WriterKnows, AtWork, Registry!Writers
<1>6. Registry!Kept
  BY <1>4 DEF Registry!Kept
<1> QED BY <1>3, <1>5, <1>6 DEF RegistryInv

LEMMA RegistryInvNext == RegistryInv /\ Registry!Next => RegistryInv'
BY BeginKeepsRegistryInv, AcquireKeepsRegistryInv, ExistsKeepsRegistryInv, ReadKeepsRegistryInv,
   MoveAsideKeepsRegistryInv, MoveInKeepsRegistryInv, ReturnKeepsRegistryInv, DiesKeepsRegistryInv
   DEF Registry!Next

LEMMA RegistryInvStutters == RegistryInv /\ UNCHANGED store => RegistryInv'
BY DEF RegistryInv, Locked, WriterKnows, Registry!Kept, Registry!Content, Registry!Cmd

LEMMA RegistryInvImplies == RegistryInv => Registry!TypeOK /\ Registry!Kept
<1> SUFFICES ASSUME RegistryInv PROVE Registry!TypeOK
  BY DEF RegistryInv
<1> QED BY CommandParts, StoreParts DEF RegistryInv, Registry!TypeOK

-----------------------------------------------------------------------------
\* The runtimes on screen (useRuntimesController.ts).

JobStates == {"called", "moving", "done", "listing"}
JobRecords == [kind : Runtimes!Kinds, of : Runtimes!Runtimes, at : JobStates]
ListRecords ==
  [gen : Nat, forced : BOOLEAN, at : {"asked", "read", "looking"}, has : SUBSET Runtimes!Runtimes,
   for : JobRecords \cup {Runtimes!NoJob}]
ProbeRecords == [gen : Nat, key : Runtimes!Runtimes]
RowRecords == [has : SUBSET Builds, busy : BOOLEAN]
RuntimesTypes ==
  /\ installed \subseteq Runtimes!Runtimes /\ unseen \subseteq Runtimes!Runtimes /\ active \in Runtimes!Runtimes \cup {Runtimes!NoRuntime}
  /\ rows \in [Backends -> RowRecords]
  /\ prBusy \in BOOLEAN /\ bundleBusy \in BOOLEAN /\ uninstallBusy \in BOOLEAN
  /\ reviewing \in BOOLEAN /\ cancelBusy \in BOOLEAN /\ cached \in BOOLEAN /\ listed \in BOOLEAN
  /\ probeBusy \in BOOLEAN
  /\ jobs \subseteq JobRecords /\ lists \subseteq ListRecords /\ gen \in Nat
  /\ (\A l \in lists : l.gen <= gen)
  /\ capabilities \in Runtimes!Runtimes \cup {Runtimes!NoRuntime}
  /\ preview \in Runtimes!Runtimes \cup {Runtimes!NoRuntime}
  /\ probes \subseteq ProbeRecords /\ probeGen \in Nat

Mutating == {"install", "pull", "import", "uninstall"}
OnRow == {"install", "pull"}
OnBundle == {"import", "export"}

\* Two calls that the panel never has under way at once.
Clash(j, k) ==
  \/ j.kind \in OnRow /\ k.kind \in OnRow /\ j.of[1] = k.of[1]
  \/ j.kind = "pull" /\ k.kind = "pull"
  \/ j.kind \in OnBundle /\ k.kind \in OnBundle
  \/ j.kind = "uninstall" /\ k.kind = "uninstall"
OneEach == \A j \in jobs, k \in jobs : Clash(j, k) => j = k

\* As long as a call is under way, what it made busy stays busy.
StaysBusy ==
  \A j \in jobs :
    /\ j.kind \in OnRow => rows[j.of[1]].busy
    /\ j.kind = "pull" => prBusy
    /\ j.kind \in OnBundle => bundleBusy
    /\ j.kind = "uninstall" => uninstallBusy

\* A refresh that ends a call ends one that waits for it, and no other does.
EndsItsJob ==
  /\ \A l \in lists : l.for # Runtimes!NoJob =>
       /\ l.for.kind \in Mutating
       /\ \E j \in jobs : j.kind = l.for.kind /\ j.of = l.for.of /\ j.at = "listing"
  /\ \A l \in lists, k \in lists :
       l.for # Runtimes!NoJob /\ k.for # Runtimes!NoJob /\ Clash(l.for, k.for) => l = k

\* One refresh is the newest, and it is over once its list is shown.
OneNewest ==
  /\ \A l \in lists, k \in lists : l.gen = gen /\ k.gen = gen => l = k
  /\ listed => \A l \in lists : l.gen # gen

\* What changed since a list was read has not been reported to the panel, which will
\* ask again then, or a call that may fail has changed it.
Unreported == \E j \in jobs : j.kind \in Mutating /\ j.at = "done"
OnRows == {r \in Runtimes!Runtimes : r[2] \in rows[r[1]].has}
Agrees(has) == \A r \in Runtimes!Runtimes \ unseen : r \in has <=> r \in installed
ListsAreFresh ==
  /\ \A l \in lists : l.gen = gen /\ l.at # "asked" => Agrees(l.has) \/ Unreported
  /\ listed => Unreported \/ Agrees(OnRows)

ProbeUnderway == probeBusy => \E p \in probes : p.gen = probeGen

RuntimesInv ==
  RuntimesTypes /\ OneEach /\ StaysBusy /\ EndsItsJob /\ OneNewest /\ ListsAreFresh /\ ProbeUnderway

LEMMA JobMoves ==
  ASSUME NEW j \in JobRecords, NEW at \in JobStates
  PROVE LET k == [j EXCEPT !.at = at] IN k \in JobRecords /\ k.kind = j.kind /\ k.of = j.of /\ k.at = at
BY Zenon DEF JobRecords

LEMMA NewJob ==
  ASSUME NEW kind \in Runtimes!Kinds, NEW r \in Runtimes!Runtimes
  PROVE LET j == Runtimes!Job(kind, r) IN j \in JobRecords /\ j.kind = kind /\ j.of = r /\ j.at = "called"
BY DEF JobRecords, JobStates, Runtimes!Job

LEMMA JobFields ==
  ASSUME NEW j \in JobRecords
  PROVE j.kind \in Runtimes!Kinds /\ j.of \in Runtimes!Runtimes /\ j.of[1] \in Backends
BY DEF JobRecords, Runtimes!Runtimes

LEMMA NoJobIsNone == Runtimes!NoJob.kind = "none" /\ Runtimes!NoJob \notin JobRecords
BY DEF Runtimes!NoJob, Runtimes!Job, JobRecords, Runtimes!Kinds

LEMMA ListFields ==
  ASSUME NEW l \in ListRecords
  PROVE /\ l.gen \in Nat /\ l.has \in SUBSET Runtimes!Runtimes /\ l.for \in JobRecords \cup {Runtimes!NoJob}
        /\ l.at \in {"asked", "read", "looking"}
BY Zenon DEF ListRecords

LEMMA ListMoves ==
  ASSUME NEW l \in ListRecords, NEW at \in {"asked", "read", "looking"}
  PROVE LET k == [l EXCEPT !.at = at] IN
        k \in ListRecords /\ k.gen = l.gen /\ k.has = l.has /\ k.for = l.for /\ k.at = at
BY Zenon DEF ListRecords

LEMMA NewList ==
  ASSUME NEW forced \in BOOLEAN, NEW g \in Nat, NEW job \in JobRecords \cup {Runtimes!NoJob}
  PROVE LET l == Runtimes!Refresh(forced, g, job) IN
        l \in ListRecords /\ l.gen = g /\ l.at = "asked" /\ l.for = job
<1>1. {} \in SUBSET Runtimes!Runtimes
  OBVIOUS
<1> QED BY <1>1, Zenon DEF ListRecords, Runtimes!Refresh

LEMMA NewListIs ==
  ASSUME NEW forced \in BOOLEAN, NEW g \in Nat, NEW job \in JobRecords \cup {Runtimes!NoJob},
         NEW l, l = Runtimes!Refresh(forced, g, job)
  PROVE  l \in ListRecords /\ l.gen = g /\ l.at = "asked" /\ l.for = job
BY NewList

\* The rows after a row has become busy or free, and after a list is shown.
LEMMA BusyRows ==
  ASSUME NEW rs \in [Backends -> RowRecords], NEW b \in Backends,
         NEW s, s = [rs EXCEPT ![b].busy = TRUE]
  PROVE /\ s \in [Backends -> RowRecords] /\ s[b].busy
        /\ \A c \in Backends : s[c].has = rs[c].has /\ (c # b => s[c].busy = rs[c].busy)
<1> DEFINE row == [rs[b] EXCEPT !.busy = TRUE]
<1>1. rs[b] \in RowRecords
  OBVIOUS
<1>2. row \in RowRecords /\ row.busy /\ row.has = rs[b].has
  BY <1>1, Zenon DEF RowRecords
<1>3. s = [rs EXCEPT ![b] = row]
  BY Zenon
<1> HIDE DEF row
<1> QED BY <1>2, <1>3

LEMMA FreeRows ==
  ASSUME NEW rs \in [Backends -> RowRecords], NEW b \in Backends,
         NEW s, s = [rs EXCEPT ![b].busy = FALSE]
  PROVE /\ s \in [Backends -> RowRecords] /\ ~s[b].busy
        /\ \A c \in Backends : s[c].has = rs[c].has /\ (c # b => s[c].busy = rs[c].busy)
<1> DEFINE row == [rs[b] EXCEPT !.busy = FALSE]
<1>1. rs[b] \in RowRecords
  OBVIOUS
<1>2. row \in RowRecords /\ ~row.busy /\ row.has = rs[b].has
  BY <1>1, Zenon DEF RowRecords
<1>3. s = [rs EXCEPT ![b] = row]
  BY Zenon
<1> HIDE DEF row
<1> QED BY <1>2, <1>3

LEMMA ShownRows ==
  ASSUME RuntimesTypes, NEW has \in SUBSET Runtimes!Runtimes
  PROVE LET s == Runtimes!Shown(has) IN
        /\ s \in [Backends -> RowRecords]
        /\ \A b \in Backends : s[b].has = {r[2] : r \in {x \in has : x[1] = b}} /\ s[b].busy = rows[b].busy
<1>1. \A b \in Backends : rows[b] \in RowRecords
  BY DEF RuntimesTypes
<1>2. ASSUME NEW b \in Backends
      PROVE LET of == {r[2] : r \in {x \in has : x[1] = b}}
                row == [rows[b] EXCEPT !.has = of]
            IN  row \in RowRecords /\ row.has = of /\ row.busy = rows[b].busy
  <2> DEFINE of == {r[2] : r \in {x \in has : x[1] = b}}
  <2>1. of \in SUBSET Builds
    BY DEF Runtimes!Runtimes
  <2> HIDE DEF of
  <2>2. LET row == [rows[b] EXCEPT !.has = of] IN row \in RowRecords /\ row.has = of /\ row.busy = rows[b].busy
    BY <1>1, <2>1, Zenon DEF RowRecords
  <2> QED BY <2>2 DEF of
<1> QED BY <1>2 DEF Runtimes!Shown

-----------------------------------------------------------------------------
\* What a step does to the calls, the rows and the lists.

Untouched ==
  /\ jobs' = jobs /\ rows' = rows /\ prBusy' = prBusy /\ bundleBusy' = bundleBusy
  /\ uninstallBusy' = uninstallBusy /\ lists' = lists /\ gen' = gen /\ listed' = listed
  /\ installed' = installed /\ unseen' = unseen

HasSame == \A b \in Backends : rows'[b].has = rows[b].has

\* Nothing but what job j has made busy becomes free.
FreesOnly(j) ==
  /\ \A b \in Backends : rows[b].busy /\ ~(j.kind \in OnRow /\ j.of[1] = b) => rows'[b].busy
  /\ prBusy /\ j.kind # "pull" => prBusy'
  /\ bundleBusy /\ j.kind \notin OnBundle => bundleBusy'
  /\ uninstallBusy /\ j.kind # "uninstall" => uninstallBusy'

\* What the rows show is what their lists of builds say.
LEMMA RowsShow == \A r \in Runtimes!Runtimes : r[1] \in Backends /\ r[2] \in Builds /\ r = <<r[1], r[2]>>
BY DEF Runtimes!Runtimes

LEMMA HasSameShows == HasSame => OnRows' = OnRows
BY RowsShow DEF HasSame, OnRows

\* The lists stay fresh as long as neither they nor what is installed change.
LEMMA StaysFresh ==
  ASSUME ListsAreFresh, OneNewest, Unreported => Unreported', HasSame, lists' = lists, gen' = gen,
         listed' = listed, unseen' = unseen, installed' = installed
  PROVE  ListsAreFresh' /\ OneNewest'
<1>1. OnRows' = OnRows
  BY HasSameShows
<1>2. Agrees(OnRows) => Agrees(OnRows)'
  BY <1>1 DEF Agrees
<1>3. \A l \in lists : Agrees(l.has) => Agrees(l.has)'
  BY DEF Agrees
<1>4. ListsAreFresh'
  BY <1>2, <1>3 DEF ListsAreFresh
<1> QED BY <1>4 DEF OneNewest

LEMMA UntouchedIsSafe ==
  ASSUME RuntimesInv, Untouched
  PROVE  OneEach' /\ StaysBusy' /\ EndsItsJob' /\ OneNewest' /\ ListsAreFresh'
<1>1. OneEach' /\ StaysBusy' /\ EndsItsJob'
  BY DEF RuntimesInv, Untouched, OneEach, StaysBusy, EndsItsJob, Clash
<1>2. HasSame /\ (Unreported => Unreported')
  BY DEF Untouched, HasSame, Unreported
<1> QED BY <1>1, <1>2, StaysFresh DEF RuntimesInv, Untouched

LEMMA CallingIsSafe ==
  ASSUME RuntimesInv, NEW job \in JobRecords, job.at = "called", jobs' = jobs \cup {job},
         \A k \in jobs : ~Clash(job, k),
         \A b \in Backends : rows[b].busy => rows'[b].busy, HasSame,
         prBusy => prBusy', bundleBusy => bundleBusy', uninstallBusy => uninstallBusy',
         job.kind \in OnRow => rows'[job.of[1]].busy, job.kind = "pull" => prBusy',
         job.kind \in OnBundle => bundleBusy', job.kind = "uninstall" => uninstallBusy',
         lists' = lists, gen' = gen, listed' = listed, unseen' = unseen, installed' = installed
  PROVE  OneEach' /\ StaysBusy' /\ EndsItsJob' /\ OneNewest' /\ ListsAreFresh'
<1>1. OneEach'
  <2>1. \A k \in jobs : ~Clash(k, job)
    BY DEF Clash
  <2> QED BY <2>1 DEF RuntimesInv, OneEach, Clash
<1>2. StaysBusy'
  BY JobFields DEF RuntimesInv, RuntimesTypes, StaysBusy
<1>3. EndsItsJob'
  BY DEF RuntimesInv, EndsItsJob, Clash
<1>4. ListsAreFresh' /\ OneNewest'
  <2>1. Unreported => Unreported'
    BY DEF Unreported
  <2> QED BY <2>1, StaysFresh DEF RuntimesInv
<1> QED BY <1>1, <1>2, <1>3, <1>4

LEMMA MovingIsSafe ==
  ASSUME RuntimesInv, NEW j \in jobs, NEW k \in JobRecords, k.kind = j.kind, k.of = j.of,
         jobs' = (jobs \ {j}) \cup {k}, rows' = rows, prBusy' = prBusy, bundleBusy' = bundleBusy,
         uninstallBusy' = uninstallBusy
  PROVE  OneEach' /\ StaysBusy'
<1>1. \A i \in jobs \ {j} : ~Clash(i, j) /\ ~Clash(j, i)
  BY DEF RuntimesInv, OneEach
<1>2. \A i \in jobs \ {j} : ~Clash(i, k) /\ ~Clash(k, i)
  BY <1>1 DEF Clash
<1>3. OneEach'
  BY <1>2 DEF RuntimesInv, OneEach, Clash
<1>4. StaysBusy'
  BY DEF RuntimesInv, StaysBusy
<1> QED BY <1>3, <1>4

LEMMA LeavingFrees ==
  ASSUME RuntimesInv, NEW j \in jobs, jobs' = jobs \ {j}, FreesOnly(j)
  PROVE  OneEach' /\ StaysBusy'
<1>1. \A i \in jobs \ {j} : ~Clash(i, j)
  BY DEF RuntimesInv, OneEach
<1>2. OneEach'
  BY DEF RuntimesInv, OneEach, Clash
<1>3. StaysBusy'
  <2> SUFFICES ASSUME NEW i \in jobs \ {j}
               PROVE  /\ i.kind \in OnRow => rows'[i.of[1]].busy
                      /\ i.kind = "pull" => prBusy'
                      /\ i.kind \in OnBundle => bundleBusy'
                      /\ i.kind = "uninstall" => uninstallBusy'
    BY DEF StaysBusy
  <2>1. i.of[1] \in Backends
    BY JobFields DEF RuntimesInv, RuntimesTypes
  <2> QED BY <1>1, <2>1 DEF RuntimesInv, StaysBusy, FreesOnly, Clash
<1> QED BY <1>2, <1>3

LEMMA OverFrees ==
  ASSUME RuntimesTypes, NEW j \in JobRecords, Runtimes!Over(j)
  PROVE  /\ rows' \in [Backends -> RowRecords] /\ HasSame /\ FreesOnly(j)
         /\ prBusy' \in BOOLEAN /\ bundleBusy' \in BOOLEAN /\ uninstallBusy' \in BOOLEAN
         /\ reviewing' \in BOOLEAN /\ cancelBusy' \in BOOLEAN
<1>1. j.of[1] \in Backends
  BY JobFields
<1>2. rows' \in [Backends -> RowRecords] /\ HasSame
      /\ \A b \in Backends : rows[b].busy /\ ~(j.kind \in OnRow /\ j.of[1] = b) => rows'[b].busy
  <2>1. CASE j.kind \in OnRow
    <3>1. rows' = [rows EXCEPT ![j.of[1]].busy = FALSE]
      BY <2>1 DEF Runtimes!Over, Runtimes!Busy, OnRow
    <3>2. /\ rows' \in [Backends -> RowRecords]
          /\ \A c \in Backends : rows'[c].has = rows[c].has
          /\ \A c \in Backends : c # j.of[1] => rows'[c].busy = rows[c].busy
      BY <1>1, <3>1, FreeRows DEF RuntimesTypes
    <3> QED BY <2>1, <3>2 DEF HasSame
  <2>2. CASE j.kind \notin OnRow
    BY <2>2 DEF Runtimes!Over, RuntimesTypes, HasSame, OnRow
  <2> QED BY <2>1, <2>2
<1>3. /\ prBusy /\ j.kind # "pull" => prBusy'
      /\ bundleBusy /\ j.kind \notin OnBundle => bundleBusy'
      /\ uninstallBusy /\ j.kind # "uninstall" => uninstallBusy'
  BY DEF Runtimes!Over, OnBundle
<1>4. /\ prBusy' \in BOOLEAN /\ bundleBusy' \in BOOLEAN /\ uninstallBusy' \in BOOLEAN
      /\ reviewing' \in BOOLEAN /\ cancelBusy' \in BOOLEAN
  BY DEF Runtimes!Over
<1> QED BY <1>2, <1>3, <1>4 DEF FreesOnly

\* A call that is over without a refresh: the lists know nothing of it.
LEMMA EndingIsSafe ==
  ASSUME RuntimesInv, NEW j \in jobs, jobs' = jobs \ {j}, Runtimes!Over(j),
         j.at = "called" \/ (j.at = "done" /\ j.kind \notin Mutating),
         lists' = lists, gen' = gen, listed' = listed, unseen' = unseen, installed' = installed
  PROVE  OneEach' /\ StaysBusy' /\ EndsItsJob' /\ OneNewest' /\ ListsAreFresh'
<1>1. j \in JobRecords /\ RuntimesTypes
  BY DEF RuntimesInv, RuntimesTypes
<1>2. OneEach' /\ StaysBusy'
  BY <1>1, OverFrees, LeavingFrees
<1>3. EndsItsJob'
  BY DEF RuntimesInv, EndsItsJob, Clash
<1>4. Unreported => Unreported'
  BY DEF Unreported
<1>5. ListsAreFresh' /\ OneNewest'
  BY <1>1, <1>4, OverFrees, StaysFresh DEF RuntimesInv
<1> QED BY <1>2, <1>3, <1>5

\* A new refresh makes the lists of the others old.
LEMMA AskingIsSafe ==
  ASSUME RuntimesInv, NEW l \in ListRecords, l.gen = gen + 1, l.at = "asked",
         lists' = lists \cup {l}, gen' = gen + 1, listed' = FALSE
  PROVE  /\ OneNewest' /\ ListsAreFresh' /\ lists' \subseteq ListRecords /\ gen' \in Nat
         /\ \A k \in lists' : k.gen <= gen'
<1>1. lists \subseteq ListRecords /\ gen \in Nat /\ \A k \in lists : k.gen \in Nat /\ k.gen <= gen
  BY ListFields DEF RuntimesInv, RuntimesTypes
<1>2. \A k \in lists' : k.gen <= gen' /\ (k.gen = gen' => k = l /\ k.at = "asked")
  BY <1>1
<1>3. ListsAreFresh'
  BY <1>2 DEF ListsAreFresh
<1>4. OneNewest'
  BY <1>2 DEF OneNewest
<1> QED BY <1>1, <1>2, <1>3, <1>4

\* A list that goes on keeps its refresh and its job.
LEMMA ListMovingIsSafe ==
  ASSUME RuntimesInv, NEW l \in lists, NEW k \in ListRecords, k.gen = l.gen, k.for = l.for,
         \/ k.has = installed /\ unseen' = (IF l.gen = gen THEN {} ELSE unseen)
         \/ k.has = l.has /\ l.at # "asked" /\ unseen' = unseen,
         lists' = (lists \ {l}) \cup {k}, jobs' = jobs, rows' = rows, prBusy' = prBusy,
         bundleBusy' = bundleBusy, uninstallBusy' = uninstallBusy, gen' = gen, listed' = listed,
         installed' = installed
  PROVE  /\ OneEach' /\ StaysBusy' /\ EndsItsJob' /\ OneNewest' /\ ListsAreFresh' /\ lists' \subseteq ListRecords
         /\ \A i \in lists' : i.gen <= gen'
<1>1. lists \subseteq ListRecords /\ \A i \in lists : i.gen <= gen
  BY DEF RuntimesInv, RuntimesTypes
<1>2. OneEach' /\ StaysBusy'
  BY DEF RuntimesInv, OneEach, StaysBusy, Clash
<1>3. EndsItsJob'
  BY DEF RuntimesInv, EndsItsJob, Clash
<1>4. Unreported' = Unreported
  BY DEF Unreported
<1>5. OneNewest'
  BY DEF RuntimesInv, OneNewest
<1>6. ListsAreFresh'
  <2>1. OnRows' = OnRows
    BY DEF OnRows
  <2>2. CASE unseen' = unseen
    <3>1. Agrees(OnRows) => Agrees(OnRows)'
      BY <2>1, <2>2 DEF Agrees
    <3>2. listed' => Unreported' \/ Agrees(OnRows)'
      BY <1>4, <3>1 DEF RuntimesInv, ListsAreFresh
    <3>3. \A i \in lists : Agrees(i.has) => Agrees(i.has)'
      BY <2>2 DEF Agrees
    <3>4. k.has = installed => Agrees(k.has)'
      BY DEF Agrees
    <3>5. k.gen = gen /\ k.has = l.has /\ l.at # "asked" => Unreported' \/ Agrees(k.has)'
      BY <1>4, <3>3 DEF RuntimesInv, ListsAreFresh
    <3>6. \A i \in lists' : i.gen = gen' /\ i.at # "asked" => Agrees(i.has)' \/ Unreported'
      BY <1>4, <3>3, <3>4, <3>5 DEF RuntimesInv, ListsAreFresh
    <3> QED BY <3>2, <3>6 DEF ListsAreFresh
  <2>3. CASE unseen' # unseen
    <3>1. l.gen = gen /\ k.has = installed
      BY <2>3
    <3>2. Agrees(k.has)'
      BY <3>1 DEF Agrees
    <3>3. ~listed' /\ \A i \in lists' : i.gen = gen' => i = k
      BY <3>1 DEF RuntimesInv, OneNewest
    <3> QED BY <3>2, <3>3 DEF ListsAreFresh
  <2> QED BY <2>2, <2>3
<1> QED BY <1>1, <1>2, <1>3, <1>5, <1>6

\* A refresh that returns, with the rows it shows.
LEMMA ReturningIsSafe ==
  ASSUME RuntimesInv, NEW l \in lists, NEW shownRows \in [Backends -> RowRecords],
         \A b \in Backends : shownRows[b].busy = rows[b].busy,
         Runtimes!Returns(l, shownRows)
  PROVE  /\ OneEach' /\ StaysBusy' /\ EndsItsJob' /\ jobs' \subseteq JobRecords
         /\ rows' \in [Backends -> RowRecords] /\ (\A b \in Backends : rows'[b].has = shownRows[b].has)
         /\ prBusy' \in BOOLEAN /\ bundleBusy' \in BOOLEAN /\ uninstallBusy' \in BOOLEAN
         /\ reviewing' \in BOOLEAN /\ cancelBusy' \in BOOLEAN
         /\ Unreported => Unreported'
         /\ lists' = lists \ {l} /\ installed' = installed /\ gen' = gen
<1>1. lists' = lists \ {l} /\ installed' = installed /\ gen' = gen
  BY DEF Runtimes!Returns
<1>2. l \in ListRecords /\ l.for \in JobRecords \cup {Runtimes!NoJob} /\ jobs \subseteq JobRecords
  BY ListFields DEF RuntimesInv, RuntimesTypes
<1>3. CASE l.for = Runtimes!NoJob
  <2>1. /\ rows' = shownRows /\ jobs' = jobs /\ prBusy' = prBusy /\ bundleBusy' = bundleBusy
        /\ uninstallBusy' = uninstallBusy /\ reviewing' = reviewing /\ cancelBusy' = cancelBusy
    BY <1>3 DEF Runtimes!Returns
  <2>2. OneEach'
    BY <2>1 DEF RuntimesInv, OneEach, Clash
  <2>3. StaysBusy'
    BY <1>2, <2>1, JobFields DEF RuntimesInv, StaysBusy
  <2>4. EndsItsJob'
    BY <1>1, <2>1 DEF RuntimesInv, EndsItsJob, Clash
  <2>5. Unreported' = Unreported
    BY <2>1 DEF Unreported
  <2> QED BY <1>1, <1>2, <2>1, <2>2, <2>3, <2>4, <2>5 DEF RuntimesInv, RuntimesTypes
<1>4. CASE l.for # Runtimes!NoJob
  <2> DEFINE j == l.for
             k == [j EXCEPT !.at = "listing"]
  <2>1. j \in JobRecords /\ j.kind \in Mutating /\ j.of[1] \in Backends
    BY <1>2, <1>4, JobFields DEF RuntimesInv, EndsItsJob
  <2>2. PICK i \in jobs : i.kind = j.kind /\ i.of = j.of /\ i.at = "listing"
    BY <1>4 DEF RuntimesInv, EndsItsJob
  <2>3. k = i
    BY <1>2, <2>1, <2>2, Zenon DEF JobRecords
  <2>4. /\ jobs' = jobs \ {k}
        /\ rows' = IF j.kind \in OnRow THEN [shownRows EXCEPT ![j.of[1]].busy = FALSE] ELSE shownRows
        /\ prBusy' = (prBusy /\ j.kind # "pull")
        /\ bundleBusy' = (bundleBusy /\ j.kind # "import")
        /\ uninstallBusy' = (uninstallBusy /\ j.kind # "uninstall")
        /\ cancelBusy' = (cancelBusy /\ j.kind # "pull") /\ reviewing' = reviewing
    BY <1>4 DEF Runtimes!Returns, OnRow
  <2> HIDE DEF k
  <2>5. /\ rows' \in [Backends -> RowRecords] /\ \A b \in Backends : rows'[b].has = shownRows[b].has
        /\ \A b \in Backends : rows[b].busy /\ ~(j.kind \in OnRow /\ j.of[1] = b) => rows'[b].busy
    <3>1. CASE j.kind \in OnRow
      <4>1. rows' = [shownRows EXCEPT ![j.of[1]].busy = FALSE]
        BY <2>4, <3>1
      <4>2. /\ rows' \in [Backends -> RowRecords]
            /\ \A c \in Backends : rows'[c].has = shownRows[c].has
            /\ \A c \in Backends : c # j.of[1] => rows'[c].busy = shownRows[c].busy
        BY <2>1, <4>1, FreeRows
      <4> QED BY <3>1, <4>2
    <3>2. CASE j.kind \notin OnRow
      BY <2>4, <3>2
    <3> QED BY <3>1, <3>2
  <2>6. FreesOnly(i)
    BY <2>1, <2>2, <2>4, <2>5 DEF FreesOnly, OnBundle, Mutating
  <2>7. jobs' = jobs \ {i}
    BY <2>3, <2>4
  <2>8. OneEach' /\ StaysBusy'
    BY <2>6, <2>7, LeavingFrees
  <2>9. EndsItsJob'
    <3>1. ASSUME NEW m \in lists \ {l}, m.for # Runtimes!NoJob
          PROVE  m.for.kind \in Mutating /\ \E n \in jobs' : n.kind = m.for.kind /\ n.of = m.for.of /\ n.at = "listing"
      <4>1. PICK n \in jobs : n.kind = m.for.kind /\ n.of = m.for.of /\ n.at = "listing"
        BY <3>1 DEF RuntimesInv, EndsItsJob
      <4>2. m.for.kind \in Mutating /\ ~Clash(l.for, m.for)
        BY <1>4, <3>1 DEF RuntimesInv, EndsItsJob
      <4>3. n # i
        BY <2>2, <4>1, <4>2 DEF Clash, Mutating, OnRow, OnBundle
      <4> QED BY <2>7, <4>1, <4>2, <4>3
    <3> QED BY <1>1, <3>1 DEF RuntimesInv, EndsItsJob, Clash
  <2>a. Unreported => Unreported'
    BY <2>2, <2>7 DEF Unreported
  <2>b. jobs' \subseteq JobRecords
    BY <1>2, <2>7
  <2>c. /\ prBusy' \in BOOLEAN /\ bundleBusy' \in BOOLEAN /\ uninstallBusy' \in BOOLEAN
        /\ reviewing' \in BOOLEAN /\ cancelBusy' \in BOOLEAN
    BY <2>4 DEF RuntimesInv, RuntimesTypes
  <2> QED BY <1>1, <2>5, <2>8, <2>9, <2>a, <2>b, <2>c
<1> QED BY <1>3, <1>4

-----------------------------------------------------------------------------
\* The steps of the panel.

LEMMA RowGetsBusy ==
  ASSUME NEW b \in Backends, rows \in [Backends -> RowRecords], rows' = [rows EXCEPT ![b].busy = TRUE]
  PROVE  /\ rows' \in [Backends -> RowRecords] /\ rows'[b].busy
         /\ HasSame /\ \A c \in Backends : rows[c].busy => rows'[c].busy
<1>1. rows' \in [Backends -> RowRecords] /\ rows'[b].busy
  BY BusyRows
<1>2. \A c \in Backends : rows'[c].has = rows[c].has
  BY BusyRows
<1>3. \A c \in Backends : c # b => rows'[c].busy = rows[c].busy
  BY BusyRows
<1> QED BY <1>1, <1>2, <1>3 DEF HasSame

LEMMA CallAdds ==
  ASSUME RuntimesInv, NEW kind \in Runtimes!Kinds, NEW r \in Runtimes!Runtimes,
         Runtimes!Call(Runtimes!Job(kind, r))
  PROVE  /\ jobs' = jobs \cup {Runtimes!Job(kind, r)} /\ jobs' \subseteq JobRecords
         /\ lists' = lists /\ gen' = gen /\ listed' = listed /\ cached' = cached
         /\ installed' = installed /\ unseen' = unseen /\ active' = active
BY NewJob DEF RuntimesInv, RuntimesTypes, Runtimes!Call, Runtimes!listing

\* Nobody is under way whom the guards exclude.
LEMMA FreeMeansNoCall ==
  ASSUME RuntimesInv
  PROVE  /\ ~prBusy => \A k \in jobs : k.kind # "pull"
         /\ ~bundleBusy => \A k \in jobs : k.kind \notin OnBundle
         /\ ~uninstallBusy => \A k \in jobs : k.kind # "uninstall"
         /\ \A k \in jobs : k.kind \in OnRow => rows[k.of[1]].busy /\ k.of[1] \in Backends
BY JobFields DEF RuntimesInv, RuntimesTypes, StaysBusy

LEMMA InstallKeepsRuntimesInv == RuntimesInv /\ Runtimes!Install => RuntimesInv'
<1> SUFFICES ASSUME RuntimesInv, Runtimes!Install PROVE RuntimesInv' OBVIOUS
<1>1. PICK r \in Runtimes!Runtimes :
        /\ ~prBusy /\ ~bundleBusy /\ ~rows[r[1]].busy
        /\ rows' = [rows EXCEPT ![r[1]].busy = TRUE] /\ Runtimes!Call(Runtimes!Job("install", r))
        /\ UNCHANGED <<prBusy, bundleBusy, uninstallBusy, reviewing, cancelBusy, preview, Runtimes!probing>>
  BY DEF Runtimes!Install, Runtimes!Busy
<1> DEFINE job == Runtimes!Job("install", r)
<1>2. job \in JobRecords /\ job.kind = "install" /\ job.of = r /\ job.at = "called" /\ r[1] \in Backends
  BY NewJob, JobFields DEF Runtimes!Kinds
<1>3. /\ jobs' = jobs \cup {job} /\ jobs' \subseteq JobRecords
      /\ lists' = lists /\ gen' = gen /\ listed' = listed /\ cached' = cached
      /\ installed' = installed /\ unseen' = unseen /\ active' = active
  BY <1>1, CallAdds DEF Runtimes!Kinds
<1> HIDE DEF job
<1> DEFINE b == r[1]
<1>0. b \in Backends /\ rows \in [Backends -> RowRecords] /\ rows' = [rows EXCEPT ![b].busy = TRUE]
  BY <1>1, <1>2 DEF RuntimesInv, RuntimesTypes
<1> HIDE DEF b
<1>4. /\ rows' \in [Backends -> RowRecords] /\ rows'[b].busy
      /\ HasSame /\ \A c \in Backends : rows[c].busy => rows'[c].busy
  BY <1>0, RowGetsBusy
<1>6. \A k \in jobs : ~Clash(job, k)
  BY <1>1, <1>2, FreeMeansNoCall DEF Clash, OnBundle, OnRow
<1>7. OneEach' /\ StaysBusy' /\ EndsItsJob' /\ OneNewest' /\ ListsAreFresh'
  <2>1. job.of[1] = b
    BY <1>2 DEF b
  <2> QED BY <1>1, <1>2, <1>3, <1>4, <1>6, <2>1, CallingIsSafe DEF OnBundle, OnRow
<1> QED BY <1>1, <1>3, <1>4, <1>7
        DEF RuntimesInv, RuntimesTypes, ProbeUnderway, Runtimes!probing

LEMMA BundleKeepsRuntimesInv == RuntimesInv /\ Runtimes!Bundle => RuntimesInv'
<1> SUFFICES ASSUME RuntimesInv, Runtimes!Bundle PROVE RuntimesInv' OBVIOUS
<1>1. PICK r \in Runtimes!Runtimes, kind \in {"export", "import"} :
        Runtimes!Call(Runtimes!Job(kind, r))
  BY DEF Runtimes!Bundle
<1> DEFINE job == Runtimes!Job(kind, r)
<1>2. job \in JobRecords /\ job.kind = kind /\ job.at = "called" /\ kind \in OnBundle
  BY NewJob DEF Runtimes!Kinds, OnBundle
<1>3. /\ jobs' = jobs \cup {job} /\ jobs' \subseteq JobRecords
      /\ lists' = lists /\ gen' = gen /\ listed' = listed /\ cached' = cached
      /\ installed' = installed /\ unseen' = unseen /\ active' = active
  BY <1>1, CallAdds DEF Runtimes!Kinds
<1> HIDE DEF job
<1>4. /\ ~bundleBusy /\ bundleBusy' = TRUE /\ rows' = rows /\ prBusy' = prBusy
      /\ uninstallBusy' = uninstallBusy
      /\ UNCHANGED <<reviewing, cancelBusy, preview, Runtimes!probing>>
  BY DEF Runtimes!Bundle, Runtimes!runtimeBusy
<1>5. \A k \in jobs : ~Clash(job, k)
  BY <1>2, <1>4, FreeMeansNoCall DEF Clash, OnBundle, OnRow
<1>6. OneEach' /\ StaysBusy' /\ EndsItsJob' /\ OneNewest' /\ ListsAreFresh'
  BY <1>2, <1>3, <1>4, <1>5, CallingIsSafe DEF HasSame, OnBundle, OnRow
<1> QED BY <1>3, <1>4, <1>6 DEF RuntimesInv, RuntimesTypes, ProbeUnderway, Runtimes!probing

LEMMA SelectKeepsRuntimesInv == RuntimesInv /\ Runtimes!Select => RuntimesInv'
<1> SUFFICES ASSUME RuntimesInv, Runtimes!Select PROVE RuntimesInv' OBVIOUS
<1>1. PICK r \in Runtimes!Runtimes : Runtimes!Call(Runtimes!Job("select", r))
  BY DEF Runtimes!Select
<1> DEFINE job == Runtimes!Job("select", r)
<1>2. job \in JobRecords /\ job.kind = "select" /\ job.at = "called"
  BY NewJob DEF Runtimes!Kinds
<1>3. /\ jobs' = jobs \cup {job} /\ jobs' \subseteq JobRecords
      /\ lists' = lists /\ gen' = gen /\ listed' = listed /\ cached' = cached
      /\ installed' = installed /\ unseen' = unseen /\ active' = active
  BY <1>1, CallAdds DEF Runtimes!Kinds
<1> HIDE DEF job
<1>4. UNCHANGED <<rows, prBusy, bundleBusy, uninstallBusy, reviewing, cancelBusy, preview, Runtimes!probing>>
  BY DEF Runtimes!Select, Runtimes!front
<1>5. \A k \in jobs : ~Clash(job, k)
  BY <1>2 DEF Clash, OnBundle, OnRow
<1>6. OneEach' /\ StaysBusy' /\ EndsItsJob' /\ OneNewest' /\ ListsAreFresh'
  BY <1>2, <1>3, <1>4, <1>5, CallingIsSafe DEF HasSame, OnBundle, OnRow
<1> QED BY <1>3, <1>4, <1>6 DEF RuntimesInv, RuntimesTypes, ProbeUnderway, Runtimes!probing

LEMMA UninstallKeepsRuntimesInv == RuntimesInv /\ Runtimes!Uninstall => RuntimesInv'
<1> SUFFICES ASSUME RuntimesInv, Runtimes!Uninstall PROVE RuntimesInv' OBVIOUS
<1>1. PICK r \in Runtimes!Runtimes : Runtimes!Call(Runtimes!Job("uninstall", r))
  BY DEF Runtimes!Uninstall
<1> DEFINE job == Runtimes!Job("uninstall", r)
<1>2. job \in JobRecords /\ job.kind = "uninstall" /\ job.at = "called"
  BY NewJob DEF Runtimes!Kinds
<1>3. /\ jobs' = jobs \cup {job} /\ jobs' \subseteq JobRecords
      /\ lists' = lists /\ gen' = gen /\ listed' = listed /\ cached' = cached
      /\ installed' = installed /\ unseen' = unseen /\ active' = active
  BY <1>1, CallAdds DEF Runtimes!Kinds
<1> HIDE DEF job
<1>4. /\ ~uninstallBusy /\ uninstallBusy' = TRUE /\ rows' = rows /\ prBusy' = prBusy
      /\ bundleBusy' = bundleBusy
      /\ UNCHANGED <<reviewing, cancelBusy, preview, Runtimes!probing>>
  BY DEF Runtimes!Uninstall
<1>5. \A k \in jobs : ~Clash(job, k)
  BY <1>2, <1>4, FreeMeansNoCall DEF Clash, OnBundle, OnRow
<1>6. OneEach' /\ StaysBusy' /\ EndsItsJob' /\ OneNewest' /\ ListsAreFresh'
  BY <1>2, <1>3, <1>4, <1>5, CallingIsSafe DEF HasSame, OnBundle, OnRow
<1> QED BY <1>3, <1>4, <1>6 DEF RuntimesInv, RuntimesTypes, ProbeUnderway, Runtimes!probing

LEMMA ReviewKeepsRuntimesInv == RuntimesInv /\ Runtimes!Review => RuntimesInv'
<1> SUFFICES ASSUME RuntimesInv, Runtimes!Review PROVE RuntimesInv' OBVIOUS
<1>1. PICK r \in Runtimes!Runtimes : Runtimes!Call(Runtimes!Job("review", r))
  BY DEF Runtimes!Review
<1> DEFINE job == Runtimes!Job("review", r)
<1>2. job \in JobRecords /\ job.kind = "review" /\ job.at = "called"
  BY NewJob DEF Runtimes!Kinds
<1>3. /\ jobs' = jobs \cup {job} /\ jobs' \subseteq JobRecords
      /\ lists' = lists /\ gen' = gen /\ listed' = listed /\ cached' = cached
      /\ installed' = installed /\ unseen' = unseen /\ active' = active
  BY <1>1, CallAdds DEF Runtimes!Kinds
<1> HIDE DEF job
<1>4. /\ reviewing' = TRUE
      /\ UNCHANGED <<rows, prBusy, bundleBusy, uninstallBusy, cancelBusy, preview, Runtimes!probing>>
  BY DEF Runtimes!Review
<1>5. \A k \in jobs : ~Clash(job, k)
  BY <1>2 DEF Clash, OnBundle, OnRow
<1>6. OneEach' /\ StaysBusy' /\ EndsItsJob' /\ OneNewest' /\ ListsAreFresh'
  BY <1>2, <1>3, <1>4, <1>5, CallingIsSafe DEF HasSame, OnBundle, OnRow
<1> QED BY <1>3, <1>4, <1>6 DEF RuntimesInv, RuntimesTypes, ProbeUnderway, Runtimes!probing

LEMMA InstallPullRequestKeepsRuntimesInv == RuntimesInv /\ Runtimes!InstallPullRequest => RuntimesInv'
<1> SUFFICES ASSUME RuntimesInv, Runtimes!InstallPullRequest PROVE RuntimesInv' OBVIOUS
<1>1. preview \in Runtimes!Runtimes /\ preview[1] \in Backends /\ preview' = Runtimes!NoRuntime
  BY DEF RuntimesInv, RuntimesTypes, Runtimes!InstallPullRequest, Runtimes!Runtimes
<1>2. UNCHANGED <<bundleBusy, uninstallBusy, reviewing, cancelBusy, Runtimes!probing>>
  BY DEF Runtimes!InstallPullRequest
<1>3. /\ ~Runtimes!runtimeBusy /\ prBusy' = TRUE
      /\ rows' = [rows EXCEPT ![preview[1]].busy = TRUE] /\ Runtimes!Call(Runtimes!Job("pull", preview))
  BY DEF Runtimes!InstallPullRequest, Runtimes!Busy
<1>4. RuntimesInv'
  <2> DEFINE job == Runtimes!Job("pull", preview)
  <2>1. job \in JobRecords /\ job.kind = "pull" /\ job.of = preview /\ job.at = "called"
    BY <1>1, NewJob DEF Runtimes!Kinds
  <2>2. /\ jobs' = jobs \cup {job} /\ jobs' \subseteq JobRecords
        /\ lists' = lists /\ gen' = gen /\ listed' = listed /\ cached' = cached
        /\ installed' = installed /\ unseen' = unseen /\ active' = active
    BY <1>1, <1>3, CallAdds DEF Runtimes!Kinds
  <2> HIDE DEF job
  <2> DEFINE b == preview[1]
  <2>0. b \in Backends /\ rows \in [Backends -> RowRecords] /\ rows' = [rows EXCEPT ![b].busy = TRUE]
    BY <1>1, <1>3 DEF RuntimesInv, RuntimesTypes
  <2> HIDE DEF b
  <2>3. /\ rows' \in [Backends -> RowRecords] /\ rows'[b].busy
        /\ HasSame /\ \A c \in Backends : rows[c].busy => rows'[c].busy
    BY <2>0, RowGetsBusy
  <2>5. ~prBusy /\ ~bundleBusy /\ \A c \in Backends : ~rows[c].busy
    BY <1>3 DEF Runtimes!runtimeBusy, Runtimes!RowBusy
  <2>6. \A k \in jobs : ~Clash(job, k)
    BY <2>1, <2>5, FreeMeansNoCall DEF Clash, OnBundle, OnRow
  <2>7. OneEach' /\ StaysBusy' /\ EndsItsJob' /\ OneNewest' /\ ListsAreFresh'
    <3>1. job.of[1] = b
      BY <2>1 DEF b
    <3> QED BY <1>2, <1>3, <2>1, <2>2, <2>3, <2>6, <3>1, CallingIsSafe DEF OnBundle, OnRow
  <2> QED BY <1>1, <1>2, <1>3, <2>2, <2>3, <2>7
          DEF RuntimesInv, RuntimesTypes, ProbeUnderway, Runtimes!probing
<1> QED BY <1>4

LEMMA ClosePreviewKeepsRuntimesInv == RuntimesInv /\ Runtimes!ClosePreview => RuntimesInv'
<1> SUFFICES ASSUME RuntimesInv, Runtimes!ClosePreview PROVE RuntimesInv' OBVIOUS
<1>1. Untouched
  BY DEF Untouched, Runtimes!probing, Runtimes!listing, Runtimes!front, Runtimes!ClosePreview
<1>2. OneEach' /\ StaysBusy' /\ EndsItsJob' /\ OneNewest' /\ ListsAreFresh'
  BY <1>1, UntouchedIsSafe
<1>3. ProbeUnderway'
  BY DEF RuntimesInv, ProbeUnderway, Runtimes!probing, Runtimes!ClosePreview
<1>4. RuntimesTypes'
  BY DEF RuntimesInv, RuntimesTypes, Runtimes!probing, Runtimes!listing, Runtimes!front, Runtimes!ClosePreview
<1> QED BY <1>2, <1>3, <1>4 DEF RuntimesInv

LEMMA CancelKeepsRuntimesInv == RuntimesInv /\ Runtimes!Cancel => RuntimesInv'
<1> SUFFICES ASSUME RuntimesInv, Runtimes!Cancel PROVE RuntimesInv' OBVIOUS
<1>1. Untouched
  BY DEF Untouched, Runtimes!probing, Runtimes!listing, Runtimes!front, Runtimes!Cancel
<1>2. OneEach' /\ StaysBusy' /\ EndsItsJob' /\ OneNewest' /\ ListsAreFresh'
  BY <1>1, UntouchedIsSafe
<1>3. ProbeUnderway'
  BY DEF RuntimesInv, ProbeUnderway, Runtimes!probing, Runtimes!Cancel
<1>4. RuntimesTypes'
  BY DEF RuntimesInv, RuntimesTypes, Runtimes!probing, Runtimes!listing, Runtimes!front, Runtimes!Cancel
<1> QED BY <1>2, <1>3, <1>4 DEF RuntimesInv

LEMMA CancelReturnsKeepsRuntimesInv == RuntimesInv /\ Runtimes!CancelReturns => RuntimesInv'
<1> SUFFICES ASSUME RuntimesInv, Runtimes!CancelReturns PROVE RuntimesInv' OBVIOUS
<1>1. Untouched
  BY DEF Untouched, Runtimes!probing, Runtimes!listing, Runtimes!front, Runtimes!CancelReturns
<1>2. OneEach' /\ StaysBusy' /\ EndsItsJob' /\ OneNewest' /\ ListsAreFresh'
  BY <1>1, UntouchedIsSafe
<1>3. ProbeUnderway'
  BY DEF RuntimesInv, ProbeUnderway, Runtimes!probing, Runtimes!CancelReturns
<1>4. RuntimesTypes'
  BY DEF RuntimesInv, RuntimesTypes, Runtimes!probing, Runtimes!listing, Runtimes!front, Runtimes!CancelReturns
<1> QED BY <1>2, <1>3, <1>4 DEF RuntimesInv

LEMMA CacheExpiresKeepsRuntimesInv == RuntimesInv /\ Runtimes!CacheExpires => RuntimesInv'
<1> SUFFICES ASSUME RuntimesInv, Runtimes!CacheExpires PROVE RuntimesInv' OBVIOUS
<1>1. Untouched
  BY DEF Untouched, Runtimes!probing, Runtimes!listing, Runtimes!front, Runtimes!CacheExpires
<1>2. OneEach' /\ StaysBusy' /\ EndsItsJob' /\ OneNewest' /\ ListsAreFresh'
  BY <1>1, UntouchedIsSafe
<1>3. ProbeUnderway'
  BY DEF RuntimesInv, ProbeUnderway, Runtimes!probing, Runtimes!CacheExpires
<1>4. RuntimesTypes'
  BY DEF RuntimesInv, RuntimesTypes, Runtimes!probing, Runtimes!listing, Runtimes!front, Runtimes!CacheExpires
<1> QED BY <1>2, <1>3, <1>4 DEF RuntimesInv

LEMMA DoesKeepsRuntimesInv == RuntimesInv /\ Runtimes!Does => RuntimesInv'
<1> SUFFICES ASSUME RuntimesInv, Runtimes!Does PROVE RuntimesInv' OBVIOUS
<1>1. PICK j \in jobs :
        /\ j.at \in {"called", "moving"} /\ jobs' = (jobs \ {j}) \cup {[j EXCEPT !.at = "done"]}
        /\ installed' = CASE j.kind \in {"install", "pull", "import"} -> installed \cup {j.of}
                          [] j.kind = "uninstall" -> installed \ {j.of}
                          [] OTHER -> installed
        /\ active' = IF j.kind = "select" /\ j.of \in installed THEN j.of ELSE active
  BY DEF Runtimes!Does
<1> DEFINE k == [j EXCEPT !.at = "done"]
<1>2. j \in JobRecords /\ j.of \in Runtimes!Runtimes
  BY JobFields DEF RuntimesInv, RuntimesTypes
<1>3. k \in JobRecords /\ k.kind = j.kind /\ k.of = j.of /\ k.at = "done"
  BY <1>2, JobMoves DEF JobStates
<1>4. jobs' = (jobs \ {j}) \cup {k}
  BY <1>1
<1> HIDE DEF k
<1>5. UNCHANGED <<rows, prBusy, bundleBusy, uninstallBusy, reviewing, cancelBusy, preview, lists, gen,
                  cached, listed, unseen, probes, probeGen, probeBusy, capabilities>>
  BY DEF Runtimes!Does, Runtimes!front, Runtimes!listing, Runtimes!probing
<1>6. OneEach' /\ StaysBusy'
  BY <1>3, <1>4, <1>5, MovingIsSafe
<1>7. EndsItsJob'
  BY <1>1, <1>4, <1>5 DEF RuntimesInv, EndsItsJob, Clash
<1>8. ListsAreFresh' /\ OneNewest'
  <2>1. CASE j.kind \in Mutating
    <3>1. Unreported'
      BY <1>3, <1>4, <2>1 DEF Unreported
    <3> QED BY <1>5, <3>1 DEF RuntimesInv, ListsAreFresh, OneNewest
  <2>2. CASE j.kind \notin Mutating
    <3>1. installed' = installed
      BY <1>1, <2>2 DEF Mutating
    <3>2. Unreported => Unreported'
      BY <1>1, <1>4 DEF Unreported
    <3>3. HasSame
      BY <1>5 DEF HasSame
    <3> QED BY <1>5, <3>1, <3>2, <3>3, StaysFresh DEF RuntimesInv
  <2> QED BY <2>1, <2>2
<1>9. installed' \subseteq Runtimes!Runtimes
  BY <1>1, <1>2 DEF RuntimesInv, RuntimesTypes
<1> QED BY <1>1, <1>2, <1>3, <1>4, <1>5, <1>6, <1>7, <1>8, <1>9 DEF RuntimesInv, RuntimesTypes, ProbeUnderway

LEMMA SucceedsKeepsRuntimesInv == RuntimesInv /\ Runtimes!Succeeds => RuntimesInv'
<1> SUFFICES ASSUME RuntimesInv, Runtimes!Succeeds PROVE RuntimesInv' OBVIOUS
<1>1. PICK j \in jobs :
        /\ j.at = "done"
        /\ \/ /\ j.kind \in {"install", "pull", "import", "uninstall"}
              /\ jobs' = (jobs \ {j}) \cup {[j EXCEPT !.at = "listing"]}
              /\ Runtimes!Lists(j.kind = "import", j) /\ UNCHANGED Runtimes!front
           \/ /\ j.kind \in {"export", "select", "review"} /\ jobs' = jobs \ {j}
              /\ Runtimes!Over(j) /\ preview' = IF j.kind = "review" THEN j.of ELSE preview
              /\ UNCHANGED Runtimes!listing
  BY DEF Runtimes!Succeeds
<1>2. j \in JobRecords /\ j.of \in Runtimes!Runtimes /\ RuntimesTypes
  BY JobFields DEF RuntimesInv, RuntimesTypes
<1>3. UNCHANGED <<installed, active, probes, probeGen, probeBusy, capabilities>>
  BY DEF Runtimes!Succeeds, Runtimes!probing
<1>4. CASE /\ j.kind \in {"install", "pull", "import", "uninstall"}
           /\ jobs' = (jobs \ {j}) \cup {[j EXCEPT !.at = "listing"]}
           /\ Runtimes!Lists(j.kind = "import", j) /\ UNCHANGED Runtimes!front
  <2> DEFINE k == [j EXCEPT !.at = "listing"]
             l == Runtimes!Refresh(j.kind = "import", gen + 1, j)
  <2>1. k \in JobRecords /\ k.kind = j.kind /\ k.of = j.of /\ k.at = "listing"
    BY <1>2, JobMoves DEF JobStates
  <2>2. (j.kind = "import") \in BOOLEAN /\ gen + 1 \in Nat
    BY <1>2 DEF RuntimesTypes
  <2>3. l \in ListRecords /\ l.gen = gen + 1 /\ l.at = "asked" /\ l.for = j
    <3> DEFINE forced == (j.kind = "import")
    <3>1. forced \in BOOLEAN /\ l = Runtimes!Refresh(forced, gen + 1, j)
      BY <2>2
    <3> HIDE DEF forced, l
    <3> QED BY <1>2, <2>2, <3>1, NewListIs
  <2>4. jobs' = (jobs \ {j}) \cup {k} /\ lists' = lists \cup {l} /\ gen' = gen + 1 /\ listed' = FALSE
        /\ cached' = cached /\ unseen' = unseen
    BY <1>4 DEF Runtimes!Lists
  <2> HIDE DEF k, l
  <2>5. UNCHANGED <<rows, prBusy, bundleBusy, uninstallBusy, reviewing, cancelBusy, preview>>
    BY <1>4 DEF Runtimes!front
  <2>6. OneEach' /\ StaysBusy'
    BY <2>1, <2>4, <2>5, MovingIsSafe
  <2>7. /\ OneNewest' /\ ListsAreFresh' /\ lists' \subseteq ListRecords /\ gen' \in Nat
        /\ \A i \in lists' : i.gen <= gen'
    BY <2>3, <2>4, AskingIsSafe
  <2>8. EndsItsJob'
    <3>1. j.kind \in Mutating /\ Clash(j, j)
      BY <1>4 DEF Mutating, Clash, OnRow, OnBundle
    <3>2. \A i \in lists : i.for # Runtimes!NoJob =>
            /\ i.for.kind \in Mutating
            /\ \E n \in jobs' : n.kind = i.for.kind /\ n.of = i.for.of /\ n.at = "listing"
      BY <1>1, <2>4 DEF RuntimesInv, EndsItsJob
    <3>3. \A i \in lists : i.for # Runtimes!NoJob => ~Clash(i.for, j) /\ ~Clash(j, i.for)
      <4> SUFFICES ASSUME NEW i \in lists, i.for # Runtimes!NoJob
                   PROVE  ~Clash(i.for, j) /\ ~Clash(j, i.for)
        OBVIOUS
      <4>1. PICK n \in jobs : n.kind = i.for.kind /\ n.of = i.for.of /\ n.at = "listing"
        BY DEF RuntimesInv, EndsItsJob
      <4>2. n # j
        BY <1>1, <4>1
      <4>3. ~Clash(n, j) /\ ~Clash(j, n)
        BY <4>2 DEF RuntimesInv, OneEach
      <4> QED BY <4>1, <4>3 DEF Clash
    <3>4. \E n \in jobs' : n.kind = j.kind /\ n.of = j.of /\ n.at = "listing"
      BY <2>1, <2>4
    <3> QED BY <2>3, <2>4, <3>1, <3>2, <3>3, <3>4 DEF RuntimesInv, EndsItsJob
  <2> QED BY <1>2, <1>3, <2>1, <2>4, <2>5, <2>6, <2>7, <2>8 DEF RuntimesInv, RuntimesTypes, ProbeUnderway
<1>5. CASE /\ j.kind \in {"export", "select", "review"} /\ jobs' = jobs \ {j}
           /\ Runtimes!Over(j) /\ preview' = IF j.kind = "review" THEN j.of ELSE preview
           /\ UNCHANGED Runtimes!listing
  <2>1. UNCHANGED <<lists, gen, cached, listed, unseen>>
    BY <1>5 DEF Runtimes!listing
  <2>2. OneEach' /\ StaysBusy' /\ EndsItsJob' /\ OneNewest' /\ ListsAreFresh'
    BY <1>1, <1>3, <1>5, <2>1, EndingIsSafe DEF Mutating
  <2> QED BY <1>2, <1>3, <1>5, <2>1, <2>2, OverFrees DEF RuntimesInv, RuntimesTypes, ProbeUnderway
<1> QED BY <1>1, <1>4, <1>5

\* A job that is moving something knows of it.
LEMMA LosingIsSafe ==
  ASSUME RuntimesInv, NEW r \in Runtimes!Runtimes, installed' \in {installed \cup {r}, installed \ {r}},
         unseen' = unseen \cup {r}, HasSame, lists' = lists, gen' = gen, listed' = listed,
         Unreported => Unreported'
  PROVE  ListsAreFresh' /\ OneNewest' /\ installed' \subseteq Runtimes!Runtimes /\ unseen' \subseteq Runtimes!Runtimes
<1>1. OnRows' = OnRows
  BY HasSameShows
<1>2. \A x \in Runtimes!Runtimes \ unseen' : x \notin unseen /\ (x \in installed' <=> x \in installed)
  OBVIOUS
<1>3. Agrees(OnRows) => Agrees(OnRows)'
  BY <1>1, <1>2 DEF Agrees
<1>4. \A l \in lists : Agrees(l.has) => Agrees(l.has)'
  BY <1>2 DEF Agrees
<1>5. ListsAreFresh'
  BY <1>3, <1>4 DEF RuntimesInv, ListsAreFresh
<1> QED BY <1>5 DEF RuntimesInv, RuntimesTypes, OneNewest

LEMMA MovesKeepsRuntimesInv == RuntimesInv /\ Runtimes!Moves => RuntimesInv'
<1> SUFFICES ASSUME RuntimesInv, Runtimes!Moves PROVE RuntimesInv' OBVIOUS
<1>1. PICK j \in jobs :
        /\ j.at = "called" /\ jobs' = (jobs \ {j}) \cup {[j EXCEPT !.at = "moving"]}
        /\ installed' = installed \ {j.of} /\ unseen' = unseen \cup {j.of}
  BY DEF Runtimes!Moves
<1> DEFINE k == [j EXCEPT !.at = "moving"]
<1>2. j \in JobRecords /\ j.of \in Runtimes!Runtimes
  BY JobFields DEF RuntimesInv, RuntimesTypes
<1>3. k \in JobRecords /\ k.kind = j.kind /\ k.of = j.of /\ k.at = "moving"
  BY <1>2, JobMoves DEF JobStates
<1>4. jobs' = (jobs \ {j}) \cup {k}
  BY <1>1
<1> HIDE DEF k
<1>5. UNCHANGED <<active, rows, prBusy, bundleBusy, uninstallBusy, reviewing, cancelBusy, preview, lists, gen,
                  cached, listed, probes, probeGen, probeBusy, capabilities>>
  BY DEF Runtimes!Moves, Runtimes!front, Runtimes!probing
<1>6. OneEach' /\ StaysBusy'
  BY <1>3, <1>4, <1>5, MovingIsSafe
<1>7. EndsItsJob'
  BY <1>1, <1>4, <1>5 DEF RuntimesInv, EndsItsJob, Clash
<1>8. HasSame /\ (Unreported => Unreported')
  BY <1>1, <1>4, <1>5 DEF HasSame, Unreported
<1>9. ListsAreFresh' /\ OneNewest' /\ installed' \subseteq Runtimes!Runtimes /\ unseen' \subseteq Runtimes!Runtimes
  BY <1>1, <1>2, <1>5, <1>8, LosingIsSafe
<1> QED BY <1>2, <1>3, <1>4, <1>5, <1>6, <1>7, <1>9 DEF RuntimesInv, RuntimesTypes, ProbeUnderway

LEMMA FailsKeepsRuntimesInv == RuntimesInv /\ Runtimes!Fails => RuntimesInv'
<1> SUFFICES ASSUME RuntimesInv, Runtimes!Fails PROVE RuntimesInv' OBVIOUS
<1>1. PICK j \in jobs :
        /\ j.at \in {"called", "moving"} /\ jobs' = jobs \ {j} /\ Runtimes!Over(j)
        /\ \/ UNCHANGED <<installed, unseen>>
           \/ installed' = installed \cup {j.of} /\ unseen' = unseen \cup {j.of}
  BY DEF Runtimes!Fails
<1>2. j \in JobRecords /\ j.of \in Runtimes!Runtimes /\ RuntimesTypes
  BY JobFields DEF RuntimesInv, RuntimesTypes
<1>3. UNCHANGED <<active, preview, lists, gen, cached, listed, probes, probeGen, probeBusy, capabilities>>
  BY DEF Runtimes!Fails, Runtimes!probing
<1>4. OneEach' /\ StaysBusy'
  BY <1>1, <1>2, OverFrees, LeavingFrees
<1>5. EndsItsJob'
  BY <1>1, <1>3 DEF RuntimesInv, EndsItsJob, Clash
<1>6. HasSame /\ (Unreported => Unreported')
  BY <1>1, <1>2, OverFrees DEF Unreported
<1>7. ListsAreFresh' /\ OneNewest' /\ installed' \subseteq Runtimes!Runtimes /\ unseen' \subseteq Runtimes!Runtimes
  <2>1. CASE UNCHANGED <<installed, unseen>>
    BY <1>3, <1>6, <2>1, StaysFresh DEF RuntimesInv, RuntimesTypes
  <2>2. CASE installed' = installed \cup {j.of} /\ unseen' = unseen \cup {j.of}
    BY <1>2, <1>3, <1>6, <2>2, LosingIsSafe
  <2> QED BY <1>1, <2>1, <2>2
<1> QED BY <1>1, <1>2, <1>3, <1>4, <1>5, <1>7, OverFrees DEF RuntimesInv, RuntimesTypes, ProbeUnderway

LEMMA VisitKeepsRuntimesInv == RuntimesInv /\ Runtimes!Visit => RuntimesInv'
<1> SUFFICES ASSUME RuntimesInv, Runtimes!Visit PROVE RuntimesInv' OBVIOUS
<1> DEFINE l == Runtimes!Refresh(FALSE, gen + 1, Runtimes!NoJob)
<1>1. l \in ListRecords /\ l.gen = gen + 1 /\ l.at = "asked" /\ l.for = Runtimes!NoJob
  <2>1. gen + 1 \in Nat
    BY DEF RuntimesInv, RuntimesTypes
  <2> QED BY <2>1, NewList
<1>2. lists' = lists \cup {l} /\ gen' = gen + 1 /\ listed' = FALSE /\ cached' = cached /\ unseen' = unseen
  BY DEF Runtimes!Visit, Runtimes!Lists
<1> HIDE DEF l
<1>3. UNCHANGED <<installed, active, jobs, rows, prBusy, bundleBusy, uninstallBusy, reviewing, cancelBusy,
                  preview, probes, probeGen, probeBusy, capabilities>>
  BY DEF Runtimes!Visit, Runtimes!front, Runtimes!probing
<1>4. OneNewest' /\ ListsAreFresh' /\ lists' \subseteq ListRecords /\ gen' \in Nat /\ \A i \in lists' : i.gen <= gen'
  BY <1>1, <1>2, AskingIsSafe
<1>5. OneEach' /\ StaysBusy'
  BY <1>3 DEF RuntimesInv, OneEach, StaysBusy, Clash
<1>6. EndsItsJob'
  BY <1>1, <1>2, <1>3 DEF RuntimesInv, EndsItsJob, Clash
<1> QED BY <1>2, <1>3, <1>4, <1>5, <1>6 DEF RuntimesInv, RuntimesTypes, ProbeUnderway

LEMMA ListReadsKeepsRuntimesInv == RuntimesInv /\ Runtimes!ListReads => RuntimesInv'
<1> SUFFICES ASSUME RuntimesInv, Runtimes!ListReads PROVE RuntimesInv' OBVIOUS
<1>1. PICK l \in lists :
        /\ l.at = "asked" /\ lists' = (lists \ {l}) \cup {[l EXCEPT !.at = "read", !.has = installed]}
        /\ unseen' = IF l.gen = gen THEN {} ELSE unseen
  BY DEF Runtimes!ListReads
<1> DEFINE k == [l EXCEPT !.at = "read", !.has = installed]
<1>2. l \in ListRecords /\ installed \in SUBSET Runtimes!Runtimes
  BY DEF RuntimesInv, RuntimesTypes
<1>3. k \in ListRecords /\ k.gen = l.gen /\ k.for = l.for /\ k.has = installed
  BY <1>2, Zenon DEF ListRecords
<1>4. lists' = (lists \ {l}) \cup {k}
  BY <1>1
<1> HIDE DEF k
<1>5. UNCHANGED <<installed, active, jobs, rows, prBusy, bundleBusy, uninstallBusy, reviewing, cancelBusy,
                  preview, gen, cached, listed, probes, probeGen, probeBusy, capabilities>>
  BY DEF Runtimes!ListReads, Runtimes!front, Runtimes!probing
<1>6. /\ OneEach' /\ StaysBusy' /\ EndsItsJob' /\ OneNewest' /\ ListsAreFresh' /\ lists' \subseteq ListRecords
      /\ \A i \in lists' : i.gen <= gen'
  BY <1>1, <1>3, <1>4, <1>5, ListMovingIsSafe
<1>8. unseen' \subseteq Runtimes!Runtimes
  BY <1>1 DEF RuntimesInv, RuntimesTypes
<1> QED BY <1>5, <1>6, <1>8 DEF RuntimesInv, RuntimesTypes, ProbeUnderway

LEMMA LatestAskedKeepsRuntimesInv == RuntimesInv /\ Runtimes!LatestAsked => RuntimesInv'
<1> SUFFICES ASSUME RuntimesInv, Runtimes!LatestAsked PROVE RuntimesInv' OBVIOUS
<1>1. PICK l \in lists :
        /\ l.at = "read" /\ lists' = (lists \ {l}) \cup {[l EXCEPT !.at = "looking"]}
        /\ unseen' = unseen
  BY DEF Runtimes!LatestAsked
<1> DEFINE k == [l EXCEPT !.at = "looking"]
<1>2. l \in ListRecords /\ installed \in SUBSET Runtimes!Runtimes
  BY DEF RuntimesInv, RuntimesTypes
<1>3. k \in ListRecords /\ k.gen = l.gen /\ k.for = l.for /\ k.has = l.has
  BY <1>2, ListMoves
<1>4. lists' = (lists \ {l}) \cup {k}
  BY <1>1
<1> HIDE DEF k
<1>5. UNCHANGED <<installed, active, jobs, rows, prBusy, bundleBusy, uninstallBusy, reviewing, cancelBusy,
                  preview, gen, cached, listed, probes, probeGen, probeBusy, capabilities>>
  BY DEF Runtimes!LatestAsked, Runtimes!front, Runtimes!probing
<1>6. /\ OneEach' /\ StaysBusy' /\ EndsItsJob' /\ OneNewest' /\ ListsAreFresh' /\ lists' \subseteq ListRecords
      /\ \A i \in lists' : i.gen <= gen'
  BY <1>1, <1>3, <1>4, <1>5, ListMovingIsSafe
<1>8. unseen' \subseteq Runtimes!Runtimes
  BY <1>1 DEF RuntimesInv, RuntimesTypes
<1> QED BY <1>5, <1>6, <1>8 DEF RuntimesInv, RuntimesTypes, ProbeUnderway

\* A refresh that shows nothing: it was overtaken, or has failed.
LEMMA ReturnsUnshown ==
  ASSUME RuntimesInv, NEW l \in lists, Runtimes!Returns(l, rows), UNCHANGED <<cached, listed, unseen>>
  PROVE  RuntimesInv'
<1>1. rows \in [Backends -> RowRecords]
  BY DEF RuntimesInv, RuntimesTypes
<1>2. /\ OneEach' /\ StaysBusy' /\ EndsItsJob' /\ jobs' \subseteq JobRecords
      /\ rows' \in [Backends -> RowRecords] /\ (\A b \in Backends : rows'[b].has = rows[b].has)
      /\ prBusy' \in BOOLEAN /\ bundleBusy' \in BOOLEAN /\ uninstallBusy' \in BOOLEAN
      /\ reviewing' \in BOOLEAN /\ cancelBusy' \in BOOLEAN
      /\ Unreported => Unreported'
      /\ lists' = lists \ {l} /\ installed' = installed /\ gen' = gen
  BY <1>1, ReturningIsSafe
<1>3. UNCHANGED <<active, preview, probes, probeGen, probeBusy, capabilities>>
  BY DEF Runtimes!Returns, Runtimes!probing
<1>4. OneNewest' /\ ListsAreFresh'
  <2>1. OnRows' = OnRows
    BY <1>2, HasSameShows DEF HasSame
  <2>2. Agrees(OnRows) => Agrees(OnRows)'
    BY <1>2, <2>1 DEF Agrees
  <2>3. \A i \in lists : Agrees(i.has) => Agrees(i.has)'
    BY <1>2 DEF Agrees
  <2>4. ListsAreFresh'
    BY <1>2, <2>2, <2>3 DEF RuntimesInv, ListsAreFresh
  <2> QED BY <1>2, <2>4 DEF RuntimesInv, OneNewest
<1> QED BY <1>2, <1>3, <1>4 DEF RuntimesInv, RuntimesTypes, ProbeUnderway

\* The newest refresh shows what it has read.
LEMMA ReturnsShown ==
  ASSUME RuntimesInv, NEW l \in lists, Runtimes!Returns(l, Runtimes!Shown(l.has)),
         l.gen = gen, l.at # "asked", listed' = TRUE, cached' \in BOOLEAN, unseen' = unseen
  PROVE  RuntimesInv'
<1> DEFINE s == Runtimes!Shown(l.has)
<1>1. RuntimesTypes /\ l.has \in SUBSET Runtimes!Runtimes
  BY ListFields DEF RuntimesInv, RuntimesTypes
<1>2. /\ s \in [Backends -> RowRecords]
      /\ \A b \in Backends : s[b].has = {r[2] : r \in {x \in l.has : x[1] = b}} /\ s[b].busy = rows[b].busy
  BY <1>1, ShownRows
<1>3. Runtimes!Returns(l, s)
  OBVIOUS
<1> HIDE DEF s
<1>4. /\ OneEach' /\ StaysBusy' /\ EndsItsJob' /\ jobs' \subseteq JobRecords
      /\ rows' \in [Backends -> RowRecords] /\ (\A b \in Backends : rows'[b].has = s[b].has)
      /\ prBusy' \in BOOLEAN /\ bundleBusy' \in BOOLEAN /\ uninstallBusy' \in BOOLEAN
      /\ reviewing' \in BOOLEAN /\ cancelBusy' \in BOOLEAN
      /\ Unreported => Unreported'
      /\ lists' = lists \ {l} /\ installed' = installed /\ gen' = gen
  BY <1>2, <1>3, ReturningIsSafe
<1>5. UNCHANGED <<active, preview, probes, probeGen, probeBusy, capabilities>>
  BY DEF Runtimes!Returns, Runtimes!probing
<1>6. Agrees(l.has) \/ Unreported
  BY DEF RuntimesInv, ListsAreFresh
<1>7. OneNewest' /\ ListsAreFresh'
  <2>1. \A i \in lists' : i.gen # gen'
    BY <1>4 DEF RuntimesInv, OneNewest
  <2>2. \A r \in Runtimes!Runtimes : r \in OnRows' <=> r \in l.has
    <3> SUFFICES ASSUME NEW r \in Runtimes!Runtimes PROVE r \in OnRows' <=> r \in l.has
      OBVIOUS
    <3>1. r[1] \in Backends /\ r = <<r[1], r[2]>>
      BY RowsShow
    <3>2. rows'[r[1]].has = {x[2] : x \in {y \in l.has : y[1] = r[1]}}
      BY <1>2, <1>4, <3>1
    <3>3. \A x \in l.has : x = <<x[1], x[2]>>
      BY <1>1, RowsShow
    <3>4. r[2] \in rows'[r[1]].has <=> r \in l.has
      BY <3>1, <3>2, <3>3
    <3> QED BY <3>4 DEF OnRows
  <2>3. Agrees(l.has) => Agrees(OnRows)'
    BY <1>4, <2>2 DEF Agrees
  <2>4. ListsAreFresh'
    BY <1>4, <1>6, <2>1, <2>3 DEF ListsAreFresh
  <2> QED BY <2>1, <2>4 DEF OneNewest
<1> QED BY <1>1, <1>4, <1>5, <1>7 DEF RuntimesInv, RuntimesTypes, ProbeUnderway

LEMMA SupersededKeepsRuntimesInv == RuntimesInv /\ Runtimes!Superseded => RuntimesInv'
<1> SUFFICES ASSUME RuntimesInv, Runtimes!Superseded PROVE RuntimesInv' OBVIOUS
<1>1. PICK l \in lists : Runtimes!Returns(l, rows) /\ UNCHANGED <<cached, listed, unseen>>
  BY DEF Runtimes!Superseded
<1> QED BY <1>1, ReturnsUnshown

LEMMA ListFailsKeepsRuntimesInv == RuntimesInv /\ Runtimes!ListFails => RuntimesInv'
<1> SUFFICES ASSUME RuntimesInv, Runtimes!ListFails PROVE RuntimesInv' OBVIOUS
<1>1. PICK l \in lists : Runtimes!Returns(l, rows) /\ UNCHANGED <<cached, listed, unseen>>
  BY DEF Runtimes!ListFails
<1> QED BY <1>1, ReturnsUnshown

LEMMA ListReturnsKeepsRuntimesInv == RuntimesInv /\ Runtimes!ListReturns => RuntimesInv'
<1> SUFFICES ASSUME RuntimesInv, Runtimes!ListReturns PROVE RuntimesInv' OBVIOUS
<1>1. PICK l \in lists :
        /\ l.at = "read" /\ l.gen = gen /\ Runtimes!Returns(l, Runtimes!Shown(l.has)) /\ listed' = TRUE
        /\ cached' \in BOOLEAN /\ unseen' = unseen
  BY DEF RuntimesInv, RuntimesTypes, Runtimes!ListReturns
<1> QED BY <1>1, ReturnsShown

LEMMA LatestReturnsKeepsRuntimesInv == RuntimesInv /\ Runtimes!LatestReturns => RuntimesInv'
<1> SUFFICES ASSUME RuntimesInv, Runtimes!LatestReturns PROVE RuntimesInv' OBVIOUS
<1>1. PICK l \in lists :
        /\ l.at = "looking" /\ l.gen = gen /\ Runtimes!Returns(l, Runtimes!Shown(l.has)) /\ listed' = TRUE
        /\ cached' \in BOOLEAN /\ unseen' = unseen
  BY DEF RuntimesInv, RuntimesTypes, Runtimes!LatestReturns
<1> QED BY <1>1, ReturnsShown

LEMMA ProbeKeepsRuntimesInv == RuntimesInv /\ Runtimes!Probe => RuntimesInv'
<1> SUFFICES ASSUME RuntimesInv, Runtimes!Probe PROVE RuntimesInv' OBVIOUS
<1>1. OneEach' /\ StaysBusy' /\ EndsItsJob' /\ OneNewest' /\ ListsAreFresh'
  BY UntouchedIsSafe DEF Untouched, Runtimes!Probe, Runtimes!front, Runtimes!listing
<1>2. active \in Runtimes!Runtimes /\ probeGen + 1 \in Nat
  BY DEF RuntimesInv, RuntimesTypes, Runtimes!Probe
<1>3. [gen |-> probeGen + 1, key |-> active] \in ProbeRecords
  BY <1>2 DEF ProbeRecords
<1>4. probes' \subseteq ProbeRecords /\ probeGen' \in Nat /\ ProbeUnderway'
  BY <1>2, <1>3 DEF RuntimesInv, RuntimesTypes, Runtimes!Probe, ProbeUnderway
<1> QED BY <1>1, <1>4
        DEF RuntimesInv, RuntimesTypes, Runtimes!Probe, Runtimes!front, Runtimes!listing

LEMMA ProbeReturnsKeepsRuntimesInv == RuntimesInv /\ Runtimes!ProbeReturns => RuntimesInv'
<1> SUFFICES ASSUME RuntimesInv, Runtimes!ProbeReturns PROVE RuntimesInv' OBVIOUS
<1>1. OneEach' /\ StaysBusy' /\ EndsItsJob' /\ OneNewest' /\ ListsAreFresh'
  BY UntouchedIsSafe DEF Untouched, Runtimes!ProbeReturns, Runtimes!front, Runtimes!listing
<1>2. PICK p \in probes, works \in BOOLEAN :
        /\ probes' = probes \ {p}
        /\ capabilities' = IF p.gen # probeGen \/ p.key # active THEN capabilities
                           ELSE IF works THEN p.key ELSE Runtimes!NoRuntime
        /\ probeBusy' = (probeBusy /\ p.gen # probeGen)
  BY DEF Runtimes!ProbeReturns
<1>3. p.key \in Runtimes!Runtimes
  BY DEF RuntimesInv, RuntimesTypes, ProbeRecords
<1>4. capabilities' \in Runtimes!Runtimes \cup {Runtimes!NoRuntime} /\ probeBusy' \in BOOLEAN
  BY <1>2, <1>3 DEF RuntimesInv, RuntimesTypes
<1>5. ProbeUnderway'
  BY <1>2 DEF RuntimesInv, ProbeUnderway, Runtimes!ProbeReturns
<1> QED BY <1>1, <1>2, <1>4, <1>5
        DEF RuntimesInv, RuntimesTypes, Runtimes!ProbeReturns, Runtimes!front, Runtimes!listing

LEMMA ApplyProfileKeepsRuntimesInv == RuntimesInv /\ Runtimes!ApplyProfile => RuntimesInv'
<1> SUFFICES ASSUME RuntimesInv, Runtimes!ApplyProfile PROVE RuntimesInv' OBVIOUS
<1>1. OneEach' /\ StaysBusy' /\ EndsItsJob' /\ OneNewest' /\ ListsAreFresh'
  BY UntouchedIsSafe DEF Untouched, Runtimes!ApplyProfile, Runtimes!front, Runtimes!listing
<1> QED BY <1>1 DEF RuntimesInv, RuntimesTypes, ProbeUnderway, Runtimes!ApplyProfile, Runtimes!front,
                    Runtimes!listing

LEMMA RuntimesInvInit == Runtimes!Init => RuntimesInv
<1> SUFFICES ASSUME Runtimes!Init PROVE RuntimesInv OBVIOUS
<1>1. rows \in [Backends -> RowRecords]
  BY DEF Runtimes!Init, RowRecords
<1>2. RuntimesTypes
  BY <1>1 DEF Runtimes!Init, RuntimesTypes
<1>3. OneEach /\ StaysBusy /\ EndsItsJob /\ OneNewest /\ ListsAreFresh /\ ProbeUnderway
  BY DEF Runtimes!Init, OneEach, StaysBusy, EndsItsJob, OneNewest, ListsAreFresh, ProbeUnderway
<1> QED BY <1>2, <1>3 DEF RuntimesInv

LEMMA RuntimesInvNext == RuntimesInv /\ Runtimes!Next => RuntimesInv'
BY InstallKeepsRuntimesInv, BundleKeepsRuntimesInv, SelectKeepsRuntimesInv, UninstallKeepsRuntimesInv,
   ReviewKeepsRuntimesInv, InstallPullRequestKeepsRuntimesInv, ClosePreviewKeepsRuntimesInv,
   CancelKeepsRuntimesInv, CancelReturnsKeepsRuntimesInv, MovesKeepsRuntimesInv, DoesKeepsRuntimesInv, SucceedsKeepsRuntimesInv,
   FailsKeepsRuntimesInv, VisitKeepsRuntimesInv, ListReadsKeepsRuntimesInv, SupersededKeepsRuntimesInv,
   ListFailsKeepsRuntimesInv, ListReturnsKeepsRuntimesInv, LatestAskedKeepsRuntimesInv,
   LatestReturnsKeepsRuntimesInv, CacheExpiresKeepsRuntimesInv, ProbeKeepsRuntimesInv,
   ProbeReturnsKeepsRuntimesInv, ApplyProfileKeepsRuntimesInv
   DEF Runtimes!Next

LEMMA RuntimesInvStutters == RuntimesInv /\ UNCHANGED ofRuntimes => RuntimesInv'
<1> SUFFICES ASSUME RuntimesInv, UNCHANGED ofRuntimes PROVE RuntimesInv' OBVIOUS
<1>1. OneEach' /\ StaysBusy' /\ EndsItsJob' /\ OneNewest' /\ ListsAreFresh'
  BY UntouchedIsSafe DEF Untouched, ofRuntimes
<1> QED BY <1>1 DEF RuntimesInv, RuntimesTypes, ProbeUnderway, ofRuntimes

LEMMA RuntimesInvImplies ==
  RuntimesInv => Runtimes!TypeOK /\ Runtimes!ShowsInstalled /\ Runtimes!BuildCanBeCancelled
<1> SUFFICES ASSUME RuntimesInv
             PROVE  Runtimes!TypeOK /\ Runtimes!ShowsInstalled /\ Runtimes!BuildCanBeCancelled
  OBVIOUS
<1>1. rows \in [Backends -> [has : SUBSET Builds, busy : BOOLEAN]]
  BY DEF RuntimesInv, RuntimesTypes, RowRecords
<1>2. \A j \in jobs : j.kind \in Runtimes!Kinds /\ j.of \in Runtimes!Runtimes
                      /\ j.at \in {"called", "moving", "done", "listing"}
  BY DEF RuntimesInv, RuntimesTypes, JobRecords, JobStates
<1>3. \A l \in lists : l.gen <= gen /\ l.at \in {"asked", "read", "looking"} /\ l.has \subseteq Runtimes!Runtimes
  BY ListFields DEF RuntimesInv, RuntimesTypes
<1>4. Runtimes!TypeOK
  BY <1>1, <1>2, <1>3 DEF RuntimesInv, RuntimesTypes, Runtimes!TypeOK
<1>5. Runtimes!ShowsInstalled
  BY DEF RuntimesInv, ListsAreFresh, Unreported, Agrees, OnRows, Runtimes!ShowsInstalled
<1>6. Runtimes!BuildCanBeCancelled
  BY DEF RuntimesInv, StaysBusy, OnRow, Runtimes!BuildCanBeCancelled
<1> QED BY <1>4, <1>5, <1>6

\* A step of the panel shows what a probe found only for the runtime that is active.
LEMMA ProbeStep ==
  ASSUME RuntimesInv, Runtimes!Next \/ UNCHANGED ofRuntimes
  PROVE  Runtimes!ProbeIsCurrent
<1>1. ProbeUnderway'
  BY RuntimesInvNext, RuntimesInvStutters DEF RuntimesInv
<1>2. capabilities' \notin {capabilities, Runtimes!NoRuntime} => capabilities' = active'
  <2>1. CASE Runtimes!ProbeReturns
    BY <2>1 DEF Runtimes!ProbeReturns
  <2>2. CASE Runtimes!Next /\ ~Runtimes!ProbeReturns
    <3>1. capabilities' \in {capabilities, Runtimes!NoRuntime}
      BY <2>2 DEF Runtimes!Next, Runtimes!Install, Runtimes!Bundle, Runtimes!Select, Runtimes!Uninstall,
         Runtimes!Review, Runtimes!InstallPullRequest, Runtimes!ClosePreview, Runtimes!Cancel,
         Runtimes!CancelReturns, Runtimes!Moves, Runtimes!Does, Runtimes!Succeeds, Runtimes!Fails, Runtimes!Visit,
         Runtimes!ListReads, Runtimes!Superseded, Runtimes!ListFails, Runtimes!ListReturns,
         Runtimes!LatestAsked, Runtimes!LatestReturns, Runtimes!CacheExpires, Runtimes!Probe,
         Runtimes!ApplyProfile, Runtimes!Returns, Runtimes!probing
    <3> QED BY <3>1
  <2>3. CASE UNCHANGED ofRuntimes
    BY <2>3 DEF ofRuntimes
  <2> QED BY <2>1, <2>2, <2>3
<1> QED BY <1>1, <1>2 DEF ProbeUnderway, Runtimes!ProbeIsCurrent

-----------------------------------------------------------------------------
\* The answers the gateway keeps (gateway.rs).

\* Instances have the operators of FiniteSets that this module has.
LEMMA AnswersCardinality == ASSUME NEW S PROVE Answers!Cardinality(S) = Cardinality(S)
BY DEF Cardinality, Answers!Cardinality

ConnectionRecords ==
  [pc : Answers!Pcs, of : 0..MaxStarts, previous : Requests \cup {NoRequest}, messages : Seq(Requests)]
GatewayRecords ==
  [loop : 0..MaxStarts, stop : BOOLEAN, started : 0..MaxStarts, conn : [Requests -> ConnectionRecords],
   stored : [Answers!Starts -> SUBSET Requests], active : [Answers!Starts -> Int],
   evicted : SUBSET Requests, deleted : SUBSET Requests]
GatewayTypes == gw \in GatewayRecords /\ gw.loop <= gw.started

\* The gateway of every connection that is being served, and what it counts.
Served(g) == {r \in Requests : gw.conn[r].of = g /\ gw.conn[r].pc \in Answers!Serving}
Unread == {"new", "accepted", "counted"}
Owned ==
  \A r \in Requests : /\ gw.conn[r].pc # "new" => gw.conn[r].of \in Answers!Starts
                      /\ gw.conn[r].pc \in Unread => gw.conn[r].previous = NoRequest
ServedCounted == \A g \in Answers!Starts : gw.active[g] = Cardinality(Served(g))

\* What is kept, or was deleted, is the answer of a request that is past keeping it.
Past == {"telling", "done"}
KeptAnswers ==
  /\ \A g \in Answers!Starts, r \in Requests :
       r \in gw.stored[g] => gw.conn[r].pc \in Past /\ gw.conn[r].of = g /\ r \notin gw.deleted
  /\ \A r \in gw.deleted : gw.conn[r].pc \in Past
LimitKept == \A g \in Answers!Starts : Cardinality(gw.stored[g]) <= MAX_RESPONSES

\* The conversation of a request that has been read: what it continues is past keeping, and
\* does not change any more.
Continued(r) ==
  LET c == gw.conn[r]
      p == c.previous
  IN  /\ p = NoRequest => c.messages = <<r>>
      /\ p # NoRequest => c.messages = Append(gw.conn[p].messages, r) /\ gw.conn[p].of = c.of
                          /\ gw.conn[p].pc \in Past
Told == {"asking", "streaming", "answered"}
ToldAll ==
  \A r \in Requests :
    (gw.conn[r].pc \in Told \/ \E g \in Answers!Starts : r \in gw.stored[g]) => Continued(r)

\* No conversation has a request twice: all but its last are past keeping their answers.
NoneTwice ==
  \A r \in Requests : LET m == gw.conn[r].messages IN
    /\ gw.conn[r].pc \in Unread => m = <<>>
    /\ \A i \in DOMAIN m : m[i] = r \/ gw.conn[m[i]].pc \in Past
    /\ \A i \in DOMAIN m, j \in DOMAIN m : m[i] = m[j] => i = j

GatewayInv ==
  GatewayTypes /\ Owned /\ ServedCounted /\ KeptAnswers /\ LimitKept /\ ToldAll /\ NoneTwice

\* What the records have, and that they stay records when a field is changed.
LEMMA GatewayFields ==
  ASSUME NEW s \in GatewayRecords
  PROVE  /\ s.loop \in 0..MaxStarts /\ s.stop \in BOOLEAN /\ s.started \in 0..MaxStarts
         /\ s.conn \in [Requests -> ConnectionRecords]
         /\ s.stored \in [Answers!Starts -> SUBSET Requests] /\ s.active \in [Answers!Starts -> Int]
         /\ s.evicted \in SUBSET Requests /\ s.deleted \in SUBSET Requests
BY Zenon DEF GatewayRecords

LEMMA ConnectionFields ==
  ASSUME NEW c \in ConnectionRecords
  PROVE  /\ c.pc \in Answers!Pcs /\ c.of \in 0..MaxStarts /\ c.previous \in Requests \cup {NoRequest}
         /\ c.messages \in Seq(Requests)
BY Zenon DEF ConnectionRecords

LEMMA ConnectionMoves ==
  ASSUME NEW c \in ConnectionRecords, NEW pc \in Answers!Pcs
  PROVE  LET d == [c EXCEPT !.pc = pc] IN
         /\ d \in ConnectionRecords /\ d.pc = pc /\ d.of = c.of /\ d.previous = c.previous
         /\ d.messages = c.messages
BY Zenon DEF ConnectionRecords

LEMMA ConnectionAccepted ==
  ASSUME NEW c \in ConnectionRecords, NEW g \in 0..MaxStarts
  PROVE  LET d == [c EXCEPT !.of = g] IN
         /\ d \in ConnectionRecords /\ d.pc = c.pc /\ d.of = g /\ d.previous = c.previous
         /\ d.messages = c.messages
BY Zenon DEF ConnectionRecords

LEMMA ConnectionBegins ==
  ASSUME NEW c \in ConnectionRecords, NEW m \in Seq(Requests)
  PROVE  LET d == [c EXCEPT !.messages = m] IN
         /\ d \in ConnectionRecords /\ d.pc = c.pc /\ d.of = c.of /\ d.previous = c.previous
         /\ d.messages = m
BY Zenon DEF ConnectionRecords

\* What only a connection's record changes.
LEMMA GatewayConn ==
  ASSUME NEW s \in GatewayRecords, NEW t, NEW conn \in [Requests -> ConnectionRecords],
         t = [s EXCEPT !.conn = conn]
  PROVE  /\ t \in GatewayRecords /\ t.conn = conn /\ t.stored = s.stored /\ t.active = s.active
         /\ t.deleted = s.deleted /\ t.loop = s.loop /\ t.started = s.started
         /\ t.evicted = s.evicted
BY Zenon DEF GatewayRecords

LEMMA ToMoves ==
  ASSUME NEW s \in GatewayRecords, NEW r \in Requests, NEW pc \in Answers!Pcs, NEW t,
         t = Answers!To(s, r, pc)
  PROVE  /\ t \in GatewayRecords /\ t.conn = [s.conn EXCEPT ![r] = [s.conn[r] EXCEPT !.pc = pc]]
         /\ t.stored = s.stored /\ t.active = s.active
         /\ t.deleted = s.deleted /\ t.loop = s.loop /\ t.started = s.started
<1> DEFINE d == [s.conn[r] EXCEPT !.pc = pc]
           conn == [s.conn EXCEPT ![r] = d]
<1>1. s.conn \in [Requests -> ConnectionRecords] /\ s.conn[r] \in ConnectionRecords
  BY GatewayFields
<1>2. d \in ConnectionRecords
  BY <1>1, ConnectionMoves
<1>3. conn \in [Requests -> ConnectionRecords]
  BY <1>1, <1>2
<1>4. t = [s EXCEPT !.conn = conn]
  BY Zenon DEF Answers!To
<1> HIDE DEF conn
<1>5. /\ t \in GatewayRecords /\ t.conn = conn /\ t.stored = s.stored /\ t.active = s.active
      /\ t.deleted = s.deleted /\ t.loop = s.loop /\ t.started = s.started
  BY <1>3, <1>4, GatewayConn
<1> QED BY <1>5 DEF conn

LEMMA GatewayActive ==
  ASSUME NEW s \in GatewayRecords, NEW t, NEW counts \in [Answers!Starts -> Int],
         t = [s EXCEPT !.active = counts]
  PROVE  /\ t \in GatewayRecords /\ t.conn = s.conn /\ t.stored = s.stored /\ t.active = counts
         /\ t.deleted = s.deleted /\ t.loop = s.loop /\ t.started = s.started
         /\ t.evicted = s.evicted
BY Zenon DEF GatewayRecords

\* A step that replaces the record of one connection.
Replaces(r, c) == gw'.conn = [gw.conn EXCEPT ![r] = c]

LEMMA ReplacedConnections ==
  ASSUME GatewayInv, NEW r \in Requests, NEW c \in ConnectionRecords, Replaces(r, c)
  PROVE  /\ gw.conn \in [Requests -> ConnectionRecords] /\ gw'.conn \in [Requests -> ConnectionRecords]
         /\ gw'.conn[r] = c /\ \A q \in Requests \ {r} : gw'.conn[q] = gw.conn[q]
BY GatewayFields DEF GatewayInv, GatewayTypes, Replaces

\* A request comes under service, leaves it, or does neither.
LEMMA Enters ==
  ASSUME GatewayInv, NEW r \in Requests, NEW c \in ConnectionRecords, Replaces(r, c),
         NEW g \in Answers!Starts, c.of = g, c.pc \in Answers!Serving,
         gw.conn[r].pc \notin Answers!Serving,
         gw'.active = [gw.active EXCEPT ![g] = gw.active[g] + 1]
  PROVE  ServedCounted'
<1>1. gw.active \in [Answers!Starts -> Int] /\ ServedCounted
  BY GatewayFields DEF GatewayInv, GatewayTypes
<1>2. Served(g)' = Served(g) \cup {r} /\ r \notin Served(g)
  BY ReplacedConnections DEF Served
<1>3. \A h \in Answers!Starts \ {g} : Served(h)' = Served(h)
  BY ReplacedConnections DEF Served
<1>4. IsFiniteSet(Served(g))
  BY GatewayAssumption, FS_Subset DEF Served
<1>5. Cardinality(Served(g)') = Cardinality(Served(g)) + 1
  BY <1>2, <1>4, FS_AddElement
<1> QED BY <1>1, <1>3, <1>5 DEF ServedCounted

LEMMA Leaves ==
  ASSUME GatewayInv, NEW r \in Requests, NEW c \in ConnectionRecords, Replaces(r, c),
         NEW g \in Answers!Starts, gw.conn[r].of = g, gw.conn[r].pc \in Answers!Serving,
         c.of = g, c.pc \notin Answers!Serving,
         gw'.active = [gw.active EXCEPT ![g] = gw.active[g] - 1]
  PROVE  ServedCounted'
<1>1. gw.active \in [Answers!Starts -> Int] /\ ServedCounted
  BY GatewayFields DEF GatewayInv, GatewayTypes
<1>2. Served(g)' = Served(g) \ {r} /\ r \in Served(g)
  BY ReplacedConnections DEF Served
<1>3. \A h \in Answers!Starts \ {g} : Served(h)' = Served(h)
  BY ReplacedConnections DEF Served
<1>4. IsFiniteSet(Served(g))
  BY GatewayAssumption, FS_Subset DEF Served
<1>5. Cardinality(Served(g)') = Cardinality(Served(g)) - 1
  BY <1>2, <1>4, FS_RemoveElement
<1> QED BY <1>1, <1>3, <1>5 DEF ServedCounted

LEMMA Remains ==
  ASSUME GatewayInv, NEW r \in Requests, NEW c \in ConnectionRecords, Replaces(r, c),
         \/ c.of = gw.conn[r].of /\ (gw.conn[r].pc \in Answers!Serving <=> c.pc \in Answers!Serving)
         \/ gw.conn[r].pc \notin Answers!Serving /\ c.pc \notin Answers!Serving,
         gw'.active = gw.active
  PROVE  ServedCounted'
<1>1. \A h \in Answers!Starts : Served(h)' = Served(h)
  BY ReplacedConnections DEF Served
<1> QED BY <1>1 DEF GatewayInv, ServedCounted

\* One request takes a step and keeps its conversation; an answer may come to be kept
\* when it is over.
LEMMA MoveIsSafe ==
  ASSUME GatewayInv, NEW r \in Requests, NEW c \in ConnectionRecords, Replaces(r, c),
         gw.conn[r].pc \in Past => c.pc \in Past, c.pc # "new", c.of \in Answers!Starts,
         c.messages = gw.conn[r].messages, c.previous = gw.conn[r].previous,
         gw.conn[r].pc = "new" \/ c.of = gw.conn[r].of,
         c.pc \in Told => gw.conn[r].pc \in Told,
         c.pc \in Unread => gw.conn[r].pc \in Unread,
         \A g \in Answers!Starts, q \in Requests :
           q \in gw'.stored[g] =>
             q \in gw.stored[g] \/ (q = r /\ gw.conn[r].pc \in Told /\ c.pc \in Past /\ c.of = g),
         gw'.deleted = gw.deleted
  PROVE  Owned' /\ KeptAnswers' /\ ToldAll' /\ NoneTwice'
<1>1. /\ gw.conn \in [Requests -> ConnectionRecords] /\ gw'.conn \in [Requests -> ConnectionRecords]
      /\ gw'.conn[r] = c /\ \A q \in Requests \ {r} : gw'.conn[q] = gw.conn[q]
  BY ReplacedConnections
<1>2. Owned'
  BY <1>1 DEF GatewayInv, Owned, Unread
<1>3. \A q \in Requests : gw.conn[q].pc \in Past =>
        /\ gw'.conn[q].pc \in Past /\ gw'.conn[q].of = gw.conn[q].of
        /\ gw'.conn[q].messages = gw.conn[q].messages
  BY <1>1 DEF Past
<1>4. KeptAnswers'
  <2>1. gw.deleted \in SUBSET Requests
    BY GatewayFields DEF GatewayInv, GatewayTypes
  <2>2. gw.conn[r].pc \in Told => r \notin gw.deleted
    BY DEF GatewayInv, KeptAnswers, Told, Past
  <2> QED BY <1>1, <1>3, <2>1, <2>2 DEF GatewayInv, KeptAnswers
<1>5. \A q \in Requests : Continued(q) /\ gw.conn[q].pc # "new" => Continued(q)'
  <2> SUFFICES ASSUME NEW q \in Requests, Continued(q), gw.conn[q].pc # "new" PROVE Continued(q)'
    OBVIOUS
  <2>1. /\ gw'.conn[q].messages = gw.conn[q].messages /\ gw'.conn[q].previous = gw.conn[q].previous
        /\ gw'.conn[q].of = gw.conn[q].of
    BY <1>1
  <2>2. CASE gw.conn[q].previous = NoRequest
    BY <2>1, <2>2 DEF Continued
  <2>3. CASE gw.conn[q].previous # NoRequest
    <3> DEFINE p == gw.conn[q].previous
    <3>1. gw.conn[p].pc \in Past /\ gw.conn[p].of = gw.conn[q].of
          /\ gw.conn[q].messages = Append(gw.conn[p].messages, q)
      BY <2>3 DEF Continued
    <3>2. p \in Requests
      BY <1>1, <2>3, ConnectionFields
    <3>3. /\ gw'.conn[p].pc \in Past /\ gw'.conn[p].of = gw.conn[p].of
          /\ gw'.conn[p].messages = gw.conn[p].messages
      BY <1>3, <3>1, <3>2
    <3> QED BY <2>1, <2>3, <3>1, <3>3 DEF Continued
  <2> QED BY <2>2, <2>3
<1>6. ToldAll'
  <2> SUFFICES ASSUME NEW q \in Requests,
                      gw'.conn[q].pc \in Told \/ \E g \in Answers!Starts : q \in gw'.stored[g]
               PROVE  Continued(q)'
    BY DEF ToldAll
  <2>1. gw.conn[q].pc \in Told \/ \E g \in Answers!Starts : q \in gw.stored[g]
    BY <1>1
  <2>2. gw.conn[q].pc # "new"
    BY <2>1 DEF GatewayInv, KeptAnswers, Told, Past
  <2> QED BY <1>5, <2>1, <2>2 DEF GatewayInv, ToldAll
<1>7. NoneTwice'
  <2> SUFFICES ASSUME NEW q \in Requests, NEW m, m = gw'.conn[q].messages
               PROVE  /\ gw'.conn[q].pc \in Unread => m = <<>>
                      /\ \A i \in DOMAIN m : m[i] = q \/ gw'.conn[m[i]].pc \in Past
                      /\ \A i \in DOMAIN m, j \in DOMAIN m : m[i] = m[j] => i = j
    BY DEF NoneTwice
  <2>1. m = gw.conn[q].messages /\ m \in Seq(Requests)
    BY <1>1, ConnectionFields
  <2>2. /\ gw.conn[q].pc \in Unread => m = <<>>
        /\ \A i \in DOMAIN m : m[i] = q \/ gw.conn[m[i]].pc \in Past
        /\ \A i \in DOMAIN m, j \in DOMAIN m : m[i] = m[j] => i = j
    BY <2>1 DEF GatewayInv, NoneTwice
  <2>3. \A i \in DOMAIN m : m[i] \in Requests
    BY <2>1
  <2>4. gw'.conn[q].pc \in Unread => gw.conn[q].pc \in Unread
    BY <1>1
  <2> QED BY <1>3, <2>2, <2>3, <2>4
<1> QED BY <1>2, <1>4, <1>6, <1>7

\* A request is read: its conversation begins, or is that of an answer that is over and itself.
LEMMA ReadIsSafe ==
  ASSUME GatewayInv, NEW r \in Requests, NEW c \in ConnectionRecords, Replaces(r, c),
         gw.conn[r].pc = "counted", c.pc = "asking", c.of = gw.conn[r].of,
         gw'.deleted = gw.deleted, gw'.stored = gw.stored,
         \/ c.previous = NoRequest /\ c.messages = <<r>>
         \/ /\ c.previous \in gw.stored[c.of]
            /\ c.messages = Append(gw.conn[c.previous].messages, r)
  PROVE  Owned' /\ KeptAnswers' /\ ToldAll' /\ NoneTwice'
<1>1. /\ gw.conn \in [Requests -> ConnectionRecords] /\ gw'.conn \in [Requests -> ConnectionRecords]
      /\ gw'.conn[r] = c /\ \A q \in Requests \ {r} : gw'.conn[q] = gw.conn[q]
  BY ReplacedConnections
<1>2. c.of \in Answers!Starts
  BY DEF GatewayInv, Owned, Unread
<1>3. Owned'
  BY <1>1, <1>2 DEF GatewayInv, Owned, Unread
<1>4. \A q \in Requests : gw.conn[q].pc \in Past => q # r /\ gw'.conn[q] = gw.conn[q]
  BY <1>1 DEF Past
<1>5. KeptAnswers'
  <2>1. gw.deleted \in SUBSET Requests
    BY GatewayFields DEF GatewayInv, GatewayTypes
  <2> QED BY <1>1, <1>4, <2>1 DEF GatewayInv, KeptAnswers
<1>6. gw.stored[c.of] \in SUBSET Requests
  BY <1>2, GatewayFields DEF GatewayInv, GatewayTypes
<1>7. c.previous \in gw.stored[c.of] =>
        c.previous \in Requests /\ gw.conn[c.previous].pc \in Past /\ gw.conn[c.previous].of = c.of
  BY <1>2, <1>6 DEF GatewayInv, KeptAnswers
<1>8. Continued(r)'
  BY <1>1, <1>4, <1>7, GatewayAssumption DEF Continued
<1>9. ToldAll'
  <2> SUFFICES ASSUME NEW q \in Requests, q # r,
                      gw'.conn[q].pc \in Told \/ \E g \in Answers!Starts : q \in gw'.stored[g]
               PROVE  Continued(q)'
    BY <1>8 DEF ToldAll
  <2>1. Continued(q) /\ gw'.conn[q] = gw.conn[q]
    BY <1>1 DEF GatewayInv, ToldAll
  <2>2. gw.conn[q].previous \in Requests \cup {NoRequest}
    BY <1>1, ConnectionFields
  <2> QED BY <1>4, <2>1, <2>2 DEF Continued
<1>10. NoneTwice'
  <2> SUFFICES ASSUME NEW q \in Requests, NEW m, m = gw'.conn[q].messages
               PROVE  /\ gw'.conn[q].pc \in Unread => m = <<>>
                      /\ \A i \in DOMAIN m : m[i] = q \/ gw'.conn[m[i]].pc \in Past
                      /\ \A i \in DOMAIN m, j \in DOMAIN m : m[i] = m[j] => i = j
    BY DEF NoneTwice
  <2>1. CASE q # r
    <3>1. gw'.conn[q] = gw.conn[q] /\ m \in Seq(Requests)
      BY <1>1, <2>1, ConnectionFields
    <3>2. /\ gw.conn[q].pc \in Unread => m = <<>>
          /\ \A i \in DOMAIN m : m[i] = q \/ gw.conn[m[i]].pc \in Past
          /\ \A i \in DOMAIN m, j \in DOMAIN m : m[i] = m[j] => i = j
      BY <3>1 DEF GatewayInv, NoneTwice
    <3>3. \A i \in DOMAIN m : m[i] \in Requests
      BY <3>1
    <3> QED BY <1>4, <3>1, <3>2, <3>3
  <2>2. CASE q = r /\ c.messages = <<r>>
    BY <1>1, <2>2 DEF Unread
  <2>3. CASE q = r /\ c.previous \in gw.stored[c.of] /\ c.messages = Append(gw.conn[c.previous].messages, r)
    <3> DEFINE p == c.previous
               before == gw.conn[p].messages
    <3>1. p \in Requests /\ gw.conn[p].pc \in Past /\ before \in Seq(Requests)
      BY <1>1, <1>7, <2>3, ConnectionFields
    <3>2. /\ \A i \in DOMAIN before : before[i] = p \/ gw.conn[before[i]].pc \in Past
          /\ \A i \in DOMAIN before, j \in DOMAIN before : before[i] = before[j] => i = j
      BY <3>1 DEF GatewayInv, NoneTwice
    <3>3. \A i \in DOMAIN before : before[i] \in Requests /\ gw.conn[before[i]].pc \in Past
      BY <3>1, <3>2
    <3>4. m = Append(before, r)
      BY <1>1, <2>3
    <3> HIDE DEF p, before
    <3>5. /\ DOMAIN m = 1..(Len(before) + 1) /\ DOMAIN before = 1..Len(before) /\ Len(before) \in Nat
          /\ m[Len(before) + 1] = r /\ \A i \in 1..Len(before) : m[i] = before[i]
      BY <3>1, <3>4
    <3>6. \A i \in 1..Len(before) : before[i] # r /\ gw'.conn[before[i]].pc \in Past
      BY <1>4, <3>3, <3>5
    <3>7. \A i \in DOMAIN m : i \in 1..Len(before) \/ i = Len(before) + 1
      BY <3>5
    <3>8. \A i \in DOMAIN m : m[i] = q \/ gw'.conn[m[i]].pc \in Past
      BY <2>3, <3>5, <3>6, <3>7
    <3>9. \A i \in DOMAIN m, j \in DOMAIN m : m[i] = m[j] => i = j
      BY <3>2, <3>5, <3>6, <3>7
    <3> QED BY <1>1, <2>3, <3>8, <3>9 DEF Unread
  <2> QED BY <2>1, <2>2, <2>3
<1> QED BY <1>3, <1>5, <1>9, <1>10

\* A connection that ends, whether it was counted or not.
LEMMA OverMoves ==
  ASSUME GatewayInv, NEW r \in Requests, NEW t, t = Answers!Over(gw, r),
         gw.conn[r].pc \in Answers!Serving
  PROVE  LET g == gw.conn[r].of IN
         /\ t \in GatewayRecords /\ t.conn = [gw.conn EXCEPT ![r] = [gw.conn[r] EXCEPT !.pc = "done"]]
         /\ g \in Answers!Starts /\ t.active = [gw.active EXCEPT ![g] = gw.active[g] - 1]
         /\ t.stored = gw.stored /\ t.deleted = gw.deleted /\ t.loop = gw.loop /\ t.started = gw.started
<1> DEFINE g == gw.conn[r].of
           s == Answers!To(gw, r, "done")
           n == s.active[g] - 1
<1>1. gw \in GatewayRecords /\ g \in Answers!Starts
  BY DEF GatewayInv, GatewayTypes, Owned, Answers!Serving
<1>2. /\ s \in GatewayRecords /\ s.conn = [gw.conn EXCEPT ![r] = [gw.conn[r] EXCEPT !.pc = "done"]]
      /\ s.stored = gw.stored /\ s.active = gw.active
      /\ s.deleted = gw.deleted /\ s.loop = gw.loop /\ s.started = gw.started
  <2>1. "done" \in Answers!Pcs
    BY DEF Answers!Pcs
  <2> HIDE DEF s
  <2>2. s = Answers!To(gw, r, "done")
    BY DEF s
  <2> QED BY <1>1, <2>1, <2>2, ToMoves
<1>3. t = [s EXCEPT !.active[g] = n]
  BY Zenon DEF Answers!Over, Answers!Conn
<1>4. n \in Int
  BY <1>1, <1>2, GatewayFields
<1> DEFINE counts == [s.active EXCEPT ![g] = n]
<1>5. t = [s EXCEPT !.active = counts]
  BY <1>3, Zenon
<1> HIDE DEF s, g, n
<1>6. s \in GatewayRecords /\ counts \in [Answers!Starts -> Int]
  BY <1>1, <1>2, <1>4, GatewayFields
<1> HIDE DEF counts
<1>7. /\ t \in GatewayRecords /\ t.conn = s.conn /\ t.stored = s.stored /\ t.active = counts
      /\ t.deleted = s.deleted /\ t.loop = s.loop /\ t.started = s.started
  BY <1>5, <1>6, GatewayActive
<1> QED BY <1>1, <1>2, <1>7 DEF g, n, counts

LEMMA OverIsSafe ==
  ASSUME GatewayInv, NEW r \in Requests, gw.conn[r].pc \in Answers!Serving, gw' = Answers!Over(gw, r)
  PROVE  GatewayInv'
<1> DEFINE c == [gw.conn[r] EXCEPT !.pc = "done"]
           g == gw.conn[r].of
<1>1. /\ gw' \in GatewayRecords /\ gw'.conn = [gw.conn EXCEPT ![r] = c]
      /\ g \in Answers!Starts /\ gw'.active = [gw.active EXCEPT ![g] = gw.active[g] - 1]
      /\ gw'.stored = gw.stored /\ gw'.deleted = gw.deleted /\ gw'.loop = gw.loop
      /\ gw'.started = gw.started
  BY OverMoves
<1>2. gw.conn[r] \in ConnectionRecords
  BY GatewayFields DEF GatewayInv, GatewayTypes
<1>3. c \in ConnectionRecords /\ c.pc = "done" /\ c.of = g /\ c.previous = gw.conn[r].previous
      /\ c.messages = gw.conn[r].messages
  BY <1>2, ConnectionMoves DEF Answers!Pcs
<1> HIDE DEF c, g
<1>4. Replaces(r, c)
  BY <1>1 DEF Replaces
<1>5. gw.conn[r].of = g
  BY DEF g
<1>6. ServedCounted'
  BY <1>1, <1>3, <1>4, <1>5, Leaves DEF Answers!Serving
<1>7. Owned' /\ KeptAnswers' /\ ToldAll' /\ NoneTwice'
  BY <1>1, <1>3, <1>4, <1>5, MoveIsSafe DEF Answers!Serving, Told, Unread, Past
<1> QED BY <1>1, <1>6, <1>7 DEF GatewayInv, GatewayTypes, LimitKept

\* A connection that only goes on.
LEMMA ToIsSafe ==
  ASSUME GatewayInv, NEW r \in Requests, NEW pc \in Answers!Pcs, gw' = Answers!To(gw, r, pc),
         \/ gw.conn[r].pc = "asking" /\ pc \in {"streaming", "answered"}
         \/ gw.conn[r].pc = "streaming" /\ pc = "answered"
         \/ gw.conn[r].pc = "accepted" /\ pc = "done"
  PROVE  GatewayInv'
<1> DEFINE c == [gw.conn[r] EXCEPT !.pc = pc]
<1>1. /\ gw' \in GatewayRecords /\ gw'.conn = [gw.conn EXCEPT ![r] = c]
      /\ gw'.stored = gw.stored /\ gw'.active = gw.active
      /\ gw'.deleted = gw.deleted /\ gw'.loop = gw.loop /\ gw'.started = gw.started
  BY ToMoves DEF GatewayInv, GatewayTypes
<1>2. gw.conn[r] \in ConnectionRecords /\ gw.conn[r].of \in Answers!Starts
  BY GatewayFields DEF GatewayInv, GatewayTypes, Owned
<1>3. c \in ConnectionRecords /\ c.pc = pc /\ c.of = gw.conn[r].of /\ c.previous = gw.conn[r].previous
      /\ c.messages = gw.conn[r].messages
  BY <1>2, ConnectionMoves
<1> HIDE DEF c
<1>4. Replaces(r, c)
  BY <1>1 DEF Replaces
<1>5. ServedCounted'
  BY <1>1, <1>3, <1>4, Remains DEF Answers!Serving
<1>6. Owned' /\ KeptAnswers' /\ ToldAll' /\ NoneTwice'
  BY <1>1, <1>2, <1>3, <1>4, MoveIsSafe DEF Told, Unread, Past
<1> QED BY <1>1, <1>5, <1>6 DEF GatewayInv, GatewayTypes, LimitKept

\* The gateway itself, which no connection notices.
LEMMA LoopIsSafe ==
  ASSUME GatewayInv, Answers!Start \/ Answers!Stop \/ Answers!LoopEnds
  PROVE  GatewayInv'
<1>1. /\ gw'.conn = gw.conn /\ gw'.stored = gw.stored /\ gw'.active = gw.active
      /\ gw'.deleted = gw.deleted /\ gw'.loop <= gw'.started /\ gw' \in GatewayRecords
  <2>1. gw \in GatewayRecords /\ gw.loop <= gw.started
    BY DEF GatewayInv, GatewayTypes
  <2>2. gw.started \in Nat /\ gw.started \in 0..MaxStarts /\ gw.loop \in 0..MaxStarts
    BY <2>1, GatewayFields, GatewayAssumption
  <2>3. CASE Answers!Start
    <3> DEFINE n == gw.started + 1
    <3>1. n \in 0..MaxStarts /\ n <= n
      BY <2>2, <2>3, GatewayAssumption DEF Answers!Start
    <3>2. gw' = [[[gw EXCEPT !.loop = n] EXCEPT !.started = n] EXCEPT !.stop = FALSE]
      BY <2>3, Zenon DEF Answers!Start
    <3> HIDE DEF n
    <3>3. /\ gw'.conn = gw.conn /\ gw'.stored = gw.stored /\ gw'.active = gw.active
          /\ gw'.deleted = gw.deleted /\ gw'.loop = n /\ gw'.started = n /\ gw' \in GatewayRecords
      BY <2>1, <3>1, <3>2, Zenon DEF GatewayRecords
    <3> QED BY <3>1, <3>3
  <2>4. CASE Answers!Stop
    <3>1. /\ gw'.conn = gw.conn /\ gw'.stored = gw.stored /\ gw'.active = gw.active
          /\ gw'.deleted = gw.deleted /\ gw'.loop = gw.loop /\ gw'.started = gw.started
          /\ gw' \in GatewayRecords
      BY <2>1, <2>4, Zenon DEF GatewayRecords, Answers!Stop
    <3> QED BY <2>1, <3>1
  <2>5. CASE Answers!LoopEnds
    <3>1. 0 \in 0..MaxStarts /\ 0 <= gw.started
      BY <2>2, GatewayAssumption
    <3>2. /\ gw'.conn = gw.conn /\ gw'.stored = gw.stored /\ gw'.active = gw.active
          /\ gw'.deleted = gw.deleted /\ gw'.loop = 0 /\ gw'.started = gw.started
          /\ gw' \in GatewayRecords
      BY <2>1, <2>5, <3>1, Zenon DEF GatewayRecords, Answers!LoopEnds
    <3> QED BY <3>1, <3>2
  <2> QED BY <2>3, <2>4, <2>5
<1> QED BY <1>1 DEF GatewayInv, GatewayTypes, Owned, ServedCounted, Served, KeptAnswers, LimitKept, ToldAll,
                    Continued, NoneTwice

LEMMA AcceptKeepsGatewayInv ==
  ASSUME GatewayInv, NEW r \in Requests, Answers!Accept(r)
  PROVE  GatewayInv'
<1> DEFINE s == Answers!To(gw, r, "accepted")
           b == [gw.conn[r] EXCEPT !.pc = "accepted"]
           c == [b EXCEPT !.of = gw.loop]
           conn == [s.conn EXCEPT ![r] = c]
<1>1. gw \in GatewayRecords /\ gw.loop \in 0..MaxStarts /\ gw.conn[r].pc = "new" /\ gw.loop # 0
  BY GatewayFields DEF GatewayInv, GatewayTypes, Answers!Accept, Answers!At, Answers!Conn
<1>2. gw.conn \in [Requests -> ConnectionRecords] /\ gw.conn[r] \in ConnectionRecords
      /\ gw.loop \in Answers!Starts
  BY <1>1, GatewayFields, GatewayAssumption DEF Answers!Starts
<1>3. /\ s \in GatewayRecords /\ s.conn = [gw.conn EXCEPT ![r] = b]
      /\ s.stored = gw.stored /\ s.active = gw.active
      /\ s.deleted = gw.deleted /\ s.loop = gw.loop /\ s.started = gw.started
  <2>1. "accepted" \in Answers!Pcs
    BY DEF Answers!Pcs
  <2> HIDE DEF s
  <2>2. s = Answers!To(gw, r, "accepted")
    BY DEF s
  <2> QED BY <1>1, <2>1, <2>2, ToMoves
<1>4. b \in ConnectionRecords /\ b.pc = "accepted" /\ b.previous = gw.conn[r].previous
      /\ b.messages = gw.conn[r].messages
  BY <1>2, ConnectionMoves DEF Answers!Pcs
<1>5. s.conn[r] = b
  BY <1>2, <1>3
<1>6. gw' = [s EXCEPT !.conn[r].of = gw.loop]
  BY Zenon DEF Answers!Accept
<1> HIDE DEF s, b
<1>7. c \in ConnectionRecords /\ c.pc = "accepted" /\ c.of = gw.loop /\ c.previous = gw.conn[r].previous
      /\ c.messages = gw.conn[r].messages
  BY <1>1, <1>4, ConnectionAccepted
<1>8. gw' = [s EXCEPT !.conn = conn]
  BY <1>5, <1>6, Zenon
<1>9. conn \in [Requests -> ConnectionRecords] /\ conn = [gw.conn EXCEPT ![r] = c]
  BY <1>2, <1>3, <1>7
<1> HIDE DEF c, conn
<1>10. /\ gw' \in GatewayRecords /\ gw'.conn = conn /\ gw'.stored = gw.stored /\ gw'.active = gw.active
       /\ gw'.deleted = gw.deleted /\ gw'.loop = gw.loop /\ gw'.started = gw.started
  BY <1>3, <1>8, <1>9, GatewayConn
<1>11. Replaces(r, c)
  BY <1>9, <1>10 DEF Replaces
<1>12. ServedCounted'
  BY <1>1, <1>7, <1>10, <1>11, Remains DEF Answers!Serving
<1>13. Owned' /\ KeptAnswers' /\ ToldAll' /\ NoneTwice'
  BY <1>1, <1>2, <1>7, <1>10, <1>11, MoveIsSafe DEF Told, Unread, Past
<1> QED BY <1>10, <1>12, <1>13 DEF GatewayInv, GatewayTypes, LimitKept

LEMMA CountedKeepsGatewayInv ==
  ASSUME GatewayInv, NEW r \in Requests, Answers!Counted(r)
  PROVE  GatewayInv'
<1>1. gw \in GatewayRecords /\ gw.conn[r].pc = "accepted"
  BY DEF GatewayInv, GatewayTypes, Answers!Counted, Answers!At, Answers!Conn
<1>2. CASE gw' = Answers!To(gw, r, "done")
  BY <1>1, <1>2, ToIsSafe DEF Answers!Pcs
<1>3. CASE gw' = [Answers!To(gw, r, "counted") EXCEPT !.active[gw.conn[r].of] = @ + 1]
  <2> DEFINE s == Answers!To(gw, r, "counted")
             c == [gw.conn[r] EXCEPT !.pc = "counted"]
             g == gw.conn[r].of
             n == s.active[g] + 1
             counts == [s.active EXCEPT ![g] = n]
  <2>1. /\ s \in GatewayRecords /\ s.conn = [gw.conn EXCEPT ![r] = c]
        /\ s.stored = gw.stored /\ s.active = gw.active
        /\ s.deleted = gw.deleted /\ s.loop = gw.loop /\ s.started = gw.started
    <3>1. "counted" \in Answers!Pcs
      BY DEF Answers!Pcs
    <3> HIDE DEF s
    <3>2. s = Answers!To(gw, r, "counted")
      BY DEF s
    <3> QED BY <1>1, <3>1, <3>2, ToMoves
  <2>2. gw' = [s EXCEPT !.active = counts]
    BY <1>3, Zenon
  <2>3. gw.conn[r] \in ConnectionRecords /\ g \in Answers!Starts
    BY <1>1, GatewayFields DEF GatewayInv, GatewayTypes, Owned
  <2>4. n \in Int
    BY <2>1, <2>3, GatewayFields
  <2>5. c \in ConnectionRecords /\ c.pc = "counted" /\ c.of = g /\ c.previous = gw.conn[r].previous
        /\ c.messages = gw.conn[r].messages
    BY <2>3, ConnectionMoves DEF Answers!Pcs
  <2>6. n = gw.active[g] + 1
    BY <2>1
  <2>7. gw.conn[r].of = g
    OBVIOUS
  <2> HIDE DEF s, c, g, n
  <2>8. counts \in [Answers!Starts -> Int] /\ counts = [gw.active EXCEPT ![g] = gw.active[g] + 1]
    BY <2>1, <2>3, <2>4, <2>6, GatewayFields
  <2> HIDE DEF counts
  <2>9. /\ gw' \in GatewayRecords /\ gw'.conn = [gw.conn EXCEPT ![r] = c] /\ gw'.stored = gw.stored
        /\ gw'.active = counts /\ gw'.deleted = gw.deleted /\ gw'.loop = gw.loop /\ gw'.started = gw.started
    BY <2>1, <2>2, <2>8, GatewayActive
  <2>10. Replaces(r, c)
    BY <2>9 DEF Replaces
  <2>11. ServedCounted'
    BY <1>1, <2>3, <2>5, <2>8, <2>9, <2>10, Enters DEF Answers!Serving
  <2>12. Owned' /\ KeptAnswers' /\ ToldAll' /\ NoneTwice'
    BY <1>1, <2>3, <2>5, <2>7, <2>9, <2>10, MoveIsSafe DEF Told, Unread, Past
  <2> QED BY <2>9, <2>11, <2>12 DEF GatewayInv, GatewayTypes, LimitKept
<1> QED BY <1>2, <1>3 DEF Answers!Counted, Answers!Conn

\* The record of a request that has been read is c.
LEMMA GatewayAsksIsSafe ==
  ASSUME GatewayInv, NEW r \in Requests, NEW c \in ConnectionRecords, gw.conn[r].pc = "counted",
         NEW s \in GatewayRecords, s.stored = gw.stored, s.active = gw.active, s.deleted = gw.deleted,
         s.loop = gw.loop, s.started = gw.started,
         NEW conn, conn = [gw.conn EXCEPT ![r] = c], gw' = [s EXCEPT !.conn = conn],
         c.pc = "asking", c.of = gw.conn[r].of,
         \/ c.previous = NoRequest /\ c.messages = <<r>>
         \/ /\ c.previous \in gw.stored[c.of]
            /\ c.messages = Append(gw.conn[c.previous].messages, r)
  PROVE  GatewayInv'
<1>1. conn \in [Requests -> ConnectionRecords]
  BY GatewayFields DEF GatewayInv, GatewayTypes
<1>2. /\ gw' \in GatewayRecords /\ gw'.conn = conn /\ gw'.stored = gw.stored /\ gw'.active = gw.active
      /\ gw'.deleted = gw.deleted /\ gw'.loop = gw.loop /\ gw'.started = gw.started
  BY <1>1, GatewayConn
<1>3. Replaces(r, c)
  BY <1>2 DEF Replaces
<1>4. ServedCounted'
  BY <1>2, <1>3, Remains DEF Answers!Serving
<1>5. Owned' /\ KeptAnswers' /\ ToldAll' /\ NoneTwice'
  BY <1>2, <1>3, ReadIsSafe
<1> QED BY <1>2, <1>4, <1>5 DEF GatewayInv, GatewayTypes, LimitKept

LEMMA AsksKeepsGatewayInv ==
  ASSUME GatewayInv, NEW r \in Requests, Answers!Asks(r)
  PROVE  GatewayInv'
<1> DEFINE s == Answers!To(gw, r, "asking")
           b == [gw.conn[r] EXCEPT !.pc = "asking"]
<1>1. gw \in GatewayRecords /\ gw.conn[r].pc = "counted"
  BY DEF GatewayInv, GatewayTypes, Answers!Asks, Answers!At, Answers!Conn
<1>2. /\ gw.conn \in [Requests -> ConnectionRecords] /\ gw.conn[r] \in ConnectionRecords
      /\ gw.conn[r].of \in Answers!Starts /\ gw.stored \in [Answers!Starts -> SUBSET Requests]
      /\ gw.conn[r].previous = NoRequest
  BY <1>1, GatewayFields DEF GatewayInv, Owned, Unread
<1>3. b \in ConnectionRecords /\ b.pc = "asking" /\ b.of = gw.conn[r].of
      /\ b.previous = gw.conn[r].previous /\ b.messages = gw.conn[r].messages
  BY <1>2, ConnectionMoves DEF Answers!Pcs
<1>4. /\ s \in GatewayRecords /\ s.conn = [gw.conn EXCEPT ![r] = b]
      /\ s.stored = gw.stored /\ s.active = gw.active
      /\ s.deleted = gw.deleted /\ s.loop = gw.loop /\ s.started = gw.started
  <2>1. "asking" \in Answers!Pcs
    BY DEF Answers!Pcs
  <2> HIDE DEF s
  <2>2. s = Answers!To(gw, r, "asking")
    BY DEF s
  <2> QED BY <1>1, <2>1, <2>2, ToMoves
<1>5. s.conn[r] = b
  BY <1>2, <1>4
<1>6. CASE gw' = Answers!Over(gw, r)
  BY <1>1, <1>6, OverIsSafe DEF Answers!Serving
<1>7. CASE gw' = [s EXCEPT !.conn[r].messages = <<r>>]
  <2> DEFINE c == [b EXCEPT !.messages = <<r>>]
             conn == [gw.conn EXCEPT ![r] = c]
  <2> HIDE DEF s, b
  <2>1. <<r>> \in Seq(Requests)
    OBVIOUS
  <2>2. c \in ConnectionRecords /\ c.pc = "asking" /\ c.of = gw.conn[r].of
        /\ c.previous = gw.conn[r].previous /\ c.messages = <<r>>
    BY <1>3, <2>1, ConnectionBegins
  <2>3. gw' = [s EXCEPT !.conn = [s.conn EXCEPT ![r] = c]]
    BY <1>5, <1>7, Zenon
  <2> HIDE DEF c
  <2>4. [s.conn EXCEPT ![r] = c] = conn
    BY <1>2, <1>4
  <2>5. gw' = [s EXCEPT !.conn = conn] /\ conn = [gw.conn EXCEPT ![r] = c]
    BY <2>3, <2>4
  <2> HIDE DEF conn
  <2> QED BY <1>1, <1>2, <1>4, <2>2, <2>5, GatewayAsksIsSafe
<1>8. ASSUME NEW p \in gw.stored[gw.conn[r].of],
             gw' = [s EXCEPT !.conn[r].previous = p, !.conn[r].messages = Append(gw.conn[p].messages, r)]
      PROVE  GatewayInv'
  <2> DEFINE m == Append(gw.conn[p].messages, r)
             c == [[b EXCEPT !.previous = p] EXCEPT !.messages = m]
             conn == [gw.conn EXCEPT ![r] = c]
  <2> HIDE DEF s, b
  <2>1. p \in Requests
    BY <1>2
  <2>2. m \in Seq(Requests)
    BY <1>2, <2>1, ConnectionFields
  <2>3. gw' = [s EXCEPT !.conn[r].previous = p, !.conn[r].messages = m]
    BY <1>8
  <2>4. m = Append(gw.conn[p].messages, r)
    OBVIOUS
  <2> HIDE DEF m
  <2>5. c \in ConnectionRecords /\ c.pc = "asking" /\ c.of = gw.conn[r].of
        /\ c.previous = p /\ c.messages = m
    BY <1>3, <2>1, <2>2, Zenon DEF ConnectionRecords
  <2>6. gw' = [s EXCEPT !.conn = [s.conn EXCEPT ![r] = c]]
    BY <1>2, <1>4, <1>5, <2>3, Zenon
  <2> HIDE DEF c
  <2>7. [s.conn EXCEPT ![r] = c] = conn
    BY <1>2, <1>4
  <2>8. gw' = [s EXCEPT !.conn = conn] /\ conn = [gw.conn EXCEPT ![r] = c]
    BY <2>6, <2>7
  <2> HIDE DEF conn
  <2> QED BY <1>1, <1>2, <1>4, <2>4, <2>5, <2>8, GatewayAsksIsSafe
<1> QED BY <1>6, <1>7, <1>8 DEF Answers!Asks, Answers!Conn

LEMMA RememberKeepsGatewayInv ==
  ASSUME GatewayInv, NEW r \in Requests, Answers!Remember(r)
  PROVE  GatewayInv'
<1> DEFINE g == gw.conn[r].of
           s == Answers!To(gw, r, "telling")
           c == [gw.conn[r] EXCEPT !.pc = "telling"]
           ids == gw.stored[g] \cup {r}
<1>1. gw \in GatewayRecords /\ gw.conn[r].pc = "answered" /\ gw.conn[r] \in ConnectionRecords
      /\ gw.stored \in [Answers!Starts -> SUBSET Requests]
  BY GatewayFields DEF GatewayInv, GatewayTypes, Answers!Remember, Answers!At, Answers!Conn
<1>2. /\ s \in GatewayRecords /\ s.conn = [gw.conn EXCEPT ![r] = c]
      /\ g \in Answers!Starts /\ s.active = gw.active
      /\ s.stored = gw.stored /\ s.deleted = gw.deleted /\ s.loop = gw.loop /\ s.started = gw.started
  <2>1. "telling" \in Answers!Pcs /\ g \in Answers!Starts
    BY <1>1 DEF Answers!Pcs, GatewayInv, Owned
  <2> HIDE DEF s, g
  <2>2. s = Answers!To(gw, r, "telling")
    BY DEF s
  <2> QED BY <1>1, <2>1, <2>2, ToMoves
<1>3. PICK out \in Answers!Dropped(ids) :
        gw' = [[s EXCEPT !.stored[g] = ids \ out] EXCEPT !.evicted = @ \cup out]
  BY Zenon DEF Answers!Remember, Answers!Conn
<1>4. c \in ConnectionRecords /\ c.pc = "telling" /\ c.of = g /\ c.previous = gw.conn[r].previous
      /\ c.messages = gw.conn[r].messages /\ gw.conn[r].of = g
  BY <1>1, ConnectionMoves DEF Answers!Pcs
<1>5. ids \in SUBSET Requests /\ IsFiniteSet(ids)
  BY <1>1, <1>2, GatewayAssumption, FS_Subset
<1>6. out \in SUBSET Requests /\ Cardinality(ids \ out) <= MAX_RESPONSES
  <2>1. Cardinality(ids) \in Nat
    BY <1>5, FS_CardinalityType
  <2>2. CASE Cardinality(ids) <= MAX_RESPONSES
    <3>1. out = {}
      BY <2>2, AnswersCardinality DEF Answers!Dropped
    <3>2. ids \ out = ids
      BY <3>1
    <3> QED BY <2>2, <3>1, <3>2
  <2>3. CASE ~(Cardinality(ids) <= MAX_RESPONSES)
    <3>1. out \in SUBSET ids /\ Cardinality(ids \ out) = MAX_RESPONSES
      BY <2>3, AnswersCardinality DEF Answers!Dropped
    <3> QED BY <1>5, <3>1, GatewayAssumption
  <2> QED BY <2>2, <2>3
<1> DEFINE stored == [gw.stored EXCEPT ![g] = ids \ out]
           evicted == s.evicted \cup out
<1>7. stored \in [Answers!Starts -> SUBSET Requests] /\ evicted \in SUBSET Requests
  BY <1>1, <1>2, <1>5, GatewayFields, <1>6
<1>8. gw' = [[s EXCEPT !.stored = stored] EXCEPT !.evicted = evicted]
  <2> HIDE DEF s, ids, g
  <2>1. gw' = [[s EXCEPT !.stored = [s.stored EXCEPT ![g] = ids \ out]] EXCEPT !.evicted = evicted]
    BY <1>2, <1>3, Zenon DEF GatewayRecords
  <2> QED BY <1>2, <2>1
<1>9. \A h \in Answers!Starts : stored[h] = IF h = g THEN ids \ out ELSE gw.stored[h]
  BY <1>1, <1>2
<1> HIDE DEF stored, evicted, s, c, g
<1>10. /\ gw' \in GatewayRecords /\ gw'.conn = s.conn /\ gw'.stored = stored /\ gw'.active = s.active
       /\ gw'.deleted = s.deleted /\ gw'.loop = s.loop /\ gw'.started = s.started
  BY <1>2, <1>7, <1>8, Zenon DEF GatewayRecords
<1>11. Replaces(r, c)
  BY <1>2, <1>10 DEF Replaces
<1>12. ServedCounted'
  BY <1>1, <1>2, <1>4, <1>10, <1>11, Remains DEF Answers!Serving
<1>13. LimitKept'
  BY <1>6, <1>9, <1>10 DEF GatewayInv, LimitKept
<1>14. \A h \in Answers!Starts, q \in Requests :
         q \in gw'.stored[h] => q \in gw.stored[h] \/ (q = r /\ h = g)
  BY <1>9, <1>10
<1>15. Owned' /\ KeptAnswers' /\ ToldAll' /\ NoneTwice'
  BY <1>1, <1>2, <1>4, <1>10, <1>11, <1>14, MoveIsSafe DEF Told, Unread, Past
<1> QED BY <1>2, <1>10, <1>12, <1>13, <1>15 DEF GatewayInv, GatewayTypes

LEMMA DeleteKeepsGatewayInv == GatewayInv /\ Answers!Delete => GatewayInv'
<1> SUFFICES ASSUME GatewayInv, Answers!Delete PROVE GatewayInv' OBVIOUS
<1>1. PICK g \in 1..gw.started : \E r \in gw.stored[g] :
        gw' = [gw EXCEPT !.stored[g] = @ \ {r}, !.deleted = @ \cup {r}]
  BY DEF Answers!Delete
<1>2. PICK r \in gw.stored[g] : gw' = [gw EXCEPT !.stored[g] = @ \ {r}, !.deleted = @ \cup {r}]
  BY <1>1
<1>3. gw \in GatewayRecords /\ gw.stored \in [Answers!Starts -> SUBSET Requests]
      /\ gw.deleted \in SUBSET Requests /\ gw.started \in 0..MaxStarts
  BY GatewayFields DEF GatewayInv, GatewayTypes
<1>4. g \in Answers!Starts /\ r \in Requests
  BY <1>1, <1>3, GatewayAssumption DEF Answers!Starts
<1> DEFINE stored == [gw.stored EXCEPT ![g] = gw.stored[g] \ {r}]
           deleted == gw.deleted \cup {r}
<1>5. stored \in [Answers!Starts -> SUBSET Requests] /\ deleted \in SUBSET Requests
  BY <1>3, <1>4
<1>6. gw' = [[gw EXCEPT !.stored = stored] EXCEPT !.deleted = deleted]
  BY <1>2, <1>3, Zenon DEF GatewayRecords
<1>7. \A h \in Answers!Starts : stored[h] = IF h = g THEN gw.stored[h] \ {r} ELSE gw.stored[h]
  BY <1>3, <1>4
<1> HIDE DEF stored, deleted
<1>8. /\ gw' \in GatewayRecords /\ gw'.conn = gw.conn /\ gw'.stored = stored /\ gw'.active = gw.active
      /\ gw'.deleted = deleted /\ gw'.loop = gw.loop /\ gw'.started = gw.started
  BY <1>3, <1>5, <1>6, Zenon DEF GatewayRecords
<1>9. KeptAnswers'
  <2>1. gw.conn[r].pc \in Past /\ gw.conn[r].of = g
    BY <1>2, <1>4 DEF GatewayInv, KeptAnswers
  <2>2. \A h \in Answers!Starts : r \in gw.stored[h] => h = g
    BY <1>4, <2>1 DEF GatewayInv, KeptAnswers
  <2>3. \A h \in Answers!Starts : r \notin stored[h]
    BY <1>7, <2>2
  <2>4. \A h \in Answers!Starts, q \in Requests : q \in stored[h] => q \in gw.stored[h] /\ q # r
    BY <1>7, <2>3
  <2>5. /\ \A h \in Answers!Starts, q \in Requests :
             q \in gw'.stored[h] => gw'.conn[q].pc \in Past /\ gw'.conn[q].of = h /\ q \notin gw'.deleted
        /\ \A q \in gw'.deleted : gw'.conn[q].pc \in Past
    BY <1>8, <2>1, <2>4 DEF GatewayInv, KeptAnswers, deleted
  <2> QED BY <2>5 DEF KeptAnswers
<1>10. LimitKept'
  <2>1. \A h \in Answers!Starts : IsFiniteSet(gw.stored[h]) /\ Cardinality(gw.stored[h]) \in Nat
    BY <1>3, GatewayAssumption, FS_Subset, FS_CardinalityType
  <2>2. Cardinality(gw.stored[g] \ {r}) <= Cardinality(gw.stored[g])
        /\ Cardinality(gw.stored[g] \ {r}) \in Nat
    BY <1>4, <2>1, FS_Subset, FS_CardinalityType
  <2>3. \A h \in Answers!Starts : Cardinality(gw.stored[h]) <= MAX_RESPONSES
    BY DEF GatewayInv, LimitKept
  <2>4. Cardinality(gw.stored[g] \ {r}) <= MAX_RESPONSES
    BY <1>4, <2>1, <2>2, <2>3, GatewayAssumption
  <2>5. \A h \in Answers!Starts : Cardinality(stored[h]) <= MAX_RESPONSES
    <3> SUFFICES ASSUME NEW h \in Answers!Starts PROVE Cardinality(stored[h]) <= MAX_RESPONSES
      OBVIOUS
    <3>1. CASE h = g
      <4>1. stored[h] = gw.stored[g] \ {r}
        BY <1>7, <3>1
      <4> QED BY <2>4, <4>1
    <3>2. CASE h # g
      <4>1. stored[h] = gw.stored[h]
        BY <1>7, <3>2
      <4> QED BY <2>3, <4>1
    <3> QED BY <3>1, <3>2
  <2> QED BY <1>8, <2>5 DEF LimitKept
<1>11. ToldAll'
  BY <1>7, <1>8 DEF GatewayInv, ToldAll, Continued
<1> QED BY <1>8, <1>9, <1>10, <1>11 DEF GatewayInv, GatewayTypes, Owned, ServedCounted, Served, NoneTwice

LEMMA GatewayInvInit == Answers!Init => GatewayInv
<1> SUFFICES ASSUME Answers!Init PROVE GatewayInv OBVIOUS
<1>1. [pc |-> "new", of |-> 0, previous |-> NoRequest, messages |-> <<>>] \in ConnectionRecords
  BY GatewayAssumption DEF ConnectionRecords, Answers!Pcs
<1>2. gw \in GatewayRecords /\ gw.loop = 0 /\ gw.started = 0
  BY <1>1, GatewayAssumption DEF Answers!Init, GatewayRecords
<1>3. \A r \in Requests : gw.conn[r].pc = "new" /\ gw.conn[r].previous = NoRequest /\ gw.conn[r].messages = <<>>
  BY DEF Answers!Init
<1>4. \A g \in Answers!Starts : gw.stored[g] = {} /\ gw.active[g] = 0
  BY DEF Answers!Init
<1>5. gw.deleted = {}
  BY DEF Answers!Init
<1>6. \A g \in Answers!Starts : Served(g) = {}
  BY <1>3 DEF Served, Answers!Serving
<1>7. Cardinality({}) = 0
  BY FS_EmptySet
<1>8. Owned /\ KeptAnswers /\ ToldAll
  BY <1>3, <1>4, <1>5 DEF Owned, KeptAnswers, ToldAll, Told
<1>9. ServedCounted /\ LimitKept
  <2>1. \A g \in Answers!Starts : Cardinality(Served(g)) = 0 /\ Cardinality(gw.stored[g]) = 0
    BY <1>4, <1>6, <1>7
  <2>2. 0 <= MAX_RESPONSES
    BY GatewayAssumption
  <2>3. ServedCounted
    BY <1>4, <2>1 DEF ServedCounted
  <2>4. LimitKept
    BY <2>1, <2>2 DEF LimitKept
  <2> QED BY <2>3, <2>4
<1>10. NoneTwice
  BY <1>3 DEF NoneTwice
<1> QED BY <1>2, <1>8, <1>9, <1>10 DEF GatewayInv, GatewayTypes

LEMMA GatewayInvNext == GatewayInv /\ Answers!Next => GatewayInv'
<1> SUFFICES ASSUME GatewayInv, Answers!Next PROVE GatewayInv' OBVIOUS
<1>1. ASSUME NEW r \in Requests, Answers!Upstream(r) PROVE GatewayInv'
  <2>1. gw.conn[r].pc = "asking"
    BY <1>1 DEF Answers!Upstream, Answers!At, Answers!Conn
  <2>2. CASE gw' = Answers!Over(gw, r)
    BY <2>1, <2>2, OverIsSafe DEF Answers!Serving
  <2>3. ASSUME NEW pc \in {"streaming", "answered"}, gw' = Answers!To(gw, r, pc) PROVE GatewayInv'
    BY <2>1, <2>3, ToIsSafe DEF Answers!Pcs
  <2> QED BY <1>1, <2>2, <2>3 DEF Answers!Upstream
<1>2. ASSUME NEW r \in Requests, Answers!StreamEnds(r) PROVE GatewayInv'
  <2>1. gw.conn[r].pc = "streaming"
    BY <1>2 DEF Answers!StreamEnds, Answers!At, Answers!Conn
  <2>2. CASE gw' = Answers!Over(gw, r)
    BY <2>1, <2>2, OverIsSafe DEF Answers!Serving
  <2>3. CASE gw' = Answers!To(gw, r, "answered")
    BY <2>1, <2>3, ToIsSafe DEF Answers!Pcs
  <2> QED BY <1>2, <2>2, <2>3 DEF Answers!StreamEnds
<1>3. ASSUME NEW r \in Requests, Answers!Tells(r) PROVE GatewayInv'
  BY <1>3, OverIsSafe DEF Answers!Tells, Answers!At, Answers!Conn, Answers!Serving
<1> QED BY <1>1, <1>2, <1>3, LoopIsSafe, DeleteKeepsGatewayInv, AcceptKeepsGatewayInv, CountedKeepsGatewayInv,
        AsksKeepsGatewayInv, RememberKeepsGatewayInv DEF Answers!Next

LEMMA GatewayInvStutters == GatewayInv /\ UNCHANGED gw => GatewayInv'
BY DEF GatewayInv, GatewayTypes, Owned, ServedCounted, Served, KeptAnswers, LimitKept, ToldAll, Continued,
       NoneTwice

LEMMA GatewayInvImplies ==
  GatewayInv => Answers!TypeOK /\ Answers!Continues /\ Answers!StoreHolds /\ Answers!ActiveIsCounted
<1> SUFFICES ASSUME GatewayInv
             PROVE  Answers!TypeOK /\ Answers!Continues /\ Answers!StoreHolds /\ Answers!ActiveIsCounted
  OBVIOUS
<1>1. /\ gw.loop \in 0..MaxStarts /\ gw.stop \in BOOLEAN /\ gw.started \in 0..MaxStarts
      /\ gw.conn \in [Requests -> ConnectionRecords]
      /\ gw.stored \in [Answers!Starts -> SUBSET Requests] /\ gw.active \in [Answers!Starts -> Int]
      /\ gw.evicted \in SUBSET Requests /\ gw.deleted \in SUBSET Requests
  BY GatewayFields DEF GatewayInv, GatewayTypes
<1>2. \A r \in Requests : Len(gw.conn[r].messages) <= Cardinality(Requests)
  <2> SUFFICES ASSUME NEW r \in Requests, NEW m, m = gw.conn[r].messages
               PROVE  Len(m) <= Cardinality(Requests)
    OBVIOUS
  <2>1. m \in Seq(Requests)
    BY <1>1, ConnectionFields
  <2>2. \A i \in DOMAIN m, j \in DOMAIN m : m[i] = m[j] => i = j
    BY DEF GatewayInv, NoneTwice
  <2>3. m \in Injection(1..Len(m), Requests)
    <3>1. m \in [1..Len(m) -> Requests]
      BY <2>1
    <3>2. IsInjective(m)
      BY <2>2 DEF IsInjective
    <3> QED BY <3>1, <3>2 DEF Injection
  <2>4. Cardinality(1..Len(m)) <= Cardinality(Requests)
    BY <2>3, GatewayAssumption, FS_Injection
  <2>5. Cardinality(1..Len(m)) = Len(m)
    BY <2>1, FS_Interval
  <2> QED BY <2>4, <2>5
<1>3. \A g \in Answers!Starts : gw.active[g] \in 0..Cardinality(Requests)
  <2> SUFFICES ASSUME NEW g \in Answers!Starts PROVE Cardinality(Served(g)) \in 0..Cardinality(Requests)
    BY DEF GatewayInv, ServedCounted
  <2>1. Served(g) \in SUBSET Requests
    BY DEF Served
  <2>2. IsFiniteSet(Served(g)) /\ Cardinality(Served(g)) <= Cardinality(Requests)
    BY <2>1, GatewayAssumption, FS_Subset
  <2> QED BY <2>2, GatewayAssumption, FS_CardinalityType
<1>4. Answers!TypeOK
  <2>1. \A r \in Requests :
          /\ gw.conn[r].pc \in Answers!Pcs /\ gw.conn[r].of \in 0..MaxStarts
          /\ gw.conn[r].previous \in Requests \cup {NoRequest}
    BY <1>1, ConnectionFields
  <2> QED BY <1>1, <1>2, <1>3, <2>1, AnswersCardinality DEF Answers!TypeOK
<1>5. Answers!Continues
  <2> SUFFICES ASSUME NEW g \in Answers!Starts, NEW r \in gw.stored[g]
               PROVE  LET earlier == gw.conn[r].previous IN
                      /\ gw.conn[r].messages =
                           IF earlier = NoRequest THEN <<r>> ELSE Append(gw.conn[earlier].messages, r)
                      /\ earlier # NoRequest => gw.conn[earlier].of = g /\ gw.conn[earlier].pc \in {"telling", "done"}
    BY DEF Answers!Continues, Answers!Conn, Answers!At
  <2>1. r \in Requests
    BY <1>1
  <2>2. Continued(r) /\ gw.conn[r].of = g
    BY <2>1 DEF GatewayInv, ToldAll, KeptAnswers
  <2> QED BY <2>2 DEF Continued, Past
<1>6. Answers!StoreHolds
  <2>1. \A g \in Answers!Starts : Cardinality(gw.stored[g]) <= MAX_RESPONSES
    BY DEF GatewayInv, LimitKept
  <2>2. \A g \in Answers!Starts : gw.stored[g] \cap gw.deleted = {}
    BY <1>1 DEF GatewayInv, KeptAnswers
  <2> QED BY <2>1, <2>2, AnswersCardinality DEF Answers!StoreHolds
<1>7. Answers!ActiveIsCounted
  BY AnswersCardinality DEF GatewayInv, ServedCounted, Served, Answers!ActiveIsCounted, Answers!Conn
<1> QED BY <1>4, <1>5, <1>6, <1>7

-----------------------------------------------------------------------------
\* Conversations and their copies (chatHistory.ts).

LoadRecords == [at : {"none", "asked", "read"}, w : History!Workspaces \cup {History!None}]
HistoryTypes ==
  /\ open \in BOOLEAN /\ hydrated \in BOOLEAN /\ faults \in 0..MaxFaults /\ opens \in 0..MaxOpens
  /\ mem \in History!Workspaces \cup {History!None} /\ initial \in History!Workspaces \cup {History!None}
  /\ shown \in History!Versions /\ writes \in History!Versions /\ want \in [Threads -> History!Versions]
  /\ load \in LoadRecords
  /\ saves \in Seq(History!Workspaces) /\ Len(saves) <= MaxSaves
  /\ local \in History!Workspaces \cup {History!None} /\ indexed \in History!Workspaces \cup {History!None}
  /\ own \in History!Workspaces \cup {History!None} /\ legacy \in History!Workspaces \cup {History!None}
  /\ wipe \in {"no", "adapter", "own", "done"}

\* What belongs to the window is there as long as it is open.
WindowHas ==
  /\ open => mem \in History!Workspaces /\ initial \in History!Workspaces
  /\ load.at # "none" => open /\ ~hydrated
  /\ load.at = "read" => load.w \in History!Workspaces
  /\ hydrated => open
  /\ saves # <<>> => hydrated

\* What is kept of a workspace whose active conversation is there.
Kept(w) ==
  [active |-> w.active,
   has |-> [t \in Threads |-> IF w.has[t] > 1 \/ (t = w.active /\ w.has[t] > 0) THEN w.has[t] ELSE 0]]
Settled(w) == w.has[w.active] > 0 /\ Kept(w) = w
\* A workspace has what the user wants.
Tracks(w) == \A t \in Threads : w.has[t] > 1 \/ want[t] > 1 => w.has[t] = want[t]
Source == IF indexed # History!None THEN indexed ELSE legacy

\* As long as nothing has failed: between two openings the source of the next one
\* has what the user wants; before hydration the window has begun with that source;
\* and after it the newest save, or the source once there is none, is the workspace.
NothingFailed ==
  /\ wipe = "no" /\ own = History!None
  /\ ~hydrated => Source \in History!Workspaces /\ Settled(Source)
  /\ ~open => local = indexed /\ Tracks(Source)
  /\ open => Tracks(mem) /\ shown = mem.has[mem.active] /\ shown > 0
  /\ open /\ ~hydrated => initial = Source /\ load.at \in {"asked", "read"}
  /\ load.at = "asked" => local = indexed
  /\ load.at = "read" => load.w = initial
  /\ hydrated => local = Kept(mem)
  /\ hydrated /\ saves = <<>> => indexed = Kept(mem)
  /\ hydrated /\ saves # <<>> => saves[Len(saves)] = Kept(mem)

HistoryInv == HistoryTypes /\ WindowHas /\ (faults = 0 => NothingFailed)

\* What workspaces are, what is kept of one, and that keeping it again changes nothing.
LEMMA WorkspaceFields ==
  ASSUME NEW w \in History!Workspaces
  PROVE  w.active \in Threads /\ w.has \in [Threads -> History!Versions] /\ w.has[w.active] \in History!Versions
<1>1. w.active \in Threads /\ w.has \in [Threads -> History!Versions]
  BY Zenon DEF History!Workspaces
<1> QED BY <1>1

LEMMA VersionsAre == \A v \in History!Versions : v \in Nat
BY DEF History!Versions

LEMMA SomeVersions == 0 \in History!Versions /\ 1 \in History!Versions /\ 2 \in History!Versions
BY HistoryAssumption DEF History!Versions

LEMMA WorkspaceMade ==
  ASSUME NEW a \in Threads, NEW h \in [Threads -> History!Versions]
  PROVE  LET w == [active |-> a, has |-> h] IN w \in History!Workspaces /\ w.active = a /\ w.has = h
BY DEF History!Workspaces

LEMMA NoneIsNot == History!None \notin History!Workspaces /\ History!None.active = NoThread
BY HistoryAssumption DEF History!Workspaces, History!None

LEMMA SameWorkspace ==
  ASSUME NEW v \in History!Workspaces, NEW w \in History!Workspaces, v.active = w.active,
         \A t \in Threads : v.has[t] = w.has[t]
  PROVE  v = w
<1>1. v.has = w.has
  BY WorkspaceFields
<1>2. v = [active |-> v.active, has |-> v.has] /\ w = [active |-> w.active, has |-> w.has]
  BY DEF History!Workspaces
<1> QED BY <1>1, <1>2

LEMMA KeptTyped ==
  ASSUME NEW w \in History!Workspaces
  PROVE  /\ Kept(w) \in History!Workspaces /\ Kept(w).active = w.active
         /\ \A t \in Threads : Kept(w).has[t] = IF w.has[t] > 1 \/ (t = w.active /\ w.has[t] > 0) THEN w.has[t]
                                                ELSE 0
<1> DEFINE h == [t \in Threads |-> IF w.has[t] > 1 \/ (t = w.active /\ w.has[t] > 0) THEN w.has[t] ELSE 0]
<1>1. h \in [Threads -> History!Versions]
  BY WorkspaceFields, SomeVersions
<1>2. Kept(w) = [active |-> w.active, has |-> h]
  BY DEF Kept
<1>3. \A t \in Threads : h[t] = IF w.has[t] > 1 \/ (t = w.active /\ w.has[t] > 0) THEN w.has[t] ELSE 0
  OBVIOUS
<1> HIDE DEF h
<1> QED BY <1>1, <1>2, <1>3, WorkspaceFields, WorkspaceMade

LEMMA KeptSettled ==
  ASSUME NEW w \in History!Workspaces, w.has[w.active] > 0
  PROVE  Settled(Kept(w))
<1> DEFINE k == Kept(w)
<1>1. k \in History!Workspaces /\ k.active = w.active
      /\ \A t \in Threads : k.has[t] = IF w.has[t] > 1 \/ (t = w.active /\ w.has[t] > 0) THEN w.has[t] ELSE 0
  BY KeptTyped
<1>2. w.active \in Threads /\ w.has \in [Threads -> History!Versions]
  BY WorkspaceFields
<1> HIDE DEF k
<1>3. /\ Kept(k) \in History!Workspaces /\ Kept(k).active = k.active
      /\ \A t \in Threads : Kept(k).has[t] = IF k.has[t] > 1 \/ (t = k.active /\ k.has[t] > 0) THEN k.has[t]
                                             ELSE 0
  BY <1>1, KeptTyped
<1>4. k.has[k.active] > 0
  BY <1>1, <1>2
<1>5. \A t \in Threads : Kept(k).has[t] = k.has[t]
  BY <1>1, <1>3
<1>6. Kept(k) = k
  BY <1>1, <1>3, <1>5, SameWorkspace
<1> QED BY <1>4, <1>6 DEF Settled, k

LEMMA KeptTracks ==
  ASSUME NEW w \in History!Workspaces, Tracks(w), want \in [Threads -> History!Versions]
  PROVE  Tracks(Kept(w))
<1>1. \A t \in Threads : Kept(w).has[t] = IF w.has[t] > 1 \/ (t = w.active /\ w.has[t] > 0) THEN w.has[t] ELSE 0
  BY KeptTyped
<1>2. \A t \in Threads : want[t] \in Nat /\ w.has[t] \in Nat
  BY VersionsAre, WorkspaceFields
<1> QED BY <1>1, <1>2 DEF Tracks

LEMMA PersistedIs ==
  ASSUME NEW w \in History!Workspaces, w.has[w.active] > 0
  PROVE  History!Persisted(w) = {Kept(w)}
<1>1. w.active \in Threads /\ w.has \in [Threads -> History!Versions]
  BY WorkspaceFields
<1>2. \A t \in Threads : w.has[t] \in Nat
  BY <1>1, VersionsAre
<1> DEFINE kept == {t \in History!There(w) : w.has[t] > 1 \/ t = w.active}
           h == [t \in Threads |-> IF t \in kept THEN w.has[t] ELSE 0]
           g == [t \in Threads |-> IF w.has[t] > 1 \/ (t = w.active /\ w.has[t] > 0) THEN w.has[t] ELSE 0]
<1>3. w.active \in kept
  BY <1>1 DEF History!There
<1>4. \A t \in Threads : t \in kept <=> w.has[t] > 1 \/ (t = w.active /\ w.has[t] > 0)
  BY <1>2 DEF History!There
<1>5. h = g
  BY <1>4
<1>6. History!Persisted(w) = {[active |-> w.active, has |-> h]}
  BY <1>3 DEF History!Persisted
<1> QED BY <1>5, <1>6 DEF Kept

LEMMA PersistedTyped ==
  ASSUME NEW w \in History!Workspaces, NEW p \in History!Persisted(w)
  PROVE  p \in History!Workspaces
<1> DEFINE kept == {t \in History!There(w) : w.has[t] > 1 \/ t = w.active}
           Only(ts, a) == [active |-> a, has |-> [t \in Threads |-> IF t \in ts THEN w.has[t] ELSE 0]]
<1>1. w.active \in Threads /\ w.has \in [Threads -> History!Versions] /\ 0 \in History!Versions
  BY WorkspaceFields, SomeVersions
<1>2. ASSUME NEW ts, NEW a \in Threads PROVE Only(ts, a) \in History!Workspaces
  <2>1. [t \in Threads |-> IF t \in ts THEN w.has[t] ELSE 0] \in [Threads -> History!Versions]
    BY <1>1
  <2> QED BY <2>1, WorkspaceMade
<1>3. kept \subseteq Threads /\ History!There(w) \subseteq Threads
  BY DEF History!There
<1>4. \/ p = Only(kept, w.active)
      \/ \E a \in kept : p = Only(kept, a)
      \/ \E a \in History!There(w) : p = Only({a}, a)
  BY DEF History!Persisted
<1> HIDE DEF kept, Only
<1> QED BY <1>1, <1>2, <1>3, <1>4

\* A workspace with another text, another active conversation, or another set of texts.
LEMMA Texted ==
  ASSUME NEW w \in History!Workspaces, NEW a \in Threads, NEW v \in History!Versions
  PROVE  LET u == [w EXCEPT !.has[a] = v] IN
         /\ u \in History!Workspaces /\ u.active = w.active
         /\ \A t \in Threads : u.has[t] = IF t = a THEN v ELSE w.has[t]
<1> DEFINE h == [w.has EXCEPT ![a] = v]
           u == [w EXCEPT !.has[a] = v]
<1>1. w.active \in Threads /\ w.has \in [Threads -> History!Versions]
  BY WorkspaceFields
<1>2. h \in [Threads -> History!Versions] /\ \A t \in Threads : h[t] = IF t = a THEN v ELSE w.has[t]
  BY <1>1
<1>3. u = [w EXCEPT !.has = h]
  BY Zenon
<1> HIDE DEF h
<1>4. u \in History!Workspaces /\ u.active = w.active /\ u.has = h
  BY <1>2, <1>3, Zenon DEF History!Workspaces
<1> QED BY <1>2, <1>4

LEMMA Activated ==
  ASSUME NEW w \in History!Workspaces, NEW a \in Threads
  PROVE  LET u == [w EXCEPT !.active = a] IN
         u \in History!Workspaces /\ u.active = a /\ u.has = w.has
BY Zenon DEF History!Workspaces

LEMMA EffectsTyped ==
  ASSUME HistoryTypes, NEW w \in History!Workspaces, NEW text \in History!Versions, History!Effects(w, text)
  PROVE  /\ mem' \in History!Workspaces /\ shown' \in History!Versions
         /\ saves' \in Seq(History!Workspaces) /\ Len(saves') <= MaxSaves
         /\ local' \in History!Workspaces \cup {History!None} /\ faults' \in 0..MaxFaults
         /\ faults' = 0 => faults = 0
         /\ ~hydrated' /\ saves = <<>> => saves' = <<>>
<1> DEFINE stored == IF w.active \in History!There(w) THEN [w EXCEPT !.has[w.active] = text] ELSE w
<1>1. stored \in History!Workspaces
  <2>1. w.active \in Threads
    BY WorkspaceFields
  <2>2. [w EXCEPT !.has[w.active] = text] \in History!Workspaces
    BY <2>1, Texted
  <2> QED BY <2>2
<1>2. mem' = stored /\ shown' = text
  BY DEF History!Effects
<1>3. \/ /\ hydrated' /\ Len(saves) < MaxSaves
         /\ \E p \in History!Persisted(stored) :
              /\ saves' = Append(saves, p)
              /\ \/ local' = p /\ UNCHANGED faults
                 \/ local' = local /\ History!Fault
      \/ UNCHANGED <<saves, local, faults>>
  BY DEF History!Effects
<1> HIDE DEF stored
<1>4. CASE UNCHANGED <<saves, local, faults>>
  BY <1>1, <1>2, <1>4 DEF HistoryTypes
<1>5. ASSUME hydrated', Len(saves) < MaxSaves, NEW p \in History!Persisted(stored),
             saves' = Append(saves, p),
             \/ local' = p /\ UNCHANGED faults
             \/ local' = local /\ History!Fault
      PROVE  /\ saves' \in Seq(History!Workspaces) /\ Len(saves') <= MaxSaves
             /\ local' \in History!Workspaces \cup {History!None} /\ faults' \in 0..MaxFaults
             /\ faults' = 0 => faults = 0
  <2>1. p \in History!Workspaces
    BY <1>1, PersistedTyped
  <2>2. saves' \in Seq(History!Workspaces) /\ Len(saves') <= MaxSaves
    BY <1>5, <2>1, HistoryAssumption DEF HistoryTypes
  <2>3. local' \in History!Workspaces \cup {History!None}
    BY <1>5, <2>1 DEF HistoryTypes
  <2>4. faults' \in 0..MaxFaults /\ (faults' = 0 => faults = 0)
    BY <1>5, HistoryAssumption DEF HistoryTypes, History!Fault
  <2> QED BY <2>2, <2>3, <2>4
<1> QED BY <1>1, <1>2, <1>3, <1>4, <1>5

\* ... and when nothing fails.
LEMMA EffectsQuiet ==
  ASSUME HistoryTypes, NEW w \in History!Workspaces, NEW text \in History!Versions, History!Effects(w, text),
         faults' = 0, w.has[w.active] > 0, text > 0
  PROVE  /\ mem' \in History!Workspaces /\ mem'.active = w.active /\ shown' = text
         /\ \A t \in Threads : mem'.has[t] = IF t = w.active THEN text ELSE w.has[t]
         /\ shown' = mem'.has[mem'.active] /\ shown' > 0
         /\ hydrated' => saves' = Append(saves, Kept(mem')) /\ local' = Kept(mem')
         /\ ~hydrated' => UNCHANGED <<saves, local>>
<1> DEFINE stored == [w EXCEPT !.has[w.active] = text]
<1>1. w.active \in Threads /\ w.active \in History!There(w)
  BY WorkspaceFields DEF History!There
<1>2. stored \in History!Workspaces /\ stored.active = w.active
      /\ \A t \in Threads : stored.has[t] = IF t = w.active THEN text ELSE w.has[t]
  BY <1>1, Texted
<1>3. mem' = stored /\ shown' = text
  BY <1>1 DEF History!Effects
<1>4. \/ /\ hydrated' /\ Len(saves) < MaxSaves
         /\ \E p \in History!Persisted(stored) :
              /\ saves' = Append(saves, p)
              /\ \/ local' = p /\ UNCHANGED faults
                 \/ local' = local /\ History!Fault
      \/ /\ ~hydrated' \/ History!There(stored) = {}
         /\ UNCHANGED <<saves, local, faults>>
  BY <1>1 DEF History!Effects
<1> HIDE DEF stored
<1>5. stored.has[stored.active] > 0 /\ History!There(stored) # {}
  BY <1>1, <1>2 DEF History!There
<1>6. History!Persisted(stored) = {Kept(stored)}
  BY <1>2, <1>5, PersistedIs
<1>7. ~History!Fault
  BY DEF HistoryTypes, History!Fault
<1>8. hydrated' => saves' = Append(saves, Kept(mem')) /\ local' = Kept(mem')
  BY <1>3, <1>4, <1>5, <1>6, <1>7
<1>9. ~hydrated' => UNCHANGED <<saves, local>>
  BY <1>4
<1> QED BY <1>1, <1>2, <1>3, <1>8, <1>9

\* The user works: nothing but the workspace, its copies and the saves change.
LEMMA UserIsSafe ==
  ASSUME HistoryInv, NEW w \in History!Workspaces, NEW text \in History!Versions,
         History!UserStep(w, text), want' \in [Threads -> History!Versions], writes' \in History!Versions,
         faults' = 0 => w.has[w.active] > 0 /\ text > 0 /\ Tracks(mem)'
  PROVE  HistoryInv'
<1>1. /\ open /\ open' = open /\ initial' = initial /\ hydrated' = hydrated
      /\ History!Effects(w, text)
      /\ load' = load /\ indexed' = indexed /\ own' = own /\ legacy' = legacy /\ wipe' = wipe /\ opens' = opens
  BY DEF History!UserStep
<1>2. /\ mem' \in History!Workspaces /\ shown' \in History!Versions
      /\ saves' \in Seq(History!Workspaces) /\ Len(saves') <= MaxSaves
      /\ local' \in History!Workspaces \cup {History!None} /\ faults' \in 0..MaxFaults
      /\ faults' = 0 => faults = 0
      /\ ~hydrated' /\ saves = <<>> => saves' = <<>>
  BY <1>1, EffectsTyped DEF HistoryInv
<1>3. HistoryTypes'
  BY <1>1, <1>2 DEF HistoryInv, HistoryTypes
<1>4. WindowHas'
  BY <1>1, <1>2 DEF HistoryInv, WindowHas
<1>5. ASSUME faults' = 0 PROVE NothingFailed'
  <2>1. NothingFailed /\ HistoryTypes /\ WindowHas
    BY <1>2, <1>5 DEF HistoryInv
  <2>2. /\ shown' = mem'.has[mem'.active] /\ shown' > 0
        /\ hydrated' => saves' = Append(saves, Kept(mem')) /\ local' = Kept(mem')
        /\ ~hydrated' => UNCHANGED <<saves, local>>
    BY <1>1, <1>5, <2>1, EffectsQuiet
  <2>3. hydrated' => saves' # <<>> /\ saves'[Len(saves')] = Kept(mem')
    BY <2>1, <2>2 DEF HistoryTypes
  <2>4. Source' = Source
    BY <1>1 DEF Source
  <2>5. ~hydrated' => Source' \in History!Workspaces /\ Settled(Source')
    BY <1>1, <2>1, <2>4 DEF NothingFailed
  <2>6. /\ open' /\ ~hydrated' => initial' = Source' /\ load'.at \in {"asked", "read"}
        /\ load'.at = "asked" => local' = indexed'
        /\ load'.at = "read" => load'.w = initial'
    BY <1>1, <2>1, <2>2, <2>4 DEF NothingFailed, WindowHas
  <2>7. wipe' = "no" /\ own' = History!None /\ open' /\ Tracks(mem)'
    BY <1>1, <1>5, <2>1 DEF NothingFailed
  <2> QED BY <2>2, <2>3, <2>5, <2>6, <2>7 DEF NothingFailed
<1> QED BY <1>3, <1>4, <1>5 DEF HistoryInv

\* While the window is open, the workspace and what is on screen are there.
LEMMA WindowFields ==
  ASSUME HistoryInv, open
  PROVE  /\ mem \in History!Workspaces /\ mem.active \in Threads /\ mem.has \in [Threads -> History!Versions]
         /\ shown \in History!Versions /\ want \in [Threads -> History!Versions]
         /\ \A t \in Threads : mem.has[t] \in Nat /\ want[t] \in Nat
         /\ faults = 0 => Tracks(mem) /\ shown = mem.has[mem.active] /\ shown > 0
<1>1. mem \in History!Workspaces /\ shown \in History!Versions /\ want \in [Threads -> History!Versions]
  BY DEF HistoryInv, HistoryTypes, WindowHas
<1>2. faults = 0 => Tracks(mem) /\ shown = mem.has[mem.active] /\ shown > 0
  BY DEF HistoryInv, NothingFailed
<1> QED BY <1>1, <1>2, WorkspaceFields, VersionsAre

\* A step of the user that fails nothing leaves the workspace w with the given text.
LEMMA UserLeaves ==
  ASSUME HistoryInv, NEW w \in History!Workspaces, NEW text \in History!Versions, History!UserStep(w, text),
         faults' = 0, w.has[w.active] > 0, text > 0
  PROVE  faults = 0 /\ \A t \in Threads : mem'.has[t] = IF t = w.active THEN text ELSE w.has[t]
<1>1. HistoryTypes /\ History!Effects(w, text)
  BY DEF HistoryInv, History!UserStep
<1>2. faults = 0
  BY <1>1, EffectsTyped
<1> QED BY <1>1, <1>2, EffectsQuiet

LEMMA WritesKeepsHistoryInv == HistoryInv /\ History!Writes => HistoryInv'
<1> SUFFICES ASSUME HistoryInv, History!Writes PROVE HistoryInv' OBVIOUS
<1> DEFINE n == writes + 1
<1>1. /\ open /\ History!UserStep(mem, n) /\ want' = [want EXCEPT ![mem.active] = n] /\ writes' = n
      /\ n \in History!Versions /\ n > 0
  <2>1. writes < MaxWrites + 2 /\ writes \in 0..(MaxWrites + 2)
    BY DEF HistoryInv, HistoryTypes, History!Writes, History!Versions
  <2> QED BY <2>1, HistoryAssumption DEF History!Writes, History!UserStep, History!Versions
<1> HIDE DEF n
<1>2. /\ mem \in History!Workspaces /\ mem.active \in Threads /\ mem.has \in [Threads -> History!Versions]
      /\ want \in [Threads -> History!Versions]
      /\ faults = 0 => Tracks(mem) /\ mem.has[mem.active] > 0
  BY <1>1, WindowFields
<1>3. want' \in [Threads -> History!Versions] /\ \A t \in Threads : want'[t] = IF t = mem.active THEN n ELSE want[t]
  BY <1>1, <1>2
<1>4. HistoryTypes /\ (faults' = 0 => faults = 0)
  BY <1>1, <1>2, EffectsTyped DEF HistoryInv, History!UserStep
<1>5. ASSUME faults' = 0 PROVE mem.has[mem.active] > 0 /\ n > 0 /\ Tracks(mem)'
  <2>1. faults = 0 /\ Tracks(mem) /\ mem.has[mem.active] > 0 /\ n > 0
    BY <1>1, <1>2, <1>4, <1>5, VersionsAre
  <2>2. \A t \in Threads : mem'.has[t] = IF t = mem.active THEN n ELSE mem.has[t]
    BY <1>1, <1>2, <1>5, <2>1, UserLeaves
  <2> QED BY <1>3, <2>1, <2>2 DEF Tracks
<1> QED BY <1>1, <1>2, <1>3, <1>5, UserIsSafe

LEMMA SelectsKeepsHistoryInv == HistoryInv /\ History!Selects => HistoryInv'
<1> SUFFICES ASSUME HistoryInv, History!Selects PROVE HistoryInv' OBVIOUS
<1>1. PICK t \in History!There(mem) :
        History!UserStep([mem EXCEPT !.active = t], mem.has[t]) /\ UNCHANGED <<writes, want>>
  BY DEF History!Selects
<1> DEFINE w == [mem EXCEPT !.active = t]
           text == mem.has[t]
<1>2. open /\ t \in Threads /\ text > 0
  BY <1>1 DEF History!There, History!UserStep
<1>3. /\ mem \in History!Workspaces /\ mem.has \in [Threads -> History!Versions]
      /\ want \in [Threads -> History!Versions] /\ writes \in History!Versions
      /\ faults = 0 => Tracks(mem)
  BY <1>2, WindowFields DEF HistoryInv, HistoryTypes
<1>4. w \in History!Workspaces /\ w.active = t /\ w.has = mem.has /\ text \in History!Versions
  BY <1>2, <1>3, Activated
<1>5. History!UserStep(w, text) /\ w.has[w.active] > 0 /\ text = mem.has[t]
  BY <1>1, <1>2, <1>4
<1> HIDE DEF w, text
<1>6. ASSUME faults' = 0 PROVE Tracks(mem)'
  <2>1. faults = 0 /\ \A u \in Threads : mem'.has[u] = IF u = t THEN text ELSE mem.has[u]
    BY <1>2, <1>4, <1>5, <1>6, UserLeaves
  <2> QED BY <1>1, <1>3, <1>5, <2>1 DEF Tracks
<1> QED BY <1>1, <1>2, <1>3, <1>4, <1>5, <1>6, UserIsSafe

LEMMA NewsKeepsHistoryInv == HistoryInv /\ History!News => HistoryInv'
<1> SUFFICES ASSUME HistoryInv, History!News PROVE HistoryInv' OBVIOUS
<1>1. PICK t \in History!Unused :
        /\ History!UserStep([active |-> t, has |-> [mem.has EXCEPT ![t] = 1]], 1)
        /\ UNCHANGED <<writes, want>>
  BY DEF History!News
<1> DEFINE h == [mem.has EXCEPT ![t] = 1]
           w == [active |-> t, has |-> h]
<1>2. open /\ t \in Threads /\ mem.has[t] = 0
  BY <1>1 DEF History!Unused, History!UserStep
<1>3. /\ mem \in History!Workspaces /\ mem.has \in [Threads -> History!Versions]
      /\ want \in [Threads -> History!Versions] /\ writes \in History!Versions
      /\ faults = 0 => Tracks(mem)
      /\ \A u \in Threads : want[u] \in Nat
  BY <1>2, WindowFields DEF HistoryInv, HistoryTypes
<1>4. h \in [Threads -> History!Versions] /\ h[t] = 1 /\ \A u \in Threads : u # t => h[u] = mem.has[u]
  BY <1>2, <1>3, SomeVersions
<1>5. History!UserStep(w, 1)
  BY <1>1
<1> HIDE DEF h
<1>6. w \in History!Workspaces /\ w.active = t /\ w.has = h /\ w.has[w.active] > 0
  BY <1>2, <1>4, WorkspaceMade
<1> HIDE DEF w
<1>7. ASSUME faults' = 0 PROVE Tracks(mem)'
  <2>1. faults = 0 /\ \A u \in Threads : mem'.has[u] = IF u = t THEN 1 ELSE h[u]
    BY <1>2, <1>5, <1>6, <1>7, SomeVersions, UserLeaves
  <2>2. ~(want[t] > 1)
    BY <1>2, <1>3, <2>1 DEF Tracks
  <2> QED BY <1>1, <1>3, <1>4, <2>1, <2>2 DEF Tracks
<1> QED BY <1>1, <1>2, <1>3, <1>5, <1>6, <1>7, SomeVersions, UserIsSafe

LEMMA DeletesKeepsHistoryInv == HistoryInv /\ History!Deletes => HistoryInv'
<1> SUFFICES ASSUME HistoryInv, History!Deletes PROVE HistoryInv' OBVIOUS
<1>1. PICK t \in History!There(mem) :
        LET left == [mem EXCEPT !.has[t] = 0] IN
        /\ \/ t # mem.active /\ History!UserStep(left, shown)
           \/ /\ t = mem.active
              /\ \E r \in History!There(left) : History!UserStep([left EXCEPT !.active = r], mem.has[r])
           \/ /\ History!There(left) = {}
              /\ \E r \in History!Unused : History!UserStep(History!Default(r), 1)
        /\ want' = [want EXCEPT ![t] = 0] /\ UNCHANGED writes
  BY DEF History!Deletes
<1> DEFINE left == [mem EXCEPT !.has[t] = 0]
<1>2. open /\ t \in Threads
  BY <1>1 DEF History!There, History!UserStep
<1>3. /\ mem \in History!Workspaces /\ mem.has \in [Threads -> History!Versions] /\ mem.active \in Threads
      /\ want \in [Threads -> History!Versions] /\ writes \in History!Versions
      /\ shown \in History!Versions
      /\ faults = 0 => Tracks(mem) /\ shown = mem.has[mem.active] /\ shown > 0
      /\ \A u \in Threads : want[u] \in Nat /\ mem.has[u] \in Nat
  BY <1>2, WindowFields DEF HistoryInv, HistoryTypes
<1>4. left \in History!Workspaces /\ left.active = mem.active
      /\ \A u \in Threads : left.has[u] = IF u = t THEN 0 ELSE mem.has[u]
  BY <1>2, <1>3, SomeVersions, Texted
<1>5. /\ want' \in [Threads -> History!Versions] /\ writes' = writes
      /\ \A u \in Threads : want'[u] = IF u = t THEN 0 ELSE want[u]
  BY <1>1, <1>2, <1>3, SomeVersions
<1>6. \/ t # mem.active /\ History!UserStep(left, shown)
      \/ /\ t = mem.active
         /\ \E r \in History!There(left) : History!UserStep([left EXCEPT !.active = r], mem.has[r])
      \/ /\ History!There(left) = {}
         /\ \E r \in History!Unused : History!UserStep(History!Default(r), 1)
  BY <1>1
<1> HIDE DEF left
<1>7. CASE t # mem.active /\ History!UserStep(left, shown)
  <2>1. HistoryTypes /\ (faults' = 0 => faults = 0)
    BY <1>3, <1>4, <1>7, EffectsTyped DEF HistoryInv, History!UserStep
  <2>2. faults' = 0 => left.has[left.active] > 0 /\ shown > 0
    BY <1>3, <1>4, <1>7, <2>1
  <2>3. ASSUME faults' = 0 PROVE Tracks(mem)'
    <3>1. faults = 0 /\ \A u \in Threads : mem'.has[u] = IF u = left.active THEN shown ELSE left.has[u]
      BY <1>3, <1>4, <1>7, <2>2, <2>3, UserLeaves
    <3> QED BY <1>3, <1>4, <1>5, <1>7, <3>1 DEF Tracks
  <2> QED BY <1>3, <1>4, <1>5, <1>7, <2>2, <2>3, UserIsSafe
<1>8. ASSUME t = mem.active, NEW r \in History!There(left),
             History!UserStep([left EXCEPT !.active = r], mem.has[r])
      PROVE  HistoryInv'
  <2> DEFINE w == [left EXCEPT !.active = r]
             text == mem.has[r]
  <2>1. r \in Threads /\ r # t /\ text > 0 /\ left.has[r] = text
    BY <1>4 DEF History!There
  <2>2. w \in History!Workspaces /\ w.active = r /\ w.has = left.has /\ text \in History!Versions
    BY <1>3, <1>4, <2>1, Activated
  <2>3. History!UserStep(w, text) /\ w.has[w.active] > 0 /\ text = mem.has[r]
    BY <1>8, <2>1, <2>2
  <2> HIDE DEF w, text
  <2>4. ASSUME faults' = 0 PROVE Tracks(mem)'
    <3>1. faults = 0 /\ \A u \in Threads : mem'.has[u] = IF u = r THEN text ELSE left.has[u]
      BY <2>1, <2>2, <2>3, <2>4, UserLeaves
    <3> QED BY <1>3, <1>4, <1>5, <2>1, <3>1 DEF Tracks
  <2> QED BY <1>3, <1>5, <2>1, <2>2, <2>3, <2>4, UserIsSafe
<1>9. ASSUME History!There(left) = {}, NEW r \in History!Unused, History!UserStep(History!Default(r), 1)
      PROVE  HistoryInv'
  <2> DEFINE h == [u \in Threads |-> IF u = r THEN 1 ELSE 0]
             w == [active |-> r, has |-> h]
  <2>1. r \in Threads /\ mem.has[r] = 0
    BY DEF History!Unused
  <2>2. h \in [Threads -> History!Versions] /\ h[r] = 1 /\ \A u \in Threads : u # r => h[u] = 0
    BY <2>1, SomeVersions
  <2>3. History!UserStep(w, 1)
    BY <1>9 DEF History!Default
  <2> HIDE DEF h
  <2>4. w \in History!Workspaces /\ w.active = r /\ w.has = h /\ w.has[w.active] > 0
    BY <2>1, <2>2, WorkspaceMade
  <2> HIDE DEF w
  <2>5. ASSUME faults' = 0 PROVE Tracks(mem)'
    <3>1. faults = 0 /\ \A u \in Threads : mem'.has[u] = IF u = r THEN 1 ELSE h[u]
      BY <2>1, <2>3, <2>4, <2>5, SomeVersions, UserLeaves
    <3>2. \A u \in Threads : u # t => mem.has[u] = 0
      BY <1>3, <1>4, <1>9 DEF History!There
    <3>3. \A u \in Threads : ~(want'[u] > 1)
      BY <1>3, <1>5, <3>1, <3>2 DEF Tracks
    <3> QED BY <2>2, <3>1, <3>3 DEF Tracks
  <2> QED BY <1>3, <1>5, <2>1, <2>3, <2>4, <2>5, SomeVersions, UserIsSafe
<1> QED BY <1>6, <1>7, <1>8, <1>9

LEMMA SavedKeepsHistoryInv == HistoryInv /\ History!Saved => HistoryInv'
<1> SUFFICES ASSUME HistoryInv, History!Saved PROVE HistoryInv' OBVIOUS
<1>1. /\ saves \in Seq(History!Workspaces) /\ saves # <<>> /\ saves' = Tail(saves) /\ Len(saves) <= MaxSaves
      /\ hydrated /\ open
      /\ UNCHANGED <<open, mem, shown, initial, hydrated, load, legacy, wipe, opens, writes, want>>
  BY DEF HistoryInv, HistoryTypes, WindowHas, History!Saved, History!memory
<1>2. /\ Head(saves) \in History!Workspaces /\ saves' \in Seq(History!Workspaces) /\ Len(saves') <= MaxSaves
      /\ saves' = <<>> => Head(saves) = saves[Len(saves)]
      /\ saves' # <<>> => saves'[Len(saves')] = saves[Len(saves)]
  <2>1. /\ Len(saves) \in Nat /\ Len(saves) # 0
        /\ Tail(saves) \in Seq(History!Workspaces) /\ Len(Tail(saves)) = Len(saves) - 1
        /\ Head(saves) = saves[1] /\ saves[1] \in History!Workspaces
    BY <1>1
  <2>2. \A i \in 1..(Len(saves) - 1) : Tail(saves)[i] = saves[i + 1]
    BY <1>1
  <2>3. saves' = <<>> => Len(saves) = 1
    <3>1. saves' \in Seq(History!Workspaces) /\ Len(saves') = Len(saves) - 1
      BY <1>1, <2>1
    <3>2. saves' = <<>> => Len(saves') = 0
      BY <3>1
    <3> DEFINE n == Len(saves)
               gone == (saves' = <<>>)
    <3>3. n \in Nat /\ (gone => n - 1 = 0)
      BY <2>1, <3>1, <3>2
    <3> HIDE DEF n, gone
    <3>4. gone => n = 1
      BY <3>3
    <3> QED BY <3>4 DEF n, gone
  <2>4. saves' # <<>> => Len(saves) - 1 \in 1..(Len(saves) - 1)
    BY <1>1, <2>1
  <2> QED BY <1>1, <2>1, <2>2, <2>3, <2>4, HistoryAssumption
<1>3. \/ indexed' = Head(saves) /\ UNCHANGED <<local, own, faults>>
      \/ local' = Head(saves) /\ History!Fault /\ UNCHANGED <<indexed, own>>
      \/ own' \in {Head(saves), own} /\ History!Fault /\ UNCHANGED <<indexed, local>>
  BY DEF History!Saved
<1>4. faults' \in 0..MaxFaults /\ (faults' = 0 => faults = 0 /\ ~History!Fault)
  BY <1>3, HistoryAssumption DEF HistoryInv, HistoryTypes, History!Fault
<1>5. HistoryTypes'
  BY <1>1, <1>2, <1>3, <1>4 DEF HistoryInv, HistoryTypes
<1>6. WindowHas'
  BY <1>1 DEF HistoryInv, WindowHas
<1>7. ASSUME faults' = 0 PROVE NothingFailed'
  <2>1. NothingFailed /\ indexed' = Head(saves) /\ UNCHANGED <<local, own>>
    BY <1>3, <1>4, <1>7 DEF HistoryInv
  <2> QED BY <1>1, <1>2, <2>1 DEF NothingFailed, Tracks, HistoryInv, WindowHas
<1> QED BY <1>5, <1>6, <1>7 DEF HistoryInv

LEMMA WipingKeepsHistoryInv ==
  ASSUME HistoryInv, History!WipeBegins \/ History!WipeAdapter \/ History!WipeOwn
  PROVE  HistoryInv'
<1>1. UNCHANGED <<open, mem, shown, initial, hydrated, load, saves, opens, writes, want>>
  BY DEF History!WipeBegins, History!WipeAdapter, History!WipeOwn, History!memory, History!ghosts
<1>2. /\ local' \in {local, History!None} /\ indexed' \in {indexed, History!None}
      /\ own' \in {own, History!None} /\ legacy' \in {legacy, History!None}
      /\ wipe' \in {"adapter", "own", "done"}
  BY DEF History!WipeBegins, History!WipeAdapter, History!WipeOwn
<1>3. faults' \in 0..MaxFaults /\ faults' # 0
  <2>1. CASE History!WipeBegins
    BY <2>1, HistoryAssumption DEF HistoryInv, HistoryTypes, History!WipeBegins, History!Fault
  <2>2. CASE History!WipeAdapter \/ History!WipeOwn
    <3>1. wipe # "no" /\ faults' = faults
      BY <2>2 DEF History!WipeAdapter, History!WipeOwn, History!ghosts
    <3> QED BY <3>1 DEF HistoryInv, HistoryTypes, NothingFailed
  <2> QED BY <2>1, <2>2
<1>4. HistoryTypes'
  BY <1>1, <1>2, <1>3 DEF HistoryInv, HistoryTypes
<1>5. WindowHas'
  BY <1>1 DEF HistoryInv, WindowHas
<1> QED BY <1>3, <1>4, <1>5 DEF HistoryInv

\* The load at the start of a window.
LEMMA LoadFields ==
  ASSUME NEW l \in LoadRecords
  PROVE  l.at \in {"none", "asked", "read"} /\ l.w \in History!Workspaces \cup {History!None}
BY Zenon DEF LoadRecords

LEMMA LoadMoves ==
  ASSUME NEW l \in LoadRecords, NEW at \in {"none", "asked", "read"}
  PROVE  LET m == [l EXCEPT !.at = at] IN m \in LoadRecords /\ m.at = at /\ m.w = l.w
BY Zenon DEF LoadRecords

LEMMA LoadEnds ==
  ASSUME NEW l \in LoadRecords, NEW m, m = [l EXCEPT !.at = "none", !.w = History!None]
  PROVE  m \in LoadRecords /\ m.at = "none"
BY Zenon DEF LoadRecords

\* What a workspace that is read from a source that is settled is.
LEMMA SettledIsRead ==
  ASSUME NEW s \in History!Workspaces, Settled(s), NEW w \in History!Persisted(s)
  PROVE  w = s
BY PersistedIs DEF Settled

LEMMA OpensKeepsHistoryInv == HistoryInv /\ History!Opens => HistoryInv'
<1> SUFFICES ASSUME HistoryInv, History!Opens PROVE HistoryInv' OBVIOUS
<1>1. /\ ~open /\ open' = TRUE /\ opens < MaxOpens /\ opens' = opens + 1 /\ hydrated' = FALSE
      /\ load' = [load EXCEPT !.at = "asked"]
      /\ UNCHANGED <<saves, local, indexed, own, legacy, wipe, writes, want, faults>>
  BY DEF History!Opens, History!copies, History!ghosts
<1>2. PICK w \in History!Workspaces :
        History!Loaded(w) /\ mem' = w /\ initial' = w /\ shown' = w.has[w.active]
  BY DEF History!Opens
<1>3. load' \in LoadRecords /\ load'.at = "asked"
  BY <1>1, LoadMoves DEF HistoryInv, HistoryTypes
<1>4. saves = <<>> /\ ~hydrated
  BY <1>1 DEF HistoryInv, WindowHas
<1>5. HistoryTypes'
  <2>1. shown' \in History!Versions
    BY <1>2, WorkspaceFields
  <2>2. opens' \in 0..MaxOpens
    BY <1>1, HistoryAssumption DEF HistoryInv, HistoryTypes
  <2> QED BY <1>1, <1>2, <1>3, <2>1, <2>2 DEF HistoryInv, HistoryTypes
<1>6. WindowHas'
  BY <1>1, <1>2, <1>3, <1>4 DEF WindowHas
<1>7. ASSUME faults' = 0 PROVE NothingFailed'
  <2>1. NothingFailed /\ Source \in History!Workspaces /\ Settled(Source) /\ local = indexed /\ Tracks(Source)
    BY <1>1, <1>4, <1>7 DEF HistoryInv, NothingFailed
  <2>2. w \in History!Persisted(Source)
    <3>1. CASE local # History!None
      BY <1>2, <2>1, <3>1 DEF History!Loaded, Source
    <3>2. CASE local = History!None
      BY <1>2, <2>1, <3>2, NoneIsNot DEF History!Loaded, Source
    <3> QED BY <3>1, <3>2
  <2>3. w = Source
    BY <2>1, <2>2, SettledIsRead
  <2>4. Source' = Source
    BY <1>1 DEF Source
  <2>5. Tracks(mem)'
    BY <1>1, <1>2, <2>1, <2>3 DEF Tracks
  <2>6. shown' > 0 /\ shown' = mem'.has[mem'.active]
    BY <1>2, <2>1, <2>3 DEF Settled
  <2>7. Source' \in History!Workspaces /\ Settled(Source')
    BY <2>1, <2>4
  <2>8. wipe' = "no" /\ own' = History!None /\ local' = indexed' /\ initial' = Source'
    BY <1>1, <1>2, <2>1, <2>3, <2>4 DEF NothingFailed
  <2> QED BY <1>1, <1>3, <2>5, <2>6, <2>7, <2>8 DEF NothingFailed
<1> QED BY <1>5, <1>6, <1>7 DEF HistoryInv

LEMMA LoadReadsKeepsHistoryInv == HistoryInv /\ History!LoadReads => HistoryInv'
<1> SUFFICES ASSUME HistoryInv, History!LoadReads PROVE HistoryInv' OBVIOUS
<1>1. /\ load.at = "asked" /\ open /\ ~hydrated
      /\ UNCHANGED <<open, mem, shown, initial, hydrated, saves, wipe, opens, writes, want>>
  BY DEF HistoryInv, WindowHas, History!LoadReads, History!memory
<1>2. PICK fails \in BOOLEAN, w \in History!Workspaces :
        LET adapter == IF fails \/ indexed = History!None THEN local ELSE indexed IN
        /\ IF fails THEN History!Fault ELSE UNCHANGED faults
        /\ load' = [at |-> "read", w |-> w]
        /\ \/ adapter # History!None /\ w \in History!Persisted(adapter) /\ UNCHANGED <<local, indexed, own, legacy>>
           \/ /\ adapter = History!None /\ legacy # History!None /\ w \in History!Persisted(legacy)
              /\ legacy' = History!None
              /\ IF fails THEN local' = w /\ UNCHANGED indexed ELSE indexed' = w /\ UNCHANGED local
              /\ UNCHANGED own
           \/ /\ adapter = History!None /\ legacy = History!None
              /\ UNCHANGED <<local, indexed, own, legacy>>
  BY DEF History!LoadReads, History!copies
<1>3. load' \in LoadRecords /\ load'.at = "read" /\ load'.w = w
  BY <1>2 DEF LoadRecords
<1>4. faults' \in 0..MaxFaults /\ (faults' = 0 => faults = 0 /\ ~fails)
  BY <1>2, HistoryAssumption DEF HistoryInv, HistoryTypes, History!Fault
<1>5. /\ local' \in {local, w} /\ indexed' \in {indexed, w} /\ own' = own
      /\ legacy' \in {legacy, History!None}
  BY <1>2
<1>6. HistoryTypes'
  BY <1>1, <1>3, <1>4, <1>5 DEF HistoryInv, HistoryTypes
<1>7. WindowHas'
  BY <1>1, <1>3 DEF HistoryInv, WindowHas
<1>8. ASSUME faults' = 0 PROVE NothingFailed'
  <2>1. NothingFailed /\ ~fails /\ Source \in History!Workspaces /\ Settled(Source) /\ local = indexed
        /\ initial = Source
    BY <1>1, <1>4, <1>8 DEF HistoryInv, NothingFailed
  <2>2. w = Source /\ Source' = Source
    <3>1. CASE indexed # History!None
      <4>1. w \in History!Persisted(indexed) /\ UNCHANGED <<local, indexed, own, legacy>>
        BY <1>2, <2>1, <3>1
      <4>2. Source = indexed /\ Source' = indexed
        BY <3>1, <4>1 DEF Source
      <4> QED BY <2>1, <4>1, <4>2, SettledIsRead
    <3>2. CASE indexed = History!None
      <4>1. Source = legacy /\ legacy # History!None
        BY <2>1, <3>2, NoneIsNot DEF Source
      <4>2. w \in History!Persisted(legacy) /\ indexed' = w
        BY <1>2, <2>1, <3>2, <4>1
      <4>3. w = Source
        BY <2>1, <4>1, <4>2, SettledIsRead
      <4> QED BY <2>1, <4>2, <4>3, NoneIsNot DEF Source
    <3> QED BY <3>1, <3>2
  <2>3. Source' \in History!Workspaces /\ Settled(Source') /\ initial' = Source'
    BY <1>1, <2>1, <2>2
  <2>4. /\ wipe' = "no" /\ own' = History!None /\ open' /\ ~hydrated'
        /\ shown' = mem'.has[mem'.active] /\ shown' > 0
    BY <1>1, <1>5, <2>1 DEF NothingFailed
  <2>5. Tracks(mem)'
    BY <1>1, <2>1 DEF NothingFailed, Tracks
  <2> QED BY <1>1, <1>3, <2>1, <2>2, <2>3, <2>4, <2>5 DEF NothingFailed
<1> QED BY <1>6, <1>7, <1>8 DEF HistoryInv

LEMMA ClosesKeepsHistoryInv == HistoryInv /\ History!Closes => HistoryInv'
<1> SUFFICES ASSUME HistoryInv, History!Closes PROVE HistoryInv' OBVIOUS
<1>1. /\ open /\ open' = FALSE /\ hydrated' = FALSE /\ saves' = <<>>
      /\ load' = [load EXCEPT !.at = "none", !.w = History!None]
      /\ mem' = History!None /\ initial' = History!None /\ shown' = 1
      /\ wipe' \in {wipe, "no"} /\ (wipe = "no" => wipe' = "no")
      /\ UNCHANGED <<local, indexed, own, legacy, opens, writes, want>>
      /\ IF saves = <<>> /\ (hydrated \/ mem = initial) /\ local = indexed THEN UNCHANGED faults
         ELSE History!Fault
  BY DEF History!Closes, History!copies
<1>2. load' \in LoadRecords /\ load'.at = "none"
  BY <1>1, LoadEnds DEF HistoryInv, HistoryTypes
<1>3. /\ faults' \in 0..MaxFaults
      /\ faults' = 0 => faults = 0 /\ saves = <<>> /\ (hydrated \/ mem = initial) /\ local = indexed
  BY <1>1, HistoryAssumption DEF HistoryInv, HistoryTypes, History!Fault
<1>4. HistoryTypes'
  <2>1. <<>> \in Seq(History!Workspaces) /\ Len(<<>>) = 0
    OBVIOUS
  <2>2. saves' \in Seq(History!Workspaces) /\ Len(saves') <= MaxSaves
    BY <1>1, <2>1, HistoryAssumption
  <2>3. wipe' \in {"no", "adapter", "own", "done"}
    BY <1>1 DEF HistoryInv, HistoryTypes
  <2> QED BY <1>1, <1>2, <1>3, <2>2, <2>3, SomeVersions DEF HistoryInv, HistoryTypes
<1>5. WindowHas'
  BY <1>1, <1>2 DEF WindowHas
<1>6. ASSUME faults' = 0 PROVE NothingFailed'
  <2>1. /\ NothingFailed /\ saves = <<>> /\ local = indexed /\ (hydrated \/ mem = initial)
        /\ mem \in History!Workspaces /\ want \in [Threads -> History!Versions]
        /\ Tracks(mem) /\ mem.has[mem.active] > 0
    BY <1>1, <1>3, <1>6 DEF HistoryInv, NothingFailed, HistoryTypes, WindowHas
  <2>2. Source' = Source
    BY <1>1 DEF Source
  <2>3. Source \in History!Workspaces /\ Settled(Source) /\ Tracks(Source)
    <3>1. CASE hydrated
      <4>1. indexed = Kept(mem)
        BY <2>1, <3>1 DEF NothingFailed
      <4>2. indexed \in History!Workspaces /\ Source = indexed
        BY <2>1, <4>1, KeptTyped, NoneIsNot DEF Source
      <4> QED BY <2>1, <4>1, <4>2, KeptSettled, KeptTracks
    <3>2. CASE ~hydrated
      BY <1>1, <2>1, <3>2 DEF NothingFailed
    <3> QED BY <3>1, <3>2
  <2>4. Tracks(Source)'
    BY <1>1, <2>2, <2>3 DEF Tracks
  <2>5. Source' \in History!Workspaces /\ Settled(Source')
    BY <2>2, <2>3
  <2>6. wipe' = "no" /\ own' = History!None /\ local' = indexed'
    BY <1>1, <2>1 DEF NothingFailed
  <2> QED BY <1>1, <1>2, <2>4, <2>5, <2>6 DEF NothingFailed
<1> QED BY <1>4, <1>5, <1>6 DEF HistoryInv

\* mergeHydratedWorkspace makes a workspace of two.
LEMMA HydratedTyped ==
  ASSUME mem \in History!Workspaces, initial \in History!Workspaces, NEW p \in History!Workspaces
  PROVE  History!Hydrated(p) \in History!Workspaces
<1>1. \A t \in Threads : mem.has[t] \in History!Versions /\ p.has[t] \in History!Versions
  BY WorkspaceFields
<1>2. History!Merged(p) \in [Threads -> History!Versions]
  BY <1>1, SomeVersions DEF History!Merged
<1>3. History!MergedActive(p) \in Threads
  BY WorkspaceFields DEF History!MergedActive
<1>4. [active |-> History!MergedActive(p), has |-> History!Merged(p)] \in History!Workspaces
  BY <1>2, <1>3, WorkspaceMade
<1> QED BY <1>4 DEF History!Hydrated

\* Hydrated with what it has begun with, a workspace is what the user has made of it.
LEMMA HydratedIs ==
  ASSUME mem \in History!Workspaces, initial \in History!Workspaces, mem.has[mem.active] > 0
  PROVE  History!Hydrated(initial) = mem
<1>1. /\ \A t \in Threads : mem.has[t] \in Nat /\ initial.has[t] \in Nat
      /\ mem.active \in Threads /\ mem.has \in [Threads -> History!Versions]
  BY WorkspaceFields, VersionsAre
<1>2. \A t \in Threads : History!Merged(initial)[t] = mem.has[t]
  BY <1>1 DEF History!Merged, History!Changed
<1>3. History!MergedActive(initial) = mem.active
  BY DEF History!MergedActive
<1>4. History!Hydrated(initial) \in History!Workspaces
  BY HydratedTyped
<1>5. CASE mem = initial
  BY <1>5 DEF History!Hydrated
<1>6. CASE mem # initial
  <2>1. History!Hydrated(initial) = [active |-> History!MergedActive(initial), has |-> History!Merged(initial)]
    BY <1>6 DEF History!Hydrated
  <2> QED BY <1>2, <1>3, <1>4, <2>1, SameWorkspace
<1> QED BY <1>5, <1>6

LEMMA HydrateKeepsHistoryInv == HistoryInv /\ History!Hydrate => HistoryInv'
<1> SUFFICES ASSUME HistoryInv, History!Hydrate PROVE HistoryInv' OBVIOUS
<1> DEFINE w == History!Hydrated(load.w)
<1>1. /\ load.at = "read" /\ load' = [load EXCEPT !.at = "none", !.w = History!None] /\ hydrated' = TRUE
      /\ UNCHANGED <<open, initial, indexed, own, legacy, wipe, opens, writes, want>>
  BY DEF History!Hydrate
<1>2. /\ open /\ ~hydrated /\ saves = <<>> /\ mem \in History!Workspaces /\ initial \in History!Workspaces
      /\ load.w \in History!Workspaces /\ HistoryTypes
  BY <1>1 DEF HistoryInv, WindowHas
<1>3. w \in History!Workspaces
  BY <1>2, HydratedTyped
<1>4. PICK text \in IF shown # initial.has[initial.active] THEN {shown}
                    ELSE IF w.active \in History!There(w) THEN {w.has[w.active]}
                    ELSE IF History!There(w) # {} THEN {w.has[t] : t \in History!There(w)} ELSE {1} :
        History!Effects(w, text)
  BY DEF History!Hydrate
<1>5. text \in History!Versions
  <2>1. \A t \in History!There(w) : w.has[t] \in History!Versions
    BY <1>3, WorkspaceFields DEF History!There
  <2>2. shown \in History!Versions
    BY <1>2 DEF HistoryTypes
  <2> HIDE DEF w
  <2> QED BY <1>4, <2>1, <2>2, SomeVersions
<1>6. load' \in LoadRecords /\ load'.at = "none"
  BY <1>1, <1>2, LoadEnds DEF HistoryTypes
<1>7. History!Effects(w, text)
  BY <1>4
<1>8. /\ mem' \in History!Workspaces /\ shown' \in History!Versions
      /\ saves' \in Seq(History!Workspaces) /\ Len(saves') <= MaxSaves
      /\ local' \in History!Workspaces \cup {History!None} /\ faults' \in 0..MaxFaults
      /\ faults' = 0 => faults = 0
  <2> HIDE DEF w
  <2> QED BY <1>2, <1>3, <1>5, <1>7, EffectsTyped
<1>9. HistoryTypes'
  BY <1>1, <1>2, <1>6, <1>8 DEF HistoryTypes
<1>10. WindowHas'
  BY <1>1, <1>2, <1>6, <1>8 DEF WindowHas
<1>11. ASSUME faults' = 0 PROVE NothingFailed'
  <2>1. /\ wipe = "no" /\ own = History!None /\ load.w = initial
        /\ Tracks(mem) /\ shown = mem.has[mem.active] /\ shown > 0
    BY <1>1, <1>2, <1>8, <1>11 DEF HistoryInv, NothingFailed
  <2>2. w = mem
    BY <1>2, <2>1, HydratedIs
  <2>3. mem.active \in Threads
    BY <1>2, WorkspaceFields
  <2> HIDE DEF w
  <2>4. text = shown
    BY <1>4, <2>1, <2>2, <2>3 DEF History!There
  <2>5. /\ mem'.active = mem.active
        /\ \A t \in Threads : mem'.has[t] = IF t = mem.active THEN shown ELSE mem.has[t]
        /\ shown' = mem'.has[mem'.active] /\ shown' > 0
        /\ saves' = Append(saves, Kept(mem')) /\ local' = Kept(mem')
    BY <1>1, <1>2, <1>3, <1>5, <1>7, <1>11, <2>1, <2>2, <2>4, EffectsQuiet
  <2>6. Tracks(mem)'
    BY <1>1, <2>1, <2>5 DEF Tracks
  <2>7. saves' # <<>> /\ saves'[Len(saves')] = Kept(mem')
    <3>1. saves' = <<Kept(mem')>>
      BY <1>2, <2>5
    <3> QED BY <3>1
  <2> QED BY <1>1, <1>2, <1>6, <2>1, <2>5, <2>6, <2>7 DEF NothingFailed
<1> QED BY <1>9, <1>10, <1>11 DEF HistoryInv

LEMMA HistoryInvInit == History!Init => HistoryInv
<1> SUFFICES ASSUME History!Init PROVE HistoryInv OBVIOUS
<1>1. PICK t \in Threads :
        LET w == [active |-> t, has |-> [u \in Threads |-> IF u = t THEN 2 ELSE 0]] IN
        /\ want = w.has
        /\ \/ local = w /\ indexed = w /\ legacy = History!None
           \/ local = History!None /\ indexed = History!None /\ legacy = w
  BY DEF History!Init
<1> DEFINE h == [u \in Threads |-> IF u = t THEN 2 ELSE 0]
           w == [active |-> t, has |-> h]
<1>2. h \in [Threads -> History!Versions] /\ h[t] = 2 /\ \A u \in Threads : u # t => h[u] = 0
  BY SomeVersions
<1>3. /\ want = w.has
      /\ \/ local = w /\ indexed = w /\ legacy = History!None
         \/ local = History!None /\ indexed = History!None /\ legacy = w
  BY <1>1
<1> HIDE DEF h
<1>4. w \in History!Workspaces /\ w.active = t /\ w.has = h
  BY <1>2, WorkspaceMade
<1> HIDE DEF w
<1>5. /\ open = FALSE /\ hydrated = FALSE /\ shown = 1 /\ load = [at |-> "none", w |-> History!None]
      /\ mem = History!None /\ initial = History!None /\ saves = <<>> /\ wipe = "no"
      /\ opens = 0 /\ writes = 2 /\ faults = 0 /\ own = History!None
  BY DEF History!Init
<1>6. load \in LoadRecords /\ load.at = "none"
  BY <1>5 DEF LoadRecords
<1>7. Source = w /\ local = indexed
  BY <1>3, <1>4, NoneIsNot DEF Source
<1>8. Settled(w) /\ Tracks(w)
  <2>1. Kept(w) \in History!Workspaces /\ Kept(w).active = w.active
        /\ \A u \in Threads : Kept(w).has[u] = IF w.has[u] > 1 \/ (u = w.active /\ w.has[u] > 0) THEN w.has[u]
                                               ELSE 0
    BY <1>4, KeptTyped
  <2>2. \A u \in Threads : Kept(w).has[u] = w.has[u]
    BY <1>2, <1>4, <2>1
  <2>3. Kept(w) = w
    BY <1>4, <2>1, <2>2, SameWorkspace
  <2> QED BY <1>2, <1>3, <1>4, <2>3 DEF Settled, Tracks
<1>9. HistoryTypes
  <2>1. <<>> \in Seq(History!Workspaces) /\ Len(<<>>) = 0
    OBVIOUS
  <2>2. saves \in Seq(History!Workspaces) /\ Len(saves) <= MaxSaves
    BY <1>5, <2>1, HistoryAssumption
  <2>3. want \in [Threads -> History!Versions]
    BY <1>2, <1>3, <1>4
  <2>4. /\ local \in History!Workspaces \cup {History!None} /\ indexed \in History!Workspaces \cup {History!None}
        /\ legacy \in History!Workspaces \cup {History!None}
    BY <1>3, <1>4
  <2>5. faults \in 0..MaxFaults /\ opens \in 0..MaxOpens
    BY <1>5, HistoryAssumption
  <2> QED BY <1>5, <1>6, <2>2, <2>3, <2>4, <2>5, SomeVersions DEF HistoryTypes
<1>10. WindowHas
  BY <1>5, <1>6 DEF WindowHas
<1>11. NothingFailed
  BY <1>4, <1>5, <1>6, <1>7, <1>8 DEF NothingFailed
<1> QED BY <1>9, <1>10, <1>11 DEF HistoryInv

LEMMA HistoryInvNext == HistoryInv /\ History!Next => HistoryInv'
BY OpensKeepsHistoryInv, LoadReadsKeepsHistoryInv, HydrateKeepsHistoryInv, WritesKeepsHistoryInv,
   SelectsKeepsHistoryInv, NewsKeepsHistoryInv, DeletesKeepsHistoryInv, SavedKeepsHistoryInv,
   ClosesKeepsHistoryInv, WipingKeepsHistoryInv
   DEF History!Next

LEMMA HistoryInvStutters ==
  HistoryInv /\ UNCHANGED <<open, mem, shown, initial, hydrated, load, saves, local, indexed, own, legacy,
                            wipe, opens, writes, want, faults>> => HistoryInv'
BY DEF HistoryInv, HistoryTypes, WindowHas, NothingFailed, Tracks, Source

LEMMA HistoryInvImplies == HistoryInv => History!TypeOK /\ History!Recovered /\ History!Stored
<1> SUFFICES ASSUME HistoryInv PROVE History!TypeOK /\ History!Recovered /\ History!Stored OBVIOUS
<1>1. load.at \in {"none", "asked", "read"} /\ load.w \in History!Workspaces \cup {History!None}
  BY LoadFields DEF HistoryInv, HistoryTypes
<1>2. \A i \in 1..Len(saves) : saves[i] \in History!Workspaces
  BY DEF HistoryInv, HistoryTypes
<1>3. History!TypeOK
  BY <1>1, <1>2 DEF HistoryInv, HistoryTypes, WindowHas, History!TypeOK
<1>4. History!Recovered
  BY DEF HistoryInv, WindowHas, NothingFailed, Tracks, History!Recovered
<1>5. History!Stored
  <2> SUFFICES ASSUME faults = 0, hydrated, saves = <<>> PROVE History!Persisted(mem) = {indexed}
    BY DEF History!Stored
  <2>1. /\ open /\ mem \in History!Workspaces
        /\ mem.has[mem.active] > 0 /\ indexed = Kept(mem)
    BY DEF HistoryInv, WindowHas, NothingFailed
  <2> QED BY <2>1, PersistedIs
<1> QED BY <1>3, <1>4, <1>5

-----------------------------------------------------------------------------
\* The document index (documentIndex.ts).

LEMMA IndexCardinality == ASSUME NEW S PROVE Index!Cardinality(S) = Cardinality(S)
BY DEF Cardinality, Index!Cardinality

Tasks ==
  [kind : {"save"}, model : Models, docs : Index!Documents]
    \cup [kind : {"remove"}, model : {"none"}, docs : {<<d>> : d \in Paths \X {1}}]
    \cup [kind : {"clear"}, model : {"none"}, docs : {<<>>}]

\* What a mutation does to the records of a path: a removal finds none in IndexedDB.
About(t, p) == \E i \in DOMAIN t.docs : p = t.docs[i][1]
Saves(t, p) == t.kind = "save" /\ About(t, p)
Erases(t, p) == t.kind = "clear" \/ (~database /\ t.kind = "remove" /\ About(t, p))
HasPath(p) ==
  \E k \in Index!Keys : k[2] = p /\ (indexed[k] # Index!NoRecord \/ local[k] # Index!NoRecord)
\* The index will have records of a path when the queue is empty.
WillHave(p) ==
  \/ \E i \in DOMAIN queue : Saves(queue[i], p) /\ \A j \in DOMAIN queue : j > i => ~Erases(queue[j], p)
  \/ HasPath(p) /\ \A j \in DOMAIN queue : ~Erases(queue[j], p)

\* What the mutation under way has read is what is there.
ReadIsTrue ==
  /\ found.read \in BOOLEAN
  /\ found.read => database /\ queue # <<>> /\ Head(queue).kind # "clear" /\ found.rs = indexed
WithoutDatabase == ~database => Index!Stored(indexed) = {}
WithinBound ==
  /\ Cardinality(Index!Stored(indexed)) <= MAX_RECORDS /\ Cardinality(Index!Stored(local)) <= MAX_RECORDS
\* The paths that may still have records: IndexedDB keeps those of removed documents.
Allowed(p) == IF database THEN wanted[p] # "never" ELSE wanted[p] = "saved"
OnlyWanted == ~failed => \A p \in Paths : WillHave(p) => Allowed(p)
LocalUnused == database /\ ~failed => Index!Stored(local) = {}

\* A record's vectors are those of its model, its path and its text, each at its offset.
Fits(k, r) ==
  r # Index!NoRecord => \A o \in DOMAIN r.vectors : r.vectors[o] = <<k[1], <<k[2], r.text, o>>>>
Fitting(rs) == \A k \in Index!Keys : Fits(k, rs[k])

IndexInv ==
  /\ database \in BOOLEAN /\ queue \in Seq(Tasks)
  /\ asking = Index!NoTask \/ (asking \in Tasks /\ asking.kind = "save")
  /\ wanted \in [Paths -> {"never", "saved", "removed"}]
  /\ ReadIsTrue /\ WithoutDatabase /\ WithinBound /\ OnlyWanted /\ LocalUnused
  /\ Fitting(indexed) /\ Fitting(local)

\* The pieces of a document, and of one or two documents: every one is a piece of one of them.
Piece(docs) ==
  {c \in Paths \X Texts \X Nat : \E j \in DOMAIN docs : c[1] = docs[j][1] /\ c[2] = docs[j][2]}

LEMMA FlattensOne == ASSUME NEW s, Len(s) = 1 PROVE Index!FlattenSeq(s) = s[1]
<1> DEFINE Unrolls(f) == f = [i \in 1..Len(s) |-> IF i = 1 THEN s[i] ELSE f[i - 1] \o s[i]]
           all == [i \in 1..1 |-> s[1]]
<1>1. Unrolls(all)
  OBVIOUS
<1>2. \A f : Unrolls(f) => f[1] = s[1]
  OBVIOUS
<1> HIDE DEF all
<1>3. Unrolls(CHOOSE f : Unrolls(f))
  BY <1>1
<1>4. (CHOOSE f : Unrolls(f))[1] = s[1]
  BY <1>2, <1>3
<1> QED BY <1>4 DEF Index!FlattenSeq

LEMMA FlattensTwo == ASSUME NEW s, Len(s) = 2 PROVE Index!FlattenSeq(s) = s[1] \o s[2]
<1> DEFINE Unrolls(f) == f = [i \in 1..Len(s) |-> IF i = 1 THEN s[i] ELSE f[i - 1] \o s[i]]
           all == [i \in 1..2 |-> IF i = 1 THEN s[1] ELSE s[1] \o s[2]]
<1>1. Unrolls(all)
  OBVIOUS
<1>2. \A f : Unrolls(f) => f[2] = s[1] \o s[2]
  OBVIOUS
<1> HIDE DEF all
<1>3. Unrolls(CHOOSE f : Unrolls(f))
  BY <1>1
<1>4. (CHOOSE f : Unrolls(f))[2] = s[1] \o s[2]
  BY <1>2, <1>3
<1> HIDE DEF Unrolls
<1>5. Index!FlattenSeq(s) = (CHOOSE f : Unrolls(f))[Len(s)]
  BY DEF Index!FlattenSeq, Unrolls
<1> QED BY <1>4, <1>5

\* Documents are one or two, of different paths, and their chunks are pieces of them.
LEMMA DocumentsAre ==
  ASSUME NEW docs \in Index!Documents
  PROVE  /\ docs \in Seq(Paths \X Texts) /\ Len(docs) \in {1, 2}
         /\ \A i \in DOMAIN docs : docs[i] \in Paths \X Texts
BY DEF Index!Documents, Index!Versioned

LEMMA DocumentsDiffer ==
  ASSUME NEW docs \in Index!Documents, NEW i \in DOMAIN docs, NEW j \in DOMAIN docs,
         docs[i][1] = docs[j][1]
  PROVE  docs[i][2] = docs[j][2]
<1>1. CASE Len(docs) = 1
  BY <1>1, DocumentsAre
<1>2. CASE Len(docs) = 2
  <2>1. docs[1][1] # docs[2][1]
    BY <1>2 DEF Index!Documents
  <2>2. i \in {1, 2} /\ j \in {1, 2}
    BY <1>2, DocumentsAre
  <2> QED BY <2>1, <2>2
<1> QED BY <1>1, <1>2, DocumentsAre

LEMMA ChunksArePieces ==
  ASSUME NEW docs \in Index!Documents
  PROVE  Index!Chunks(docs) \in Seq(Piece(docs))
<1> DEFINE n == Index!Cardinality(Offsets)
           each == [i \in DOMAIN docs |-> [o \in 1..n |-> <<docs[i][1], docs[i][2], o>>]]
           all == Index!FlattenSeq(each)
<1>1. n \in Nat
  BY IndexAssumption, IndexCardinality, FS_CardinalityType
<1>2. docs \in Seq(Paths \X Texts) /\ Len(docs) \in {1, 2} /\ DOMAIN docs = 1..Len(docs)
      /\ \A i \in DOMAIN docs : docs[i] \in Paths \X Texts
  BY DocumentsAre
<1> HIDE DEF n
<1>3. \A i \in DOMAIN docs : each[i] \in Seq(Piece(docs))
  <2> SUFFICES ASSUME NEW i \in DOMAIN docs PROVE [o \in 1..n |-> <<docs[i][1], docs[i][2], o>>] \in Seq(Piece(docs))
    OBVIOUS
  <2>1. \A o \in 1..n : <<docs[i][1], docs[i][2], o>> \in Piece(docs)
    BY <1>1, <1>2 DEF Piece
  <2>2. [o \in 1..n |-> <<docs[i][1], docs[i][2], o>>] \in [1..n -> Piece(docs)]
    BY <2>1
  <2> QED BY <1>1, <2>2
<1>4. Len(each) = Len(docs)
  BY <1>2
<1> HIDE DEF each
<1>5. all \in Seq(Piece(docs))
  <2>1. CASE Len(docs) = 1
    <3>1. all = each[1] /\ 1 \in DOMAIN docs
      BY <1>2, <1>4, <2>1, FlattensOne
    <3> QED BY <1>3, <3>1
  <2>2. CASE Len(docs) = 2
    <3>1. all = each[1] \o each[2]
      BY <1>4, <2>2, FlattensTwo
    <3>2. 1 \in DOMAIN docs /\ 2 \in DOMAIN docs
      BY <1>2, <2>2
    <3> QED BY <1>3, <3>1, <3>2
  <2> QED BY <1>2, <2>1, <2>2
<1> HIDE DEF all
<1>6. Index!Chunks(docs) = SubSeq(all, 1, IF Len(all) < MaxSearched THEN Len(all) ELSE MaxSearched)
  BY DEF Index!Chunks, all, each, n
<1>7. \A k \in 0..Len(all) : SubSeq(all, 1, k) \in Seq(Piece(docs))
  BY <1>5
<1>8. (IF Len(all) < MaxSearched THEN Len(all) ELSE MaxSearched) \in 0..Len(all)
  BY <1>5, IndexAssumption
<1> QED BY <1>6, <1>7, <1>8

LEMMA ChunkIs ==
  ASSUME NEW docs \in Index!Documents, NEW i \in DOMAIN Index!Chunks(docs)
  PROVE  LET c == Index!Chunks(docs)[i] IN
         /\ c \in Paths \X Texts \X Nat /\ c = <<c[1], c[2], c[3]>>
         /\ \E j \in DOMAIN docs : c[1] = docs[j][1] /\ c[2] = docs[j][2]
<1> DEFINE c == Index!Chunks(docs)[i]
<1>1. c \in Piece(docs)
  BY ChunksArePieces
<1> HIDE DEF c
<1>2. c \in Paths \X Texts \X Nat /\ \E j \in DOMAIN docs : c[1] = docs[j][1] /\ c[2] = docs[j][2]
  BY <1>1 DEF Piece
<1>3. c = <<c[1], c[2], c[3]>>
  BY <1>2
<1> QED BY <1>2, <1>3 DEF c

\* From records that fit, what is taken belongs to the chunks now asked about.
LEMMA TakenFits ==
  ASSUME NEW rs, Fitting(rs), NEW m \in Models, NEW docs \in Index!Documents
  PROVE  LET chunks == Index!Chunks(docs) IN
         Index!Cached(m, chunks, rs) \in {<<>>, Index!Embeddings(m, chunks)}
<1> DEFINE chunks == Index!Chunks(docs)
           r(i) == rs[<<m, chunks[i][1]>>]
           Found == chunks # <<>> /\ \A i \in DOMAIN chunks : Index!Matches(r(i), chunks[i])
<1>1. \A i \in DOMAIN chunks : /\ chunks[i] = <<chunks[i][1], chunks[i][2], chunks[i][3]>>
                               /\ <<m, chunks[i][1]>> \in Index!Keys
  BY ChunkIs DEF Index!Keys
<1> HIDE DEF chunks
<1>2. ASSUME Found, NEW i \in DOMAIN chunks
      PROVE  r(i).vectors[chunks[i][3]] = <<m, chunks[i]>>
  <2>1. r(i) # Index!NoRecord /\ r(i).text = chunks[i][2] /\ chunks[i][3] \in DOMAIN r(i).vectors
    BY <1>2 DEF Index!Matches
  <2>2. Fits(<<m, chunks[i][1]>>, r(i))
    BY <1>1 DEF Fitting
  <2>3. r(i).vectors[chunks[i][3]] = <<m, <<chunks[i][1], r(i).text, chunks[i][3]>>>>
    BY <2>1, <2>2 DEF Fits
  <2> QED BY <1>1, <2>1, <2>3
<1>3. Found => Index!Cached(m, chunks, rs) = [i \in DOMAIN chunks |-> r(i).vectors[chunks[i][3]]]
  BY DEF Index!Cached
<1>4. Found => [i \in DOMAIN chunks |-> r(i).vectors[chunks[i][3]]] = Index!Embeddings(m, chunks)
  BY <1>2 DEF Index!Embeddings
<1>5. ~Found => Index!Cached(m, chunks, rs) = <<>>
  BY DEF Index!Cached
<1> HIDE DEF Found
<1> QED BY <1>3, <1>4, <1>5 DEF chunks

\* Records put together from records that fit do, and those of a save do.
LEMMA MixFits ==
  ASSUME NEW a, NEW b, NEW c, Fitting(a), Fitting(b),
         \A k \in Index!Keys : c[k] \in {Index!NoRecord, a[k], b[k]}
  PROVE  Fitting(c)
<1> SUFFICES ASSUME NEW k \in Index!Keys PROVE Fits(k, c[k])
  BY DEF Fitting
<1>1. Fits(k, a[k]) /\ Fits(k, b[k]) /\ Fits(k, Index!NoRecord)
  BY DEF Fitting, Fits
<1> QED BY <1>1

LEMMA IndexedFits ==
  ASSUME NEW m \in Models, NEW docs \in Index!Documents
  PROVE  Fitting(Index!Indexed(m, docs))
<1> DEFINE chunks == Index!Chunks(docs)
           mine(k) == {i \in DOMAIN chunks : k = <<m, chunks[i][1]>>}
           first(k) == CHOOSE i \in mine(k) : TRUE
           at(k, o) == CHOOSE i \in mine(k) : chunks[i][3] = o
           rs == Index!Indexed(m, docs)
<1>1. \A i \in DOMAIN chunks : chunks[i] = <<chunks[i][1], chunks[i][2], chunks[i][3]>>
  BY ChunkIs
<1>2. ASSUME NEW i \in DOMAIN chunks, NEW j \in DOMAIN chunks, chunks[i][1] = chunks[j][1]
      PROVE  chunks[i][2] = chunks[j][2]
  <2>1. PICK d \in DOMAIN docs : chunks[i][1] = docs[d][1] /\ chunks[i][2] = docs[d][2]
    BY ChunkIs
  <2>2. PICK e \in DOMAIN docs : chunks[j][1] = docs[e][1] /\ chunks[j][2] = docs[e][2]
    BY ChunkIs
  <2> QED BY <1>2, <2>1, <2>2, DocumentsDiffer
<1>3. \A k \in Index!Keys : mine(k) = {} => rs[k] = Index!NoRecord
  BY DEF Index!Indexed
<1>4. ASSUME NEW k \in Index!Keys, mine(k) # {}
      PROVE  /\ rs[k].text = chunks[first(k)][2]
             /\ rs[k].vectors = Index!VectorsOf(chunks, Index!Embeddings(m, chunks), mine(k))
  <2> DEFINE vectors == Index!VectorsOf(chunks, Index!Embeddings(m, chunks), mine(k))
  <2>1. rs[k] = IF mine(k) = {} THEN Index!NoRecord
                ELSE [text |-> chunks[first(k)][2], vectors |-> vectors, at |-> clock + 1]
    BY DEF Index!Indexed
  <2> HIDE DEF mine, first, vectors
  <2>2. rs[k] = [text |-> chunks[first(k)][2], vectors |-> vectors, at |-> clock + 1]
    BY <1>4, <2>1
  <2>3. rs[k].text = chunks[first(k)][2] /\ rs[k].vectors = vectors
    BY <2>2
  <2> QED BY <2>3 DEF vectors
<1> HIDE DEF chunks, rs
<1>5. ASSUME NEW k \in Index!Keys, mine(k) # {}, NEW o \in DOMAIN rs[k].vectors
      PROVE  rs[k].vectors[o] = <<k[1], <<k[2], rs[k].text, o>>>>
  <2> DEFINE offsets == {chunks[i][3] : i \in mine(k)}
             of(x) == Index!Embeddings(m, chunks)[at(k, x)]
  <2>10. rs[k].vectors = Index!VectorsOf(chunks, Index!Embeddings(m, chunks), mine(k))
    BY <1>4, <1>5
  <2>11. rs[k].vectors = [x \in offsets |-> of(x)]
    BY <2>10 DEF Index!VectorsOf
  <2> HIDE DEF offsets, of
  <2>12. o \in offsets /\ rs[k].vectors[o] = of(o)
    BY <1>5, <2>11
  <2>1. o \in {chunks[i][3] : i \in mine(k)} /\ rs[k].vectors[o] = Index!Embeddings(m, chunks)[at(k, o)]
    BY <2>12 DEF offsets, of
  <2>2. at(k, o) \in mine(k) /\ chunks[at(k, o)][3] = o
    BY <2>1
  <2>3. first(k) \in mine(k)
    BY <1>5
  <2> HIDE DEF at, first
  <2>4. /\ at(k, o) \in DOMAIN chunks /\ first(k) \in DOMAIN chunks
        /\ k = <<m, chunks[at(k, o)][1]>> /\ k = <<m, chunks[first(k)][1]>>
    BY <2>2, <2>3
  <2>5. k[1] = m /\ k[2] = chunks[at(k, o)][1] /\ k[2] = chunks[first(k)][1]
    BY <2>4
  <2>6. chunks[at(k, o)][2] = chunks[first(k)][2]
    BY <1>2, <2>4, <2>5
  <2>7. rs[k].vectors[o] = <<m, chunks[at(k, o)]>>
    BY <2>1, <2>4 DEF Index!Embeddings
  <2>8. rs[k].text = chunks[first(k)][2]
    BY <1>4, <1>5
  <2>9. chunks[at(k, o)] = <<chunks[at(k, o)][1], chunks[at(k, o)][2], chunks[at(k, o)][3]>>
    BY <1>1, <2>4
  <2> QED BY <2>2, <2>5, <2>6, <2>7, <2>8, <2>9
<1> HIDE DEF mine
<1> QED BY <1>3, <1>5 DEF Fitting, Fits, rs

\* Records are few: sets of them are finite, and fewer keys are fewer records.
LEMMA StoredFinite ==
  ASSUME NEW rs
  PROVE  /\ Index!Stored(rs) \in SUBSET Index!Keys /\ IsFiniteSet(Index!Stored(rs))
         /\ Cardinality(Index!Stored(rs)) \in Nat
<1>1. IsFiniteSet(Index!Keys)
  BY IndexAssumption, FS_Product DEF Index!Keys
<1>2. Index!Stored(rs) \in SUBSET Index!Keys
  BY DEF Index!Stored
<1> QED BY <1>1, <1>2, FS_Subset, FS_CardinalityType

LEMMA FewerStored ==
  ASSUME NEW rs, NEW b, Index!Stored(b) \subseteq Index!Stored(rs)
  PROVE  Cardinality(Index!Stored(b)) <= Cardinality(Index!Stored(rs))
BY StoredFinite, FS_Subset

\* boundedIndexRecords keeps records it is given, no more than the bound, and all if they fit.
LEMMA BoundedIs ==
  ASSUME NEW rs, NEW b \in Index!Bounded(rs)
  PROVE  /\ Index!Stored(b) \subseteq Index!Stored(rs)
         /\ Cardinality(Index!Stored(b)) <= MAX_RECORDS
<1>1. PICK S \in SUBSET Index!Stored(rs) :
        /\ Cardinality(S) = IF Cardinality(Index!Stored(rs)) < MAX_RECORDS
                              THEN Cardinality(Index!Stored(rs)) ELSE MAX_RECORDS
        /\ b = [k \in Index!Keys |-> IF k \in S THEN rs[k] ELSE Index!NoRecord]
  BY IndexCardinality DEF Index!Bounded
<1>2. Index!Stored(b) = S
  BY <1>1 DEF Index!Stored
<1>3. Cardinality(Index!Stored(b)) = IF Cardinality(Index!Stored(rs)) < MAX_RECORDS
                                       THEN Cardinality(Index!Stored(rs)) ELSE MAX_RECORDS
  BY <1>1, <1>2
<1>4. Cardinality(Index!Stored(b)) \in Nat /\ Cardinality(Index!Stored(rs)) \in Nat
  BY StoredFinite
<1> HIDE DEF Index!Stored
<1> QED BY <1>2, <1>3, <1>4, IndexAssumption

\* The records of a save are of its documents.
LEMMA SavedAreAbout ==
  ASSUME NEW m \in Models, NEW docs \in Index!Documents, NEW k \in Index!Keys,
         Index!Indexed(m, docs)[k] # Index!NoRecord
  PROVE  \E j \in DOMAIN docs : k[2] = docs[j][1]
<1> DEFINE chunks == Index!Chunks(docs)
           mine == {i \in DOMAIN chunks : k = <<m, chunks[i][1]>>}
<1>1. mine # {}
  BY DEF Index!Indexed
<1>2. PICK i \in DOMAIN chunks : k = <<m, chunks[i][1]>>
  BY <1>1
<1>3. \E j \in DOMAIN docs : chunks[i][1] = docs[j][1]
  BY ChunkIs
<1> HIDE DEF chunks
<1> QED BY <1>2, <1>3

LEMMA TaskIs ==
  ASSUME NEW t \in Tasks
  PROVE  /\ t.kind \in {"save", "remove", "clear"}
         /\ t.kind = "save" => t.model \in Models /\ t.docs \in Index!Documents
BY DEF Tasks

\* A mutation stores no more than there was and what it saves, and a removal
\* less than there was.
LEMMA ChangedStores ==
  ASSUME NEW t \in Tasks, t.kind # "clear", NEW rs
  PROVE  \A k \in Index!Keys : Index!Changed(t, rs)[k] # Index!NoRecord =>
           \/ Saves(t, k[2])
           \/ rs[k] # Index!NoRecord /\ ~(t.kind = "remove" /\ About(t, k[2]))
<1> SUFFICES ASSUME NEW k \in Index!Keys, Index!Changed(t, rs)[k] # Index!NoRecord
             PROVE  \/ Saves(t, k[2])
                    \/ rs[k] # Index!NoRecord /\ ~(t.kind = "remove" /\ About(t, k[2]))
  OBVIOUS
<1>1. CASE t.kind = "save"
  <2> DEFINE new == Index!Indexed(t.model, t.docs)
  <2>1. Index!Changed(t, rs)[k] = IF new[k] # Index!NoRecord THEN new[k] ELSE rs[k]
    BY <1>1 DEF Index!Changed
  <2>2. new[k] # Index!NoRecord => Saves(t, k[2])
    BY <1>1, SavedAreAbout, TaskIs DEF Saves, About
  <2> HIDE DEF new
  <2> QED BY <1>1, <2>1, <2>2
<1>2. CASE t.kind = "remove"
  <2>1. Index!Changed(t, rs)[k] = IF About(t, k[2]) THEN Index!NoRecord ELSE rs[k]
    BY <1>2 DEF Index!Changed, About
  <2> QED BY <1>2, <2>1
<1> QED BY <1>1, <1>2, TaskIs

LEMMA ChangedKeeps ==
  ASSUME NEW t \in Tasks, NEW rs, NEW k \in Index!Keys, t.kind = "save",
         Index!Changed(t, rs)[k] = Index!NoRecord
  PROVE  rs[k] = Index!NoRecord
<1> DEFINE new == Index!Indexed(t.model, t.docs)
<1>1. Index!Changed(t, rs)[k] = IF new[k] # Index!NoRecord THEN new[k] ELSE rs[k]
  BY DEF Index!Changed
<1> HIDE DEF new
<1> QED BY <1>1

LEMMA ChangedFits ==
  ASSUME NEW t \in Tasks, t.kind # "clear", NEW rs, Fitting(rs)
  PROVE  Fitting(Index!Changed(t, rs))
<1> DEFINE ch == Index!Changed(t, rs)
<1>1. CASE t.kind = "save"
  <2> DEFINE new == Index!Indexed(t.model, t.docs)
  <2>1. Fitting(new)
    BY <1>1, TaskIs, IndexedFits
  <2>2. \A k \in Index!Keys : ch[k] = IF new[k] # Index!NoRecord THEN new[k] ELSE rs[k]
    BY <1>1 DEF Index!Changed
  <2> HIDE DEF new, ch
  <2>3. \A k \in Index!Keys : ch[k] \in {Index!NoRecord, new[k], rs[k]}
    BY <2>2
  <2>4. Fitting(ch)
    BY <2>1, <2>3, MixFits
  <2> QED BY <2>4 DEF ch
<1>2. CASE t.kind = "remove"
  <2>1. \A k \in Index!Keys : ch[k] \in {Index!NoRecord, rs[k], rs[k]}
    BY <1>2 DEF Index!Changed
  <2> HIDE DEF ch
  <2>2. Fitting(ch)
    BY <2>1, MixFits
  <2> QED BY <2>2 DEF ch
<1> QED BY <1>1, <1>2, TaskIs

LEMMA BoundedFits ==
  ASSUME NEW rs, Fitting(rs), NEW b \in Index!Bounded(rs)
  PROVE  Fitting(b)
<1>1. \A k \in Index!Keys : b[k] \in {Index!NoRecord, rs[k], rs[k]}
  BY DEF Index!Bounded
<1> QED BY <1>1, MixFits

\* writeIndexedRecords: the bound holds afterwards, and nothing is stored of a path
\* that was not there before or is saved.
LEMMA WritesWithin ==
  ASSUME NEW t \in Tasks, t.kind # "clear", Cardinality(Index!Stored(indexed)) <= MAX_RECORDS,
         Index!WriteIndexed(Index!Changed(t, indexed))
  PROVE  /\ Cardinality(Index!Stored(indexed')) <= MAX_RECORDS
         /\ \A k \in Index!Stored(indexed') : k \in Index!Stored(indexed) \/ Saves(t, k[2])
         /\ Fitting(indexed) => Fitting(indexed')
<1> DEFINE rs == Index!Changed(t, indexed)
<1>1. PICK b \in Index!Bounded(rs) :
        indexed' = [k \in Index!Keys |-> IF k \in Index!Stored(b) THEN b[k]
                                          ELSE IF k \in Index!Stored(rs) THEN Index!NoRecord ELSE indexed[k]]
  BY DEF Index!WriteIndexed
<1>2. Index!Stored(b) \subseteq Index!Stored(rs) /\ Cardinality(Index!Stored(b)) <= MAX_RECORDS
  BY BoundedIs
<1>3. \A k \in Index!Stored(rs) : k \in Index!Stored(indexed) \/ Saves(t, k[2])
  BY ChangedStores DEF Index!Stored
<1>4. \A k \in Index!Stored(indexed') : k \in Index!Stored(b) \/ (k \notin Index!Stored(rs) /\ k \in Index!Stored(indexed))
  BY <1>1 DEF Index!Stored
<1>7. Fitting(indexed) => Fitting(indexed')
  <2>1. Fitting(indexed) => Fitting(b)
    BY ChangedFits, BoundedFits
  <2>2. \A k \in Index!Keys : indexed'[k] \in {Index!NoRecord, b[k], indexed[k]}
    BY <1>1
  <2> QED BY <2>1, <2>2, MixFits
<1>5. CASE t.kind = "save"
  <2>1. \A k \in Index!Keys : k \notin Index!Stored(rs) => k \notin Index!Stored(indexed)
    BY <1>5, ChangedKeeps DEF Index!Stored
  <2>2. Index!Stored(indexed') \subseteq Index!Stored(b)
    BY <1>4, <2>1, StoredFinite
  <2>3. Cardinality(Index!Stored(indexed')) <= Cardinality(Index!Stored(b))
    BY <2>2, FewerStored
  <2> QED BY <1>2, <1>3, <1>7, <2>2, <2>3, StoredFinite, IndexAssumption
<1>6. CASE t.kind = "remove"
  <2>1. \A k : ~Saves(t, k)
    BY <1>6 DEF Saves
  <2>2. Index!Stored(indexed') \subseteq Index!Stored(indexed)
    BY <1>2, <1>3, <1>4, <2>1
  <2>3. Cardinality(Index!Stored(indexed')) <= Cardinality(Index!Stored(indexed))
    BY <2>2, FewerStored
  <2> QED BY <1>7, <2>2, <2>3, StoredFinite, IndexAssumption
<1> QED BY <1>5, <1>6, TaskIs

LEMMA WillHaveAfter ==
  ASSUME NEW p, database' = database
  PROVE  WillHave(p)' <=>
           \/ \E i \in DOMAIN queue' : Saves(queue'[i], p) /\ \A j \in DOMAIN queue' : j > i => ~Erases(queue'[j], p)
           \/ HasPath(p)' /\ \A j \in DOMAIN queue' : ~Erases(queue'[j], p)
BY DEF WillHave, Saves, Erases, About

\* A mutation queued: a path the index will have records of is one it would have
\* had, and that this mutation does not erase, or one it saves.
LEMMA QueueingIs ==
  ASSUME NEW t \in Tasks, queue \in Seq(Tasks), queue' = Append(queue, t),
         UNCHANGED <<database, indexed, local>>, NEW p, WillHave(p)'
  PROVE  Saves(t, p) \/ (WillHave(p) /\ ~Erases(t, p))
<1> DEFINE n == Len(queue)
<1>1. n \in Nat /\ DOMAIN queue = 1..n /\ DOMAIN queue' = 1..(n + 1)
      /\ queue'[n + 1] = t /\ \A i \in 1..n : queue'[i] = queue[i]
  OBVIOUS
<1>2. HasPath(p)' <=> HasPath(p)
  BY DEF HasPath, Index!Keys
<1> HIDE DEF n
<1>4. n + 1 \in 1..(n + 1) /\ \A i \in 1..n : i \in 1..(n + 1) /\ n + 1 > i
  BY <1>1
<1>5. CASE HasPath(p)' /\ \A j \in DOMAIN queue' : ~Erases(queue'[j], p)
  <2>1. HasPath(p) /\ ~Erases(t, p) /\ \A j \in 1..n : ~Erases(queue[j], p)
    BY <1>1, <1>2, <1>4, <1>5
  <2> QED BY <1>1, <2>1 DEF WillHave
<1>6. CASE \E i \in DOMAIN queue' : Saves(queue'[i], p) /\ \A j \in DOMAIN queue' : j > i => ~Erases(queue'[j], p)
  <2>1. PICK i \in 1..(n + 1) : Saves(queue'[i], p) /\ \A j \in 1..(n + 1) : j > i => ~Erases(queue'[j], p)
    BY <1>1, <1>6
  <2>2. CASE i = n + 1
    BY <1>1, <2>1, <2>2
  <2>3. CASE i \in 1..n
    <3>1. Saves(queue[i], p) /\ ~Erases(t, p)
      BY <1>1, <1>4, <2>1, <2>3
    <3>2. \A j \in 1..n : j > i => ~Erases(queue[j], p)
      BY <1>1, <1>4, <2>1, <2>3
    <3> QED BY <1>1, <2>3, <3>1, <3>2 DEF WillHave
  <2>4. i = n + 1 \/ i \in 1..n
    BY <1>1, <2>1
  <2> QED BY <2>2, <2>3, <2>4
<1> QED BY <1>5, <1>6, WillHaveAfter

\* The first mutation done: if what is stored now was there and not erased by it, or
\* is what it saves, the index will have records of no other paths than before.
LEMMA FinishingIs ==
  ASSUME queue \in Seq(Tasks), queue # <<>>, queue' = Tail(queue), database' = database, NEW p,
         HasPath(p)' => Saves(Head(queue), p) \/ (HasPath(p) /\ ~Erases(Head(queue), p)),
         WillHave(p)'
  PROVE  WillHave(p)
<1> DEFINE n == Len(queue)
<1>1. n \in Nat /\ n > 0 /\ DOMAIN queue = 1..n /\ DOMAIN queue' = 1..(n - 1)
      /\ Head(queue) = queue[1] /\ \A i \in 1..(n - 1) : queue'[i] = queue[i + 1]
  OBVIOUS
<1> HIDE DEF n
<1>4. \A j \in 2..n : j - 1 \in 1..(n - 1) /\ queue[j] = queue'[j - 1]
  <2> SUFFICES ASSUME NEW j \in 2..n PROVE j - 1 \in 1..(n - 1) /\ queue[j] = queue'[j - 1]
    OBVIOUS
  <2>1. j - 1 \in 1..(n - 1) /\ (j - 1) + 1 = j
    BY <1>1
  <2>2. queue'[j - 1] = queue[(j - 1) + 1]
    BY <1>1, <2>1
  <2> QED BY <2>1, <2>2
<1>5. CASE \E i \in DOMAIN queue' : Saves(queue'[i], p) /\ \A j \in DOMAIN queue' : j > i => ~Erases(queue'[j], p)
  <2>1. PICK i \in 1..(n - 1) : Saves(queue'[i], p) /\ \A j \in 1..(n - 1) : j > i => ~Erases(queue'[j], p)
    BY <1>1, <1>5
  <2>2. i + 1 \in 1..n /\ Saves(queue[i + 1], p)
    BY <1>1, <2>1
  <2>3. \A j \in 1..n : j > i + 1 => j \in 2..n /\ j - 1 > i
    BY <1>1, <2>1
  <2>4. \A j \in 1..n : j > i + 1 => ~Erases(queue[j], p)
    BY <1>4, <2>1, <2>3
  <2> QED BY <1>1, <2>2, <2>4 DEF WillHave
<1>6. CASE HasPath(p)' /\ \A j \in DOMAIN queue' : ~Erases(queue'[j], p)
  <2>1. \A j \in 2..n : ~Erases(queue[j], p)
    BY <1>1, <1>4, <1>6
  <2>2. 1 \in 1..n /\ \A j \in 1..n : (j > 1 => j \in 2..n) /\ (j = 1 \/ j \in 2..n)
    BY <1>1
  <2>3. CASE Saves(Head(queue), p)
    BY <1>1, <2>1, <2>2, <2>3 DEF WillHave
  <2>4. CASE HasPath(p) /\ ~Erases(Head(queue), p)
    BY <1>1, <2>1, <2>2, <2>4 DEF WillHave
  <2> QED BY <1>6, <2>3, <2>4
<1> QED BY <1>5, <1>6, WillHaveAfter

\* The mutations that drop documents.
LEMMA NewTasks ==
  ASSUME NEW k, NEW d
  PROVE  /\ [Index!NoTask EXCEPT !.kind = k, !.docs = d] = [kind |-> k, model |-> "none", docs |-> d]
         /\ [Index!NoTask EXCEPT !.kind = k] = [kind |-> k, model |-> "none", docs |-> <<>>]
<1> DEFINE t == Index!NoTask
           fields == {"kind", "model", "docs"}
           u == [t EXCEPT !.kind = k, !.docs = d]
           v == [t EXCEPT !.kind = k]
<1>1. u = [i \in fields |-> u[i]] /\ v = [i \in fields |-> v[i]]
  BY DEF Index!NoTask
<1>2. u.kind = k /\ u.model = "none" /\ u.docs = d
  BY DEF Index!NoTask
<1>3. v.kind = k /\ v.model = "none" /\ v.docs = <<>>
  BY DEF Index!NoTask
<1> HIDE DEF u, v
<1>4. u = [kind |-> k, model |-> "none", docs |-> d]
  BY <1>1, <1>2
<1>5. v = [kind |-> k, model |-> "none", docs |-> <<>>]
  BY <1>1, <1>3
<1> QED BY <1>4, <1>5 DEF u, v

LEMMA NewTasksTyped ==
  /\ \A p \in Paths : [kind |-> "remove", model |-> "none", docs |-> <<<<p, 1>>>>] \in Tasks
  /\ [kind |-> "clear", model |-> "none", docs |-> <<>>] \in Tasks
BY DEF Tasks

\* While no record changes, and a failure is not forgotten.
LEMMA RecordsStay ==
  ASSUME IndexInv, UNCHANGED <<database, indexed, local>>, failed => failed'
  PROVE  LocalUnused' /\ Fitting(indexed)' /\ Fitting(local)'
<1>1. LocalUnused'
  BY DEF IndexInv, LocalUnused, Index!Stored, Index!Keys
<1>2. Fitting(indexed)' /\ Fitting(local)'
  BY DEF IndexInv, Fitting, Fits, Index!Keys, Index!NoRecord
<1> QED BY <1>1, <1>2

LEMMA AllowedStays ==
  ASSUME UNCHANGED <<database, wanted>>
  PROVE  \A p : Allowed(p)' <=> Allowed(p)
BY DEF Allowed

\* The queue grows, and nothing but what is wanted with it.
LEMMA QueueingKeepsIndexInv ==
  ASSUME IndexInv, NEW t \in Tasks, queue' = Append(queue, t),
         UNCHANGED <<database, indexed, local, found, clock, failed>>,
         asking' = asking \/ asking' = Index!NoTask,
         wanted' \in [Paths -> {"never", "saved", "removed"}],
         \A p \in Paths : Saves(t, p) \/ (Allowed(p) /\ ~Erases(t, p)) => Allowed(p)'
  PROVE  IndexInv'
<1> USE DEF IndexInv
<1>1. queue' \in Seq(Tasks)
  OBVIOUS
<1>2. ReadIsTrue'
  <2>1. queue # <<>> => queue' # <<>> /\ Head(queue') = Head(queue)
    <3> SUFFICES ASSUME queue # <<>> PROVE queue' # <<>> /\ Head(queue') = Head(queue)
      OBVIOUS
    <3>1. Len(queue) \in Nat /\ Len(queue) > 0 /\ queue'[1] = queue[1] /\ Len(queue') = Len(queue) + 1
      OBVIOUS
    <3> QED BY <3>1, <1>1
  <2> QED BY <2>1 DEF ReadIsTrue
<1>3. WithoutDatabase' /\ WithinBound'
  BY DEF WithoutDatabase, WithinBound, Index!Stored, Index!Keys
<1>4. OnlyWanted'
  <2> SUFFICES ASSUME ~failed, NEW p \in Paths, WillHave(p)' PROVE Allowed(p)'
    BY DEF OnlyWanted
  <2>1. Saves(t, p) \/ (WillHave(p) /\ ~Erases(t, p))
    BY QueueingIs
  <2>2. WillHave(p) => Allowed(p)
    BY DEF OnlyWanted
  <2> QED BY <2>1, <2>2
<1>5. LocalUnused' /\ Fitting(indexed)' /\ Fitting(local)'
  BY RecordsStay
<1> QED BY <1>1, <1>2, <1>3, <1>4, <1>5

LEMMA RetrievesKeepsIndexInv == IndexInv /\ Index!Retrieves => IndexInv'
<1> SUFFICES ASSUME IndexInv, Index!Retrieves PROVE IndexInv'
  OBVIOUS
<1> USE DEF IndexInv, Index!Retrieves
<1>1. PICK m \in Models, docs \in Index!Documents, fails \in BOOLEAN :
        asking' = [kind |-> "save", model |-> m, docs |-> docs] /\ failed' = (failed \/ fails)
  OBVIOUS
<1>2. asking' \in Tasks /\ asking'.kind = "save"
  BY <1>1 DEF Tasks
<1>3. ReadIsTrue' /\ WithoutDatabase' /\ WithinBound'
  BY DEF ReadIsTrue, WithoutDatabase, WithinBound, Index!Stored, Index!Keys
<1>4. \A p : WillHave(p)' <=> WillHave(p)
  BY DEF WillHave, HasPath, Erases, Saves, About, Index!Keys
<1>5. OnlyWanted'
  BY <1>1, <1>4, AllowedStays DEF OnlyWanted
<1>6. LocalUnused' /\ Fitting(indexed)' /\ Fitting(local)'
  BY <1>1, RecordsStay
<1> QED BY <1>2, <1>3, <1>5, <1>6

LEMMA IndexInvStutters ==
  IndexInv /\ UNCHANGED <<database, indexed, local, queue, found, asking, clock, failed, wanted>> => IndexInv'
<1> SUFFICES ASSUME IndexInv,
                    UNCHANGED <<database, indexed, local, queue, found, asking, clock, failed, wanted>>
             PROVE  IndexInv'
  OBVIOUS
<1>1. \A p : WillHave(p)' <=> WillHave(p)
  BY DEF WillHave, HasPath, Erases, Saves, About, Index!Keys
<1>2. OnlyWanted'
  BY <1>1, AllowedStays DEF OnlyWanted, IndexInv
<1>3. ReadIsTrue' /\ WithoutDatabase' /\ WithinBound'
  BY DEF IndexInv, ReadIsTrue, WithoutDatabase, WithinBound, Index!Stored, Index!Keys
<1>4. LocalUnused' /\ Fitting(indexed)' /\ Fitting(local)'
  BY RecordsStay
<1> QED BY <1>2, <1>3, <1>4 DEF IndexInv

LEMMA EmbeddedKeepsIndexInv == IndexInv /\ Index!Embedded => IndexInv'
<1> SUFFICES ASSUME IndexInv, Index!Embedded PROVE IndexInv'
  OBVIOUS
<1> USE DEF Index!Embedded
<1>1. CASE UNCHANGED <<queue, wanted>>
  <2>1. \A p : WillHave(p)' <=> WillHave(p)
    BY <1>1 DEF WillHave, HasPath, Erases, Saves, About, Index!Keys
  <2>2. OnlyWanted'
    BY <1>1, <2>1, AllowedStays DEF OnlyWanted, IndexInv
  <2>3. ReadIsTrue' /\ WithoutDatabase' /\ WithinBound'
    BY <1>1 DEF IndexInv, ReadIsTrue, WithoutDatabase, WithinBound, Index!Stored, Index!Keys
  <2>4. LocalUnused' /\ Fitting(indexed)' /\ Fitting(local)'
    BY RecordsStay
  <2> QED BY <1>1, <2>2, <2>3, <2>4 DEF IndexInv
<1>2. CASE queue' = Append(queue, asking)
           /\ wanted' = [p \in Paths |-> IF \E i \in DOMAIN asking.docs : p = asking.docs[i][1]
                                         THEN "saved" ELSE wanted[p]]
  <2>1. asking \in Tasks /\ wanted \in [Paths -> {"never", "saved", "removed"}]
    BY DEF IndexInv
  <2>2. \A p \in Paths : wanted'[p] = IF About(asking, p) THEN "saved" ELSE wanted[p]
    BY <1>2 DEF About
  <2>3. wanted' \in [Paths -> {"never", "saved", "removed"}]
    BY <1>2, <2>1
  <2>4. \A p \in Paths : Saves(asking, p) \/ (Allowed(p) /\ ~Erases(asking, p)) => Allowed(p)'
    BY <2>2 DEF Saves, Allowed
  <2> QED BY <1>2, <2>1, <2>3, <2>4, QueueingKeepsIndexInv
<1> QED BY <1>1, <1>2

LEMMA RemovesKeepsIndexInv == IndexInv /\ Index!Removes => IndexInv'
<1> SUFFICES ASSUME IndexInv, Index!Removes PROVE IndexInv'
  OBVIOUS
<1> USE DEF Index!Removes
<1>1. PICK q \in Paths :
        /\ queue' = Append(queue, [Index!NoTask EXCEPT !.kind = "remove", !.docs = <<<<q, 1>>>>])
        /\ wanted' = [wanted EXCEPT ![q] = IF @ = "saved" THEN "removed" ELSE @]
  OBVIOUS
<1> DEFINE t == [kind |-> "remove", model |-> "none", docs |-> <<<<q, 1>>>>]
<1>2. t \in Tasks /\ queue' = Append(queue, t)
  BY <1>1, NewTasks, NewTasksTyped
<1>3. t.kind = "remove" /\ \A p : About(t, p) <=> p = q
  BY DEF About
<1> HIDE DEF t
<1>4. /\ wanted \in [Paths -> {"never", "saved", "removed"}]
      /\ wanted' \in [Paths -> {"never", "saved", "removed"}]
  BY <1>1 DEF IndexInv
<1>5. \A p \in Paths : wanted'[p] = IF p = q /\ wanted[p] = "saved" THEN "removed" ELSE wanted[p]
  BY <1>1, <1>4
<1>6. \A p \in Paths : Saves(t, p) \/ (Allowed(p) /\ ~Erases(t, p)) => Allowed(p)'
  BY <1>3, <1>5 DEF Saves, Erases, Allowed
<1> QED BY <1>2, <1>4, <1>6, QueueingKeepsIndexInv

LEMMA ClearsKeepsIndexInv == IndexInv /\ Index!Clears => IndexInv'
<1> SUFFICES ASSUME IndexInv, Index!Clears PROVE IndexInv'
  OBVIOUS
<1> USE DEF Index!Clears
<1> DEFINE t == [kind |-> "clear", model |-> "none", docs |-> <<>>]
<1>1. t \in Tasks /\ queue' = Append(queue, t)
  BY NewTasks, NewTasksTyped
<1>2. t.kind = "clear"
  OBVIOUS
<1> HIDE DEF t
<1>3. \A p \in Paths : ~Saves(t, p) /\ Erases(t, p)
  BY <1>2 DEF Saves, Erases
<1>4. wanted' \in [Paths -> {"never", "saved", "removed"}]
  OBVIOUS
<1> QED BY <1>1, <1>3, <1>4, QueueingKeepsIndexInv

LEMMA ReadsKeepsIndexInv == IndexInv /\ Index!Reads => IndexInv'
<1> SUFFICES ASSUME IndexInv, Index!Reads PROVE IndexInv'
  OBVIOUS
<1> USE DEF Index!Reads
<1>1. \A p : WillHave(p)' <=> WillHave(p)
  BY DEF WillHave, HasPath, Erases, Saves, About, Index!Keys
<1>2. OnlyWanted'
  BY <1>1, AllowedStays DEF OnlyWanted, IndexInv
<1>3. WithoutDatabase' /\ WithinBound'
  BY DEF IndexInv, WithoutDatabase, WithinBound, Index!Stored, Index!Keys
<1>4. ReadIsTrue'
  BY DEF ReadIsTrue
<1>5. LocalUnused' /\ Fitting(indexed)' /\ Fitting(local)'
  BY RecordsStay
<1> QED BY <1>2, <1>3, <1>4, <1>5 DEF IndexInv

\* A mutation that ends.
LEMMA FinishKeepsIndexInv ==
  ASSUME IndexInv, queue # <<>>, Index!Finish(Head(queue)), failed' = failed \/ failed' = TRUE,
         WithoutDatabase', WithinBound', LocalUnused', Fitting(indexed'), Fitting(local'),
         ~failed' => \A p \in Paths :
           HasPath(p)' => Saves(Head(queue), p) \/ (HasPath(p) /\ ~Erases(Head(queue), p))
  PROVE  IndexInv'
<1> USE DEF Index!Finish
<1>1. queue \in Seq(Tasks) /\ queue' \in Seq(Tasks)
  BY DEF IndexInv
<1>2. found'.read = FALSE
  OBVIOUS
<1>3. ReadIsTrue'
  BY <1>2 DEF ReadIsTrue
<1>4. OnlyWanted'
  <2> SUFFICES ASSUME ~failed', NEW p \in Paths, WillHave(p)' PROVE Allowed(p)'
    BY DEF OnlyWanted
  <2>1. ~failed
    OBVIOUS
  <2>2. WillHave(p)
    BY <1>1, <2>1, FinishingIs
  <2> QED BY <2>1, <2>2, AllowedStays DEF IndexInv, OnlyWanted
<1>5. Fitting(indexed)' /\ Fitting(local)'
  BY DEF Fitting, Fits, Index!Keys, Index!NoRecord
<1> QED BY <1>1, <1>3, <1>4, <1>5 DEF IndexInv

\* A path has records when one is stored of it, before a step and after it.
LEMMA HasPathIs ==
  ASSUME NEW p
  PROVE  HasPath(p) <=> \E k \in Index!Stored(indexed) \cup Index!Stored(local) : k[2] = p
BY DEF HasPath, Index!Stored

LEMMA HasPathIsAfter ==
  ASSUME NEW p
  PROVE  HasPath(p)' <=> \E k \in Index!Stored(indexed') \cup Index!Stored(local') : k[2] = p
BY DEF HasPath, Index!Stored, Index!Keys

LEMMA HeadIs == IndexInv /\ queue # <<>> => Head(queue) \in Tasks
BY DEF IndexInv

LEMMA WritesKeepsIndexInv == IndexInv /\ Index!Writes => IndexInv'
<1> SUFFICES ASSUME IndexInv, Index!Writes PROVE IndexInv'
  OBVIOUS
<1> DEFINE t == Head(queue)
<1>1. database /\ queue # <<>> /\ t.kind # "clear" /\ found.rs = indexed
  BY DEF IndexInv, ReadIsTrue, Index!Writes
<1>2. t \in Tasks
  BY <1>1, HeadIs
<1>3. Index!WriteIndexed(Index!Changed(t, indexed)) /\ UNCHANGED <<local, failed>> /\ Index!Finish(t)
  BY <1>1 DEF Index!Writes
<1>4. Cardinality(Index!Stored(indexed)) <= MAX_RECORDS /\ Cardinality(Index!Stored(local)) <= MAX_RECORDS
  BY DEF IndexInv, WithinBound
<1>10. Fitting(indexed) /\ Fitting(local) /\ LocalUnused
  BY DEF IndexInv
<1> HIDE DEF t
<1>5. /\ Cardinality(Index!Stored(indexed')) <= MAX_RECORDS
      /\ \A k \in Index!Stored(indexed') : k \in Index!Stored(indexed) \/ Saves(t, k[2])
      /\ Fitting(indexed')
  BY <1>1, <1>2, <1>3, <1>4, <1>10, WritesWithin
<1>6. WithinBound'
  BY <1>3, <1>4, <1>5 DEF WithinBound, Index!Stored, Index!Keys
<1>7. WithoutDatabase'
  BY <1>1, <1>3 DEF WithoutDatabase, Index!Finish
<1>8. \A p : ~Erases(t, p)
  BY <1>1 DEF Erases
<1>9. \A p \in Paths : HasPath(p)' => Saves(t, p) \/ HasPath(p)
  BY <1>3, <1>5, HasPathIs, HasPathIsAfter
<1>11. LocalUnused' /\ Fitting(local')
  BY <1>3, <1>10 DEF LocalUnused, Index!Finish, Index!Stored, Index!Keys, Fitting
<1> QED BY <1>1, <1>3, <1>5, <1>6, <1>7, <1>8, <1>9, <1>11, FinishKeepsIndexInv DEF t

LEMMA FallsBackKeepsIndexInv == IndexInv /\ Index!FallsBack => IndexInv'
<1> SUFFICES ASSUME IndexInv, Index!FallsBack PROVE IndexInv'
  OBVIOUS
<1> DEFINE t == Head(queue)
           rs == Index!Changed(t, local)
<1>1. queue # <<>> /\ t.kind # "clear" /\ indexed' = indexed /\ Index!Finish(t)
  BY DEF Index!FallsBack
<1>2. t \in Tasks
  BY <1>1, HeadIs
<1>3. PICK b \in Index!Bounded(rs) :
        \/ local' = b /\ (IF database THEN failed' = TRUE ELSE failed' = failed)
        \/ /\ ~database /\ failed' = TRUE
           /\ \E some \in SUBSET Index!Stored(b) :
                local' = [k \in Index!Keys |-> IF k \in some THEN b[k]
                            ELSE IF k \in Index!Stored(b) THEN local[k] ELSE Index!NoRecord]
  <2>1. CASE database
    BY <2>1 DEF Index!FallsBack
  <2>2. CASE ~database
    BY <2>2 DEF Index!FallsBack, Index!WriteLocal
  <2> QED BY <2>1, <2>2
<1>4. Index!Stored(b) \subseteq Index!Stored(rs) /\ Cardinality(Index!Stored(b)) <= MAX_RECORDS
  BY BoundedIs
<1>5. Cardinality(Index!Stored(indexed)) <= MAX_RECORDS
  BY DEF IndexInv, WithinBound
<1>6. \A k \in Index!Stored(rs) :
        Saves(t, k[2]) \/ (k \in Index!Stored(local) /\ ~(t.kind = "remove" /\ About(t, k[2])))
  BY <1>1, <1>2, ChangedStores DEF Index!Stored
<1>13. Fitting(local) /\ Fitting(indexed) /\ Fitting(rs)
  BY <1>1, <1>2, ChangedFits DEF IndexInv
<1>14. Fitting(b)
  BY <1>13, BoundedFits
<1> HIDE DEF t, rs
<1>15. Fitting(local') /\ Fitting(indexed')
  <2>1. local' = b \/ \A k \in Index!Keys : local'[k] \in {Index!NoRecord, b[k], local[k]}
    BY <1>3
  <2>2. Fitting(local')
    BY <1>13, <1>14, <2>1, MixFits
  <2> QED BY <1>1, <1>13, <2>2
<1>16. LocalUnused'
  BY <1>1, <1>3 DEF LocalUnused, Index!Finish
<1>7. Index!Stored(local') \subseteq Index!Stored(b)
  BY <1>3 DEF Index!Stored
<1>8. Cardinality(Index!Stored(local')) <= MAX_RECORDS
  <2>1. Cardinality(Index!Stored(local')) <= Cardinality(Index!Stored(b))
    BY <1>7, FewerStored
  <2> QED BY <1>4, <2>1, StoredFinite, IndexAssumption
<1>9. WithinBound'
  BY <1>1, <1>5, <1>8 DEF WithinBound, Index!Stored, Index!Keys
<1>10. WithoutDatabase'
  BY <1>1 DEF IndexInv, WithoutDatabase, Index!Finish, Index!Stored, Index!Keys
<1>11. failed' = failed \/ failed' = TRUE
  BY <1>3
<1>12. ASSUME ~failed', NEW p \in Paths, HasPath(p)'
       PROVE  Saves(t, p) \/ (HasPath(p) /\ ~Erases(t, p))
  <2>1. ~database /\ local' = b
    BY <1>3, <1>12
  <2>2. Index!Stored(indexed') = {}
    BY <1>1, <2>1 DEF IndexInv, WithoutDatabase
  <2>3. PICK k \in Index!Stored(local') : k[2] = p
    BY <1>12, <2>2, HasPathIsAfter
  <2>4. Saves(t, p) \/ (k \in Index!Stored(local) /\ ~(t.kind = "remove" /\ About(t, p)))
    BY <1>4, <1>6, <1>7, <2>3
  <2> QED BY <1>1, <2>3, <2>4, HasPathIs DEF Erases
<1> QED BY <1>1, <1>9, <1>10, <1>11, <1>12, <1>15, <1>16, FinishKeepsIndexInv DEF t

LEMMA ClearsAllKeepsIndexInv == IndexInv /\ Index!ClearsAll => IndexInv'
<1> SUFFICES ASSUME IndexInv, Index!ClearsAll PROVE IndexInv'
  OBVIOUS
<1>1. queue # <<>> /\ Index!Finish(Head(queue)) /\ database' = database
  BY DEF Index!ClearsAll, Index!Finish
<1>2. Index!Stored(Index!NoRecords) = {}
  BY DEF Index!Stored, Index!NoRecords
<1>3. Cardinality({}) = 0 /\ 0 <= MAX_RECORDS
  BY FS_EmptySet, IndexAssumption
<1>4. Index!Stored(local') = {} /\ (Index!Stored(indexed') = {} \/ (database /\ indexed' = indexed /\ failed' = TRUE))
  BY <1>2 DEF Index!ClearsAll
<1>5. failed' = failed \/ failed' = TRUE
  BY DEF Index!ClearsAll
<1>6. Cardinality(Index!Stored(indexed)) <= MAX_RECORDS
  BY DEF IndexInv, WithinBound
<1>7. /\ Cardinality(Index!Stored(indexed')) <= MAX_RECORDS
      /\ Cardinality(Index!Stored(local')) <= MAX_RECORDS
  BY <1>3, <1>4, <1>6
<1>8. WithinBound'
  BY <1>7 DEF WithinBound, Index!Stored, Index!Keys
<1>9. ~database => Index!Stored(indexed') = {}
  BY <1>4
<1>10. WithoutDatabase'
  BY <1>1, <1>9 DEF WithoutDatabase, Index!Stored, Index!Keys
<1>11. ~failed' => \A p \in Paths : ~HasPath(p)'
  BY <1>4, HasPathIsAfter
<1>12. LocalUnused'
  BY <1>4 DEF LocalUnused, Index!Stored, Index!Keys
<1>13. Fitting(local') /\ Fitting(indexed')
  <2>1. Fitting(Index!NoRecords)
    BY DEF Fitting, Fits, Index!NoRecords
  <2>2. local' = Index!NoRecords /\ indexed' \in {Index!NoRecords, indexed}
    BY DEF Index!ClearsAll
  <2> QED BY <2>1, <2>2 DEF IndexInv
<1> QED BY <1>1, <1>5, <1>8, <1>10, <1>11, <1>12, <1>13, FinishKeepsIndexInv

LEMMA IndexInvInit == Index!Init => IndexInv
<1> SUFFICES ASSUME Index!Init PROVE IndexInv
  OBVIOUS
<1> USE DEF Index!Init
<1>1. Index!Stored(Index!NoRecords) = {}
  BY DEF Index!Stored, Index!NoRecords
<1>2. Cardinality({}) = 0 /\ 0 <= MAX_RECORDS
  BY FS_EmptySet, IndexAssumption
<1>3. WithinBound /\ WithoutDatabase
  BY <1>1, <1>2 DEF WithinBound, WithoutDatabase
<1>4. \A p : ~HasPath(p)
  BY <1>1, HasPathIs
<1>5. OnlyWanted
  <2>1. \A p : ~WillHave(p)
    BY <1>4 DEF WillHave
  <2> QED BY <2>1 DEF OnlyWanted
<1>6. found.read = FALSE
  OBVIOUS
<1>7. ReadIsTrue
  BY <1>6 DEF ReadIsTrue
<1>8. LocalUnused /\ Fitting(indexed) /\ Fitting(local)
  BY <1>1 DEF LocalUnused, Fitting, Fits, Index!NoRecords
<1> QED BY <1>3, <1>5, <1>7, <1>8 DEF IndexInv

LEMMA IndexInvNext == IndexInv /\ Index!Next => IndexInv'
BY RetrievesKeepsIndexInv, EmbeddedKeepsIndexInv, RemovesKeepsIndexInv, ClearsKeepsIndexInv,
   ReadsKeepsIndexInv, WritesKeepsIndexInv, FallsBackKeepsIndexInv, ClearsAllKeepsIndexInv
   DEF Index!Next

LEMMA IndexInvImplies == IndexInv => Index!VectorsFit /\ Index!IndexBounded
<1> SUFFICES ASSUME IndexInv PROVE Index!VectorsFit /\ Index!IndexBounded
  OBVIOUS
<1>1. Index!VectorsFit
  BY TakenFits DEF Index!VectorsFit, IndexInv
<1>2. \A rs \in {indexed, local} : Index!Cardinality(Index!Stored(rs)) <= MAX_RECORDS
  BY IndexCardinality DEF IndexInv, WithinBound
<1>3. ASSUME ~failed, queue = <<>>, NEW k \in Index!Stored(indexed) \cup Index!Stored(local)
      PROVE  Allowed(k[2])
  <2>1. k \in Models \X Paths
    BY DEF Index!Stored, Index!Keys
  <2>2. HasPath(k[2]) /\ k[2] \in Paths
    BY <2>1, HasPathIs
  <2>3. WillHave(k[2])
    BY <1>3, <2>2 DEF WillHave
  <2> QED BY <1>3, <2>2, <2>3 DEF IndexInv, OnlyWanted
<1>5. ~failed => /\ database => Index!Stored(local) = {}
                 /\ ~database => Index!Stored(indexed) = {}
  BY DEF IndexInv, LocalUnused, WithoutDatabase
<1>4. Index!IndexBounded
  BY <1>2, <1>3, <1>5 DEF Index!IndexBounded, Allowed
<1> QED BY <1>1, <1>4

-----------------------------------------------------------------------------
\* A set of natural numbers has a least member.
LEMMA Least ==
  ASSUME NEW T \in SUBSET Nat, T # {}
  PROVE  \E m \in T : \A k \in T : m <= k
<1>1. IsWellFoundedOn(OpToRel(<, Nat), Nat)
  BY NatLessThanWellFounded
<1>2. PICK x \in T : \A y \in T : ~ (<<y, x>> \in OpToRel(<, Nat))
  BY <1>1, WFMin
<1>3. ASSUME NEW y \in T PROVE x <= y
  <2>1. x \in Nat /\ y \in Nat
    OBVIOUS
  <2>2. ~(y < x)
    BY <1>2, <2>1 DEF OpToRel
  <2> QED BY <2>1, <2>2
<1> QED BY <1>3

-----------------------------------------------------------------------------
\* A size in a configuration.
OptionsNumber == Int \cup {NotANumber}

\* A body that was sent, and the options it was made of.
OptionsBody(keys, tools, reasoning, effort) ==
  [of |-> keys, reasoning |-> reasoning, from |-> Options!Body(keys, tools, reasoning, effort)]

OptionsSizes == [batch : 1..MaxSize, micro : 1..MaxSize, keep : 0..MaxSize]

\* No managed switch is in the arguments, a body was built of some options, and
\* the sizes are within the limits; the micro batch is within the batch unless a
\* save is under way, and was before it.
OptionsKeep(o) ==
  /\ o = [about |-> o.about, args |-> o.args, keys |-> o.keys, body |-> o.body, cfg |-> o.cfg,
         before |-> o.before]
  /\ \A i \in DOMAIN o.args : o.args[i].name \notin Options!ManagedNames
  /\ o.body # <<>> =>
       \E keys, tools, reasoning : \E effort \in {"default", "low"} :
         o.body = OptionsBody(keys, tools, reasoning, effort)
  /\ o.cfg \in OptionsSizes
  /\ \/ o.before = {} /\ o.cfg.micro <= o.cfg.batch
     \/ \E c \in OptionsSizes : o.before = {c} /\ c.micro <= c.batch

OptionsInv == OptionsKeep(panel)

\* A patch of some of the sizes.
OptionsPatch(p, fields) ==
  p = [k \in fields |-> p[k]] /\ \A k \in fields : p[k] \in OptionsNumber

\* A size is limited, or is the default when it is no number, and one within
\* its limits is left as it is (config.rs).
LEMMA OptionsBounded ==
  ASSUME NEW n \in OptionsNumber, NEW fallback \in Int, NEW low \in Int, NEW high \in Int, low <= high
  PROVE  /\ Options!Bounded(n, fallback, low, high) \in Int
         /\ Options!Bounded(n, fallback, low, high) = fallback \/ Options!Bounded(n, fallback, low, high) \in low..high
         /\ n \in low..high => Options!Bounded(n, fallback, low, high) = n
<1>1. CASE n = NotANumber
  <2>1. Options!Bounded(n, fallback, low, high) = fallback
    BY <1>1 DEF Options!Bounded
  <2> QED BY <1>1, <2>1, OptionsAssumption
<1>2. CASE n # NotANumber
  <2>1. n \in Int
    BY <1>2 DEF OptionsNumber
  <2>2. Options!Bounded(n, fallback, low, high) = IF n < low THEN low ELSE IF n > high THEN high ELSE n
    BY <1>2 DEF Options!Bounded, Options!Clamp
  <2> QED BY <2>1, <2>2
<1> QED BY <1>1, <1>2

\* The sizes the back end reads and keeps are within the limits, and the micro batch
\* is within the batch, whatever it was given (AppConfig::normalize, in config.rs).
LEMMA OptionsKept ==
  ASSUME NEW c, c.batch \in Int, c.micro \in Int, c.keep \in Int
  PROVE  Options!Kept(c) \in OptionsSizes /\ Options!Kept(c).micro <= Options!Kept(c).batch
<1> DEFINE batch == Options!Clamp(c.batch, 1, MaxSize)
           micro == Options!Clamp(c.micro, 1, batch)
           keep == Options!Clamp(c.keep, 0, MaxSize)
<1>1. batch \in 1..MaxSize /\ keep \in 0..MaxSize
  BY OptionsAssumption DEF Options!Clamp
<1> HIDE DEF batch, keep
<1>2. micro \in 1..MaxSize /\ micro <= batch
  BY <1>1, OptionsAssumption DEF Options!Clamp
<1>3. Options!Kept(c) = [batch |-> batch, micro |-> micro, keep |-> keep]
  BY DEF Options!Kept, batch, keep
<1> HIDE DEF micro
<1> QED BY <1>1, <1>2, <1>3 DEF OptionsSizes

\* What fits is left as it is when it is loaded (normalizeTypedTuning).
LEMMA OptionsLoaded ==
  ASSUME NEW c \in OptionsSizes, c.micro <= c.batch
  PROVE  Options!Loaded(c) = c
<1>1. /\ c.batch \in 1..MaxSize /\ c.micro \in 1..MaxSize /\ c.keep \in 0..MaxSize
      /\ c = [batch |-> c.batch, micro |-> c.micro, keep |-> c.keep]
  BY DEF OptionsSizes
<1>2. ASSUME NEW n \in Int, NEW fallback, NEW low \in Int, NEW high \in Int, n \in low..high
      PROVE  Options!Bounded(n, fallback, low, high) = n
  BY <1>2, OptionsAssumption DEF Options!Bounded, Options!Clamp
<1>3. Options!Bounded(c.batch, 3, 1, MaxSize) = c.batch
  BY <1>1, <1>2, OptionsAssumption
<1>4. Options!Bounded(c.micro, 2, 1, c.batch) = c.micro
  BY <1>1, <1>2, OptionsAssumption
<1>5. Options!Bounded(c.keep, 0, 0, MaxSize) = c.keep
  BY <1>1, <1>2, OptionsAssumption
<1> QED BY <1>1, <1>3, <1>4, <1>5 DEF Options!Loaded, Options!DefaultBatch, Options!DefaultMicro

\* The sizes a save sends are within the limits, and those that were are left
\* as they are (normalizeConfigPatch, in storeConfig.ts).
LEMMA OptionsPatched ==
  ASSUME NEW fields \in SUBSET {"batch", "micro", "keep"}, NEW p,
         OptionsPatch(p, fields)
  PROVE  /\ DOMAIN Options!Patched(p) = fields
         /\ Options!Patched(p) = [k \in fields |-> Options!Patched(p)[k]]
         /\ "batch" \in fields => Options!Patched(p)["batch"] \in 1..MaxSize
         /\ "micro" \in fields => Options!Patched(p)["micro"] \in 1..MaxSize
         /\ "keep" \in fields => Options!Patched(p)["keep"] \in 0..MaxSize
         /\ "batch" \in fields /\ p["batch"] \in 1..MaxSize => Options!Patched(p)["batch"] = p["batch"]
         /\ "batch" \in fields /\ "micro" \in fields /\ p["batch"] \in 1..MaxSize /\ p["micro"] \in 1..p["batch"]
              => Options!Patched(p)["micro"] = p["micro"]
         /\ "keep" \in fields /\ p["keep"] \in 0..MaxSize => Options!Patched(p)["keep"] = p["keep"]
<1> DEFINE batch == IF "batch" \in DOMAIN p THEN Options!Bounded(p["batch"], 3, 1, MaxSize) ELSE MaxSize
<1>0. DOMAIN p = fields /\ \A k \in fields : p[k] \in OptionsNumber
  BY DEF OptionsPatch
<1>1. batch \in 1..MaxSize /\ ("batch" \in fields /\ p["batch"] \in 1..MaxSize => batch = p["batch"])
  <2>1. CASE "batch" \in fields
    <3>1. batch = Options!Bounded(p["batch"], 3, 1, MaxSize)
      BY <1>0, <2>1
    <3>2. p["batch"] \in OptionsNumber
      BY <1>0, <2>1
    <3> DEFINE n == p["batch"]
    <3> HIDE DEF batch, n
    <3>3. batch = 3 \/ batch \in 1..MaxSize
      BY <3>1, <3>2, OptionsBounded, OptionsAssumption DEF n
    <3>4. n \in 1..MaxSize => batch = n
      BY <3>1, <3>2, OptionsBounded, OptionsAssumption DEF n
    <3> QED BY <3>3, <3>4, OptionsAssumption DEF n
  <2>2. CASE "batch" \notin fields
    BY <1>0, <2>2, OptionsAssumption
  <2> QED BY <2>1, <2>2
<1>2. Options!Patched(p) = [ k \in DOMAIN p |->
          CASE k = "batch" -> batch
            [] k = "micro" -> Options!Bounded(p[k], 2, 1, batch)
            [] k = "keep" -> Options!Bounded(p[k], 0, 0, MaxSize) ]
  BY DEF Options!Patched, Options!DefaultBatch, Options!DefaultMicro
<1> HIDE DEF batch
<1>3. "batch" \in fields => Options!Patched(p)["batch"] = batch
  BY <1>0, <1>2
<1>4. "micro" \in fields => Options!Patched(p)["micro"] = Options!Bounded(p["micro"], 2, 1, batch)
  BY <1>0, <1>2
<1>5. "keep" \in fields => Options!Patched(p)["keep"] = Options!Bounded(p["keep"], 0, 0, MaxSize)
  BY <1>0, <1>2
<1>6. DOMAIN Options!Patched(p) = fields /\ Options!Patched(p) = [k \in fields |-> Options!Patched(p)[k]]
  <2> DEFINE value(k) == CASE k = "batch" -> batch
                           [] k = "micro" -> Options!Bounded(p[k], 2, 1, batch)
                           [] k = "keep" -> Options!Bounded(p[k], 0, 0, MaxSize)
  <2>1. Options!Patched(p) = [k \in fields |-> value(k)]
    BY <1>0, <1>2
  <2> HIDE DEF value
  <2> QED BY <2>1
<1>7. ASSUME "micro" \in fields
      PROVE  /\ Options!Patched(p)["micro"] \in 1..MaxSize
             /\ p["micro"] \in 1..batch => Options!Patched(p)["micro"] = p["micro"]
  <2> DEFINE n == p["micro"]
             m == Options!Bounded(n, 2, 1, batch)
  <2>0. n \in OptionsNumber /\ batch \in Int /\ 1 <= batch
    BY <1>0, <1>1, <1>7, OptionsAssumption
  <2> HIDE DEF n
  <2>1. m = 2 \/ m \in 1..batch
    BY <2>0, OptionsBounded
  <2>2. n \in 1..batch => m = n
    BY <2>0, OptionsBounded
  <2> HIDE DEF m
  <2>3. m \in 1..MaxSize
    BY <1>1, <2>1, OptionsAssumption
  <2> QED BY <1>4, <1>7, <2>2, <2>3 DEF m, n
<1>8. ASSUME "keep" \in fields
      PROVE  /\ Options!Patched(p)["keep"] \in 0..MaxSize
             /\ p["keep"] \in 0..MaxSize => Options!Patched(p)["keep"] = p["keep"]
  <2> DEFINE n == p["keep"]
             m == Options!Bounded(n, 0, 0, MaxSize)
  <2>0. n \in OptionsNumber /\ MaxSize \in Int /\ 0 <= MaxSize
    BY <1>0, <1>8, OptionsAssumption
  <2> HIDE DEF n
  <2>1. m = 0 \/ m \in 0..MaxSize
    BY <2>0, OptionsBounded
  <2>2. n \in 0..MaxSize => m = n
    BY <2>0, OptionsBounded
  <2> HIDE DEF m
  <2>3. m \in 0..MaxSize
    BY <2>0, <2>1
  <2> QED BY <1>5, <1>8, <2>2, <2>3 DEF m, n
<1> QED BY <1>1, <1>3, <1>6, <1>7, <1>8

\* The options start with the invariant.
LEMMA OptionsInit == ASSUME Options!Init PROVE OptionsInv
<1>1. PICK c \in Options!Config, about \in {"args", "chat", "sizes"} :
        panel = [about |-> about, args |-> <<>>, keys |-> {}, body |-> <<>>,
                 cfg |-> IF about = "sizes" THEN Options!Loaded(Options!Kept(c)) ELSE Options!Defaults,
                 before |-> {}]
  BY DEF Options!Init
<1>2. panel.cfg \in OptionsSizes /\ panel.cfg.micro <= panel.cfg.batch
  <2>1. Options!Kept(c) \in OptionsSizes /\ Options!Kept(c).micro <= Options!Kept(c).batch
    BY OptionsKept, OptionsAssumption DEF Options!Config
  <2>2. Options!Loaded(Options!Kept(c)) = Options!Kept(c)
    BY <2>1, OptionsLoaded
  <2>3. Options!Defaults \in OptionsSizes /\ Options!Defaults.micro <= Options!Defaults.batch
    BY OptionsAssumption DEF Options!Defaults, Options!DefaultBatch, Options!DefaultMicro, OptionsSizes
  <2> QED BY <1>1, <2>1, <2>2, <2>3
<1>3. panel.args = <<>> /\ panel.body = <<>> /\ panel.before = {}
  BY <1>1
<1>4. \A i \in DOMAIN panel.args : panel.args[i].name \notin Options!ManagedNames
  BY <1>3
<1>5. panel = [about |-> panel.about, args |-> panel.args, keys |-> panel.keys, body |-> panel.body, cfg |-> panel.cfg,
         before |-> panel.before]
  BY <1>1
<1> QED BY <1>2, <1>3, <1>4, <1>5 DEF OptionsInv, OptionsKeep

\* Every edit of the raw options, every request and every save keeps the
\* invariant (tuningValidation.ts, api.ts, storeConfig.ts).
LEMMA OptionsNext == ASSUME OptionsInv, Options!Next PROVE OptionsInv'
<1>0. OptionsKeep(panel) /\ panel = [about |-> panel.about, args |-> panel.args, keys |-> panel.keys, body |-> panel.body, cfg |-> panel.cfg,
         before |-> panel.before]
  BY DEF OptionsInv, OptionsKeep
<1>1. CASE Options!SaveArgs
  <2>1. PICK line \in Options!Lines : line.name \notin Options!ManagedNames
          /\ panel' = [panel EXCEPT !.args = <<line, [name |-> "value", inline |-> FALSE]>>]
    BY <1>1 DEF Options!SaveArgs, Options!Blocked
  <2> DEFINE args == <<line, [name |-> "value", inline |-> FALSE]>>
  <2>2. panel' = [about |-> panel.about, args |-> args, keys |-> panel.keys, body |-> panel.body, cfg |-> panel.cfg,
         before |-> panel.before]
    BY <1>0, <2>1
  <2>3. "value" \notin Options!ManagedNames
    BY DEF Options!ManagedNames, Options!Managed
  <2>4. DOMAIN args = 1..2 /\ args[1] = line /\ args[2].name = "value"
    OBVIOUS
  <2>5. \A i \in DOMAIN args : args[i].name \notin Options!ManagedNames
    BY <2>1, <2>3, <2>4
  <2> HIDE DEF args
  <2> QED BY <1>0, <2>2, <2>5 DEF OptionsInv, OptionsKeep
<1>2. CASE Options!SaveChatOptions \/ Options!Imported
  <2>1. PICK keys : panel' = [panel EXCEPT !.keys = keys, !.body = <<>>]
    BY <1>2 DEF Options!SaveChatOptions, Options!Imported
  <2>2. panel' = [about |-> panel.about, args |-> panel.args, keys |-> keys, body |-> <<>>, cfg |-> panel.cfg,
         before |-> panel.before]
    BY <1>0, <2>1
  <2> QED BY <1>0, <2>2 DEF OptionsInv, OptionsKeep
<1>3. CASE Options!Sends
  <2>1. PICK tools \in BOOLEAN, reasoning \in {"off", "auto"}, effort \in {"default", "low"} :
          panel' = [panel EXCEPT !.body = OptionsBody(panel.keys, tools, reasoning, effort)]
    BY <1>3 DEF Options!Sends, OptionsBody
  <2> DEFINE body == OptionsBody(panel.keys, tools, reasoning, effort)
  <2>2. panel' = [about |-> panel.about, args |-> panel.args, keys |-> panel.keys, body |-> body, cfg |-> panel.cfg,
         before |-> panel.before]
    BY <1>0, <2>1
  <2>3. \E keys, t, r : \E e \in {"default", "low"} : body = OptionsBody(keys, t, r, e)
    OBVIOUS
  <2> HIDE DEF body
  <2> QED BY <1>0, <2>2, <2>3 DEF OptionsInv, OptionsKeep
<1>4. CASE Options!Patches
  <2>1. PICK fields \in SUBSET {"batch", "micro", "keep"} : \E p \in [fields -> TypedSizes \cup {NotANumber}] :
          panel' = [panel EXCEPT !.cfg = [k \in DOMAIN @ |-> IF k \in fields THEN Options!Patched(p)[k] ELSE @[k]],
                                 !.before = {panel.cfg}]
    BY <1>4 DEF Options!Patches
  <2>2. PICK p \in [fields -> TypedSizes \cup {NotANumber}] :
          panel' = [panel EXCEPT !.cfg = [k \in DOMAIN @ |-> IF k \in fields THEN Options!Patched(p)[k] ELSE @[k]],
                                 !.before = {panel.cfg}]
    BY <2>1
  <2> DEFINE q == Options!Patched(p)
             cfg == [k \in DOMAIN panel.cfg |-> IF k \in fields THEN q[k] ELSE panel.cfg[k]]
  <2>3. panel' = [about |-> panel.about, args |-> panel.args, keys |-> panel.keys, body |-> panel.body, cfg |-> cfg,
                   before |-> {panel.cfg}]
    BY <1>0, <2>2
  <2>4. /\ "batch" \in fields => q["batch"] \in 1..MaxSize
        /\ "micro" \in fields => q["micro"] \in 1..MaxSize
        /\ "keep" \in fields => q["keep"] \in 0..MaxSize
    <3>1. OptionsPatch(p, fields)
      BY OptionsAssumption DEF OptionsNumber, OptionsPatch
    <3> QED BY <3>1, OptionsPatched
  <2> HIDE DEF q
  <2>5. cfg \in [batch : 1..MaxSize, micro : 1..MaxSize, keep : 0..MaxSize]
    <3>1. panel.cfg \in [batch : 1..MaxSize, micro : 1..MaxSize, keep : 0..MaxSize]
      BY <1>0 DEF OptionsKeep, OptionsSizes
    <3>2. DOMAIN panel.cfg = {"batch", "micro", "keep"}
      BY <3>1
    <3>3. cfg["batch"] \in 1..MaxSize /\ cfg["micro"] \in 1..MaxSize /\ cfg["keep"] \in 0..MaxSize
      BY <2>4, <3>1, <3>2
    <3>4. cfg = [batch |-> cfg["batch"], micro |-> cfg["micro"], keep |-> cfg["keep"]]
      BY <3>2
    <3> HIDE DEF cfg
    <3> QED BY <3>3, <3>4
  <2>6. panel.cfg \in OptionsSizes /\ panel.cfg.micro <= panel.cfg.batch
    BY <1>0, <1>4 DEF OptionsKeep, Options!Patches
  <2> HIDE DEF cfg
  <2> QED BY <1>0, <2>3, <2>5, <2>6 DEF OptionsInv, OptionsKeep, OptionsSizes
<1>5. CASE Options!Saved
  <2> DEFINE cfg == Options!Kept(panel.cfg)
  <2>1. panel.cfg.batch \in Int /\ panel.cfg.micro \in Int /\ panel.cfg.keep \in Int
    BY <1>0, OptionsAssumption DEF OptionsKeep, OptionsSizes
  <2>2. cfg \in OptionsSizes /\ cfg.micro <= cfg.batch
    BY <2>1, OptionsKept
  <2>3. panel' = [about |-> panel.about, args |-> panel.args, keys |-> panel.keys, body |-> panel.body, cfg |-> cfg,
                   before |-> {}]
    BY <1>0, <1>5 DEF Options!Saved
  <2> HIDE DEF cfg
  <2> QED BY <1>0, <2>2, <2>3 DEF OptionsInv, OptionsKeep
<1>6. CASE Options!SaveFails
  <2>1. PICK c \in panel.before : panel' = [panel EXCEPT !.cfg = c, !.before = {}]
    BY <1>6 DEF Options!SaveFails
  <2>2. c \in OptionsSizes /\ c.micro <= c.batch
    BY <1>0, <2>1 DEF OptionsKeep
  <2>3. panel' = [about |-> panel.about, args |-> panel.args, keys |-> panel.keys, body |-> panel.body, cfg |-> c,
                   before |-> {}]
    BY <1>0, <2>1
  <2> QED BY <1>0, <2>2, <2>3 DEF OptionsInv, OptionsKeep
<1> QED BY <1>1, <1>2, <1>3, <1>4, <1>5, <1>6 DEF Options!Next

\* A body has the keys of the application with the application's values
\* (api.ts).
LEMMA OptionsBodies ==
  ASSUME NEW keys, NEW tools, NEW reasoning, NEW effort \in {"default", "low"},
         NEW from, from = Options!Body(keys, tools, reasoning, effort)
  PROVE  /\ \A k \in Options!Owned : from[k] = "app"
         /\ "tools" \in DOMAIN from => from["tools"] = "app"
         /\ DOMAIN from \cap DOMAIN Options!RequestKey = {}
         /\ \A k \in DOMAIN from \cap keys : from[k] \in {k, "app", "none", "low"}
         /\ reasoning = "off" => from["chat_template_kwargs"] = "none"
<1> DEFINE chosen == Options!Effort(reasoning, effort)
           typed == Options!Mapped(keys)
           E == Options!OfEffort(chosen)
           A == Options!OfApp(tools)
<1>1. chosen \in {"none", "low", "default"} /\ (reasoning = "off" => chosen = "none")
  BY DEF Options!Effort
<1>2. E \subseteq {"reasoning_effort", "chat_template_kwargs"} /\ (reasoning = "off" => "chat_template_kwargs" \in E)
      /\ (E # {} => chosen \in {"none", "low"})
  BY <1>1 DEF Options!OfEffort
<1>3. Options!Owned \subseteq A /\ A \subseteq Options!Owned \cup {"tools"} /\ "mirostat_lr" \notin A /\ "mirostat_ent" \notin A
  BY DEF Options!OfApp, Options!Owned, Options!Reserved
<1>4. DOMAIN Options!RequestKey = {"mirostat_lr", "mirostat_ent"}
  BY DEF Options!RequestKey
<1>5. "mirostat_lr" \notin DOMAIN typed /\ "mirostat_ent" \notin DOMAIN typed
  BY DEF Options!Mapped, Options!RequestKey
<1>6. \A k \in DOMAIN typed \cap keys : typed[k] = k
  BY DEF Options!Mapped
<1>7. from = [k \in E \cup A \cup (DOMAIN typed \ {"tools"}) |->
                IF k \in E THEN chosen ELSE IF k \in A THEN "app" ELSE typed[k]]
  BY DEF Options!Body
<1> HIDE DEF chosen, typed, E, A
<1>8. \A k \in Options!Owned : from[k] = "app"
  <2> TAKE k \in Options!Owned
  <2>1. k \in A /\ k \notin E
    BY <1>2, <1>3 DEF Options!Owned, Options!Reserved
  <2> QED BY <1>7, <2>1
<1>9. "tools" \in DOMAIN from => from["tools"] = "app"
  BY <1>2, <1>7
<1>10. DOMAIN from \cap DOMAIN Options!RequestKey = {}
  BY <1>2, <1>3, <1>4, <1>5, <1>7
<1>11. \A k \in DOMAIN from \cap keys : from[k] \in {k, "app", "none", "low"}
  BY <1>2, <1>6, <1>7
<1>12. reasoning = "off" => from["chat_template_kwargs"] = "none"
  BY <1>1, <1>2, <1>7
<1> QED BY <1>8, <1>9, <1>10, <1>11, <1>12

\* Each switch the panel manages is one name of a managed set.
LEMMA OptionsNames ==
  /\ \A f \in DOMAIN Options!FieldAliases : Options!FieldAliases[f] \subseteq Options!ManagedNames
  /\ DOMAIN Options!FieldAliases \subseteq Options!Snapshot
<1>1. DOMAIN Options!FieldAliases \subseteq Options!Snapshot
  BY DEF Options!FieldAliases, Options!Snapshot
<1>2. ASSUME NEW f \in DOMAIN Options!FieldAliases PROVE Options!FieldAliases[f] \subseteq Options!ManagedNames
  BY SMTT(30) DEF Options!FieldAliases, Options!ManagedNames, Options!Managed
<1> QED BY <1>1, <1>2

\* What the invariant says of the options: controls win over switches written
\* by hand, a request is the application's, and the sizes hold.
LEMMA OptionsShow ==
  ASSUME OptionsInv PROVE Options!ControlsWin /\ Options!RequestIsTheApps /\ Options!SizesHold
<1>0. OptionsKeep(panel)
  BY DEF OptionsInv
<1>1. Options!ControlsWin
  BY <1>0, OptionsNames DEF OptionsKeep, Options!ControlsWin
<1>2. Options!RequestIsTheApps
  <2> SUFFICES ASSUME panel.body # <<>>
      PROVE  LET from == panel.body.from IN
             /\ \A k \in Options!Owned : from[k] = "app"
             /\ "tools" \in DOMAIN from => from["tools"] = "app"
             /\ DOMAIN from \cap DOMAIN Options!RequestKey = {}
             /\ \A k \in DOMAIN from \cap panel.body.of : from[k] \in {k, "app", "none", "low"}
             /\ panel.body.reasoning = "off" => from["chat_template_kwargs"] = "none"
    BY DEF Options!RequestIsTheApps
  <2>0. PICK keys, tools, reasoning : \E effort \in {"default", "low"} :
         panel.body = OptionsBody(keys, tools, reasoning, effort)
    BY <1>0 DEF OptionsKeep
  <2>1. PICK effort \in {"default", "low"} : panel.body = OptionsBody(keys, tools, reasoning, effort)
    BY <2>0
  <2>2. panel.body.of = keys /\ panel.body.from = Options!Body(keys, tools, reasoning, effort)
    BY <2>1 DEF OptionsBody
  <2>3. panel.body.reasoning = reasoning
    BY <2>1 DEF OptionsBody
  <2> QED BY <2>2, <2>3, OptionsBodies
<1>3. Options!SizesHold
  <2> DEFINE c == panel.cfg
  <2>1. c \in [batch : 1..MaxSize, micro : 1..MaxSize, keep : 0..MaxSize]
    BY <1>0 DEF OptionsKeep, OptionsSizes
  <2> HIDE DEF c
  <2>2. c.batch \in 1..MaxSize /\ c.micro \in 1..MaxSize /\ c.keep \in 0..MaxSize
    BY <2>1
  <2>3. c = [batch |-> c.batch, micro |-> c.micro, keep |-> c.keep]
    BY <2>1
  <2>4. ASSUME c.micro <= c.batch PROVE Options!Patched(c) = c
    <3> DEFINE fields == {"batch", "micro", "keep"}
               q == Options!Patched(c)
    <3>1. c = [k \in fields |-> c[k]]
      BY <2>1
    <3>2. OptionsPatch(c, fields)
      BY <2>2, <3>1 DEF OptionsNumber, OptionsPatch
    <3>3. c["micro"] \in 1..c["batch"]
      BY <2>2, <2>4
    <3>4. q = [k \in fields |-> q[k]] /\ q["batch"] = c["batch"] /\ q["micro"] = c["micro"] /\ q["keep"] = c["keep"]
      BY <2>2, <3>2, <3>3, OptionsPatched
    <3> HIDE DEF q
    <3>6. \A k \in fields : q[k] = c[k]
      BY <3>4
    <3> DEFINE g == [k \in fields |-> c[k]]
    <3>7. q = g
      BY <3>4, <3>6
    <3>8. c = g
      BY <3>1
    <3> HIDE DEF g
    <3>9. q = c
      BY <3>7, <3>8
    <3> QED BY <3>9 DEF q
  <2>5. ASSUME c.micro <= c.batch PROVE Options!Loaded(c) = c
    BY <2>1, <2>5, OptionsLoaded DEF OptionsSizes
  <2>6. panel.before = {} => c.micro <= c.batch
    BY <1>0 DEF OptionsKeep, c
  <2> QED BY <2>2, <2>4, <2>5, <2>6 DEF Options!SizesHold, c
<1> QED BY <1>1, <1>2, <1>3

-----------------------------------------------------------------------------
\* The sizes of a batch.
LimitsBatch == {b \in Int : 1 <= b /\ b <= 131072}

\* The ends of a number field, at the panel and at the back end.
LimitsEnds(f) ==
  /\ Limits!Field(f).min \in Int /\ Limits!Field(f).max \in Int /\ Limits!Field(f).min <= Limits!Field(f).max
  /\ f \in DOMAIN Limits!Numbers \ {"ubatch_size"} =>
       \A b : Limits!Range(f, b) = <<Limits!Field(f).min, Limits!Field(f).max>>
  /\ f \notin DOMAIN Limits!Numbers => Limits!Options[f].default \in Limits!Field(f).min..Limits!Field(f).max

\* The values a field may have: a number between its ends, one of the list's.
LimitsAllowed(f) ==
  IF f \in Limits!NumberFields THEN Limits!Field(f).min..Limits!Field(f).max ELSE Limits!Lists[f]
LimitsValues == UNION {LimitsAllowed(f) : f \in Limits!Fields}

LimitsType ==
  [ field : Limits!Fields, value : LimitsValues, batch : LimitsBatch, draft : SUBSET Int,
    asked : SUBSET LimitsValues, kept : SUBSET LimitsValues ]

\* What is shown, asked and kept is allowed, and what is kept is what was asked.
LimitsKeep(l) ==
  /\ l.value \in LimitsAllowed(l.field)
  /\ l.field = "ubatch_size" => l.value <= l.batch
  /\ l.draft # {} => l.field \in Limits!NumberFields /\ \E v \in Int : l.draft = {v}
  /\ l.asked # {} => \E v \in LimitsAllowed(l.field) : l.asked = {v}
  /\ \A v \in l.kept : l.value = IF l.field = "ubatch_size" THEN Limits!Least(v, l.batch) ELSE v

LimitsInv == panel \in LimitsType /\ LimitsKeep(panel)

\* What the back end may be given for a number: any integer, and of an option
\* one between the panel's ends.
LimitsGiven(f) == IF f \in DOMAIN Limits!Numbers THEN Int ELSE Limits!Field(f).min..Limits!Field(f).max

\* The fields of the tables (tuningFields.ts).
LEMMA LimitsDomains ==
  /\ DOMAIN Limits!ServerFields = {"ngl", "ctx_size", "batch_size", "ubatch_size", "keep", "n_cpu_moe", "threads",
                                   "parallel", "request_timeout_seconds", "sleep_idle_seconds"}
  /\ DOMAIN Limits!MtpFields = {"spec_draft_n_max", "spec_draft_n_min", "spec_draft_p_min", "spec_draft_p_split"}
  /\ DOMAIN Limits!ReasoningFields = {"reasoning_budget"}
  /\ DOMAIN Limits!SamplingFields = {"temperature", "top_p", "top_k"}
  BY DEF Limits!ServerFields, Limits!MtpFields, Limits!ReasoningFields, Limits!SamplingFields

\* The numbers of the configuration are those of the four tables.
LEMMA LimitsNumbers ==
  /\ DOMAIN Limits!Numbers = DOMAIN Limits!ServerFields \cup DOMAIN Limits!MtpFields
                               \cup DOMAIN Limits!ReasoningFields \cup DOMAIN Limits!SamplingFields
  /\ \A f \in DOMAIN Limits!ServerFields : Limits!Numbers[f] = Limits!ServerFields[f]
  /\ \A f \in DOMAIN Limits!MtpFields : Limits!Numbers[f] = Limits!MtpFields[f]
  /\ \A f \in DOMAIN Limits!ReasoningFields : Limits!Numbers[f] = Limits!ReasoningFields[f]
  /\ \A f \in DOMAIN Limits!SamplingFields : Limits!Numbers[f] = Limits!SamplingFields[f]
<1>1. DOMAIN Limits!Numbers = DOMAIN Limits!ServerFields \cup DOMAIN Limits!MtpFields
                               \cup DOMAIN Limits!ReasoningFields \cup DOMAIN Limits!SamplingFields
  BY DEF Limits!Numbers
<1>2. ASSUME NEW f \in DOMAIN Limits!Numbers
      PROVE  Limits!Numbers[f] =
               CASE f \in DOMAIN Limits!ServerFields -> Limits!ServerFields[f]
                 [] f \in DOMAIN Limits!MtpFields -> Limits!MtpFields[f]
                 [] f \in DOMAIN Limits!SamplingFields -> Limits!SamplingFields[f]
                 [] OTHER -> Limits!ReasoningFields[f]
  BY <1>1, <1>2 DEF Limits!Numbers
<1>3. ASSUME NEW f \in DOMAIN Limits!ServerFields PROVE Limits!Numbers[f] = Limits!ServerFields[f]
  <2>1. f \in DOMAIN Limits!Numbers /\ f \notin DOMAIN Limits!MtpFields /\ f \notin DOMAIN Limits!SamplingFields
    BY <1>1, <1>3, LimitsDomains
  <2> QED BY <1>2, <1>3, <2>1
<1>4. ASSUME NEW f \in DOMAIN Limits!MtpFields PROVE Limits!Numbers[f] = Limits!MtpFields[f]
  <2>1. f \in DOMAIN Limits!Numbers /\ f \notin DOMAIN Limits!ServerFields /\ f \notin DOMAIN Limits!SamplingFields
    BY <1>1, <1>4, LimitsDomains
  <2> QED BY <1>2, <1>4, <2>1
<1>5. ASSUME NEW f \in DOMAIN Limits!SamplingFields PROVE Limits!Numbers[f] = Limits!SamplingFields[f]
  <2>1. f \in DOMAIN Limits!Numbers /\ f \notin DOMAIN Limits!ServerFields /\ f \notin DOMAIN Limits!MtpFields
    BY <1>1, <1>5, LimitsDomains
  <2> QED BY <1>2, <1>5, <2>1
<1>6. ASSUME NEW f \in DOMAIN Limits!ReasoningFields PROVE Limits!Numbers[f] = Limits!ReasoningFields[f]
  <2>1. f \in DOMAIN Limits!Numbers /\ f \notin DOMAIN Limits!ServerFields /\ f \notin DOMAIN Limits!MtpFields
        /\ f \notin DOMAIN Limits!SamplingFields
    BY <1>1, <1>6, LimitsDomains
  <2> QED BY <1>2, <1>6, <2>1
<1> QED BY <1>1, <1>3, <1>4, <1>5, <1>6

\* The panel and the back end have the same ends for a number, and an option's
\* default is between its ends (tuningFields.ts, config.rs).
LEMMA LimitsOfFields ==
  ASSUME NEW f \in Limits!NumberFields
  PROVE  LimitsEnds(f)
<1>1. CASE f \in DOMAIN Limits!ServerFields
  <2>1. /\ Limits!ServerFields[f].min \in Int /\ Limits!ServerFields[f].max \in Int
        /\ Limits!ServerFields[f].min <= Limits!ServerFields[f].max
        /\ f # "ubatch_size" => \A b : Limits!Range(f, b) = <<Limits!ServerFields[f].min, Limits!ServerFields[f].max>>
    BY <1>1 DEF Limits!ServerFields, Limits!Number, Limits!Range
  <2>2. f \in DOMAIN Limits!Numbers /\ Limits!Field(f) = Limits!ServerFields[f]
    BY <1>1, LimitsNumbers DEF Limits!Field
  <2> QED BY <2>1, <2>2 DEF LimitsEnds
<1>2. CASE f \in DOMAIN Limits!MtpFields
  <2>1. /\ Limits!MtpFields[f].min \in Int /\ Limits!MtpFields[f].max \in Int
        /\ Limits!MtpFields[f].min <= Limits!MtpFields[f].max
        /\ \A b : Limits!Range(f, b) = <<Limits!MtpFields[f].min, Limits!MtpFields[f].max>>
    BY <1>2 DEF Limits!MtpFields, Limits!Number, Limits!Range
  <2>2. f \in DOMAIN Limits!Numbers /\ Limits!Field(f) = Limits!MtpFields[f]
    BY <1>2, LimitsNumbers DEF Limits!Field
  <2> QED BY <2>1, <2>2 DEF LimitsEnds
<1>3. CASE f \in DOMAIN Limits!ReasoningFields
  <2>1. /\ Limits!ReasoningFields[f].min \in Int /\ Limits!ReasoningFields[f].max \in Int
        /\ Limits!ReasoningFields[f].min <= Limits!ReasoningFields[f].max
        /\ \A b : Limits!Range(f, b) = <<Limits!ReasoningFields[f].min, Limits!ReasoningFields[f].max>>
    BY <1>3 DEF Limits!ReasoningFields, Limits!Number, Limits!Range
  <2>2. f \in DOMAIN Limits!Numbers /\ Limits!Field(f) = Limits!ReasoningFields[f]
    BY <1>3, LimitsNumbers DEF Limits!Field
  <2> QED BY <2>1, <2>2 DEF LimitsEnds
<1>4. CASE f \in DOMAIN Limits!SamplingFields
  <2>1. /\ Limits!SamplingFields[f].min \in Int /\ Limits!SamplingFields[f].max \in Int
        /\ Limits!SamplingFields[f].min <= Limits!SamplingFields[f].max
        /\ \A b : Limits!Range(f, b) = <<Limits!SamplingFields[f].min, Limits!SamplingFields[f].max>>
    BY <1>4 DEF Limits!SamplingFields, Limits!Number, Limits!Range
  <2>2. f \in DOMAIN Limits!Numbers /\ Limits!Field(f) = Limits!SamplingFields[f]
    BY <1>4, LimitsNumbers DEF Limits!Field
  <2> QED BY <2>1, <2>2 DEF LimitsEnds
<1>5. CASE f \in DOMAIN Limits!AdvancedSamplingFields
  <2>1. /\ Limits!AdvancedSamplingFields[f].min \in Int /\ Limits!AdvancedSamplingFields[f].max \in Int
        /\ Limits!AdvancedSamplingFields[f].min <= Limits!AdvancedSamplingFields[f].max
        /\ Limits!AdvancedSamplingFields[f].default
             \in Limits!AdvancedSamplingFields[f].min..Limits!AdvancedSamplingFields[f].max
    BY <1>5, SMTT(30) DEF Limits!AdvancedSamplingFields, Limits!Option, Limits!MaxSeed
  <2>2. f \notin DOMAIN Limits!Numbers
    BY <1>5, LimitsDomains, LimitsNumbers DEF Limits!AdvancedSamplingFields
  <2>3. Limits!Field(f) = Limits!AdvancedSamplingFields[f] /\ Limits!Options[f] = Limits!AdvancedSamplingFields[f]
    BY <2>2 DEF Limits!Field, Limits!Options
  <2> QED BY <2>1, <2>2, <2>3 DEF LimitsEnds
<1> QED BY <1>1, <1>2, <1>3, <1>4, <1>5, LimitsNumbers DEF Limits!NumberFields, Limits!Options

\* The back end limits the micro-batch by the batch (config.rs).
LEMMA LimitsMicro ==
  /\ "ubatch_size" \in DOMAIN Limits!Numbers
  /\ Limits!Field("ubatch_size").min = 1 /\ Limits!Field("ubatch_size").max = 131072
  /\ \A b : Limits!Range("ubatch_size", b) = <<1, b>>
<1>1. "ubatch_size" \in DOMAIN Limits!ServerFields
  BY LimitsDomains
<1>2. "ubatch_size" \in DOMAIN Limits!Numbers /\ Limits!Field("ubatch_size") = Limits!ServerFields["ubatch_size"]
  BY <1>1, LimitsNumbers DEF Limits!Field
<1>3. Limits!ServerFields["ubatch_size"].min = 1 /\ Limits!ServerFields["ubatch_size"].max = 131072
  BY DEF Limits!ServerFields, Limits!Number
<1>4. \A b : Limits!Range("ubatch_size", b) = <<1, b>>
  BY DEF Limits!Range
<1> QED BY <1>2, <1>3, <1>4

\* The lists of the panel are the back end's, and no list is a number.
LEMMA LimitsOfLists ==
  /\ Limits!Lists = Limits!Known
  /\ DOMAIN Limits!Lists \cap Limits!NumberFields = {}
<1>1. Limits!Lists = Limits!Known
  BY SMTT(30) DEF Limits!Lists, Limits!Known, Limits!CacheTypeOptions, Limits!ReasoningOptions, Limits!FormatOptions,
     Limits!PreserveOptions, Limits!EffortOptions, Limits!FlashOptions
<1>2. DOMAIN Limits!Lists = {"cache_type_k", "cache_type_v", "reasoning", "reasoning_format", "reasoning_preserve",
                             "reasoning_effort", "flash_attn"}
  BY DEF Limits!Lists
<1>3. DOMAIN Limits!Lists \cap DOMAIN Limits!Numbers = {}
  BY <1>2, LimitsNumbers, LimitsDomains
<1>4. DOMAIN Limits!Lists \cap DOMAIN Limits!Options = {}
  BY <1>2 DEF Limits!Options, Limits!AdvancedSamplingFields
<1> QED BY <1>1, <1>3, <1>4 DEF Limits!NumberFields

\* No option of the request is a number of the configuration.
LEMMA LimitsApart ==
  DOMAIN Limits!Numbers \cap DOMAIN Limits!Options = {}
  BY LimitsNumbers, LimitsDomains DEF Limits!Options, Limits!AdvancedSamplingFields

\* The save leaves a number that is within the panel's limits as it is
\* (normalizeConfigPatch, in storeConfig.ts).
LEMMA LimitsSaved ==
  ASSUME NEW f \in Limits!NumberFields, NEW v \in Int, Limits!Field(f).min <= v, v <= Limits!Field(f).max
  PROVE  Limits!PatchNormalized(f, v) = v
<1>2. CASE f \in {"batch_size", "ubatch_size"}
  <2>1. Limits!Field(f).min = 1 /\ Limits!Field(f).max = 131072
    <3>1. Limits!Field(f) = Limits!ServerFields[f]
      BY <1>2, LimitsNumbers, LimitsDomains DEF Limits!Field
    <3> QED BY <1>2, <3>1 DEF Limits!ServerFields, Limits!Number
  <2>2. Limits!PatchNormalized(f, v) = Limits!clampNumber(v, 1, 131072)
    BY <1>2 DEF Limits!PatchNormalized
  <2>3. 1 <= v /\ v <= 131072
    BY <2>1
  <2> QED BY <2>2, <2>3 DEF Limits!clampNumber, Limits!Least, Limits!Greatest
<1>3. CASE f = "keep"
  <2>1. Limits!Field(f).min = 0 /\ Limits!Field(f).max = 131072
    <3>1. Limits!Field(f) = Limits!ServerFields[f]
      BY <1>3, LimitsNumbers, LimitsDomains DEF Limits!Field
    <3> QED BY <1>3, <3>1 DEF Limits!ServerFields, Limits!Number
  <2>2. Limits!PatchNormalized(f, v) = Limits!clampNumber(v, 0, 131072)
    BY <1>3 DEF Limits!PatchNormalized
  <2>3. 0 <= v /\ v <= 131072
    BY <2>1
  <2> QED BY <2>2, <2>3 DEF Limits!clampNumber, Limits!Least, Limits!Greatest
<1>4. CASE f \notin {"batch_size", "ubatch_size", "keep"}
  <2>1. f \notin {"cache_type_k", "cache_type_v"}
    BY LimitsOfLists DEF Limits!Lists
  <2> QED BY <1>4, <2>1 DEF Limits!PatchNormalized
<1> QED BY <1>2, <1>3, <1>4

\* What the back end makes of a number.
LEMMA LimitsNormalizes ==
  ASSUME NEW f \in Limits!NumberFields, NEW v, NEW b
  PROVE  /\ f = "ubatch_size" => Limits!Normalize(f, v, b) = Limits!clampNumber(v, 1, b)
         /\ f \in DOMAIN Limits!Numbers /\ f # "ubatch_size" =>
              Limits!Normalize(f, v, b) = Limits!clampNumber(v, Limits!Field(f).min, Limits!Field(f).max)
         /\ f \notin DOMAIN Limits!Numbers => Limits!Normalize(f, v, b) = v
<1>1. ASSUME f \in DOMAIN Limits!Numbers
      PROVE  Limits!Normalize(f, v, b) = Limits!clampNumber(v, Limits!Range(f, b)[1], Limits!Range(f, b)[2])
  <2>1. f \notin DOMAIN Limits!Known /\ f \notin DOMAIN Limits!Options
    BY <1>1, LimitsApart, LimitsOfLists
  <2> QED BY <1>1, <2>1, Zenon DEF Limits!Normalize
<1>2. CASE f = "ubatch_size"
  <2>1. f \in DOMAIN Limits!Numbers /\ Limits!Range(f, b) = <<1, b>>
    BY <1>2, LimitsMicro
  <2>2. Limits!Range(f, b)[1] = 1 /\ Limits!Range(f, b)[2] = b
    BY <2>1
  <2>3. Limits!Normalize(f, v, b) = Limits!clampNumber(v, 1, b)
    BY <1>1, <2>1, <2>2, Zenon
  <2> QED BY <1>2, <2>1, <2>3
<1>3. CASE f \in DOMAIN Limits!Numbers /\ f # "ubatch_size"
  <2>1. Limits!Range(f, b) = <<Limits!Field(f).min, Limits!Field(f).max>>
    BY <1>3, LimitsOfFields, Zenon DEF LimitsEnds
  <2>2. Limits!Range(f, b)[1] = Limits!Field(f).min /\ Limits!Range(f, b)[2] = Limits!Field(f).max
    BY <2>1
  <2>3. Limits!Normalize(f, v, b) = Limits!clampNumber(v, Limits!Field(f).min, Limits!Field(f).max)
    BY <1>1, <1>3, <2>2, Zenon
  <2> QED BY <1>3, <2>3
<1>4. CASE f \notin DOMAIN Limits!Numbers
  <2>1. f \in DOMAIN Limits!Options
    BY <1>4 DEF Limits!NumberFields
  <2>2. f \notin DOMAIN Limits!Known /\ f # "ubatch_size"
    BY <1>4, LimitsOfLists, LimitsMicro
  <2>3. Limits!Normalize(f, v, b) = v
    BY <1>4, <2>1, <2>2, Zenon DEF Limits!Normalize
  <2> QED BY <1>4, <2>2, <2>3
<1> QED BY <1>2, <1>3, <1>4

\* What the back end keeps of a number is within the panel's limits, and one
\* that was is kept, a micro-batch as far as the batch allows.
LEMMA LimitsNormal ==
  ASSUME NEW f \in Limits!NumberFields, NEW v \in LimitsGiven(f), NEW b \in LimitsBatch
  PROVE  /\ Limits!Normalize(f, v, b) \in Limits!Field(f).min..Limits!Field(f).max
         /\ f = "ubatch_size" => Limits!Normalize(f, v, b) <= b
         /\ v \in Limits!Field(f).min..Limits!Field(f).max =>
              Limits!Normalize(f, v, b) = IF f = "ubatch_size" THEN Limits!Least(v, b) ELSE v
<1>0. v \in Int /\ b \in Int /\ 1 <= b /\ b <= 131072
  BY LimitsOfFields DEF LimitsGiven, LimitsEnds, LimitsBatch
<1>1. CASE f = "ubatch_size"
  <2>1. Limits!Normalize(f, v, b) = Limits!clampNumber(v, 1, b)
    BY <1>1, LimitsNormalizes
  <2>2. Limits!clampNumber(v, 1, b) \in 1..b /\ (1 <= v => Limits!clampNumber(v, 1, b) = Limits!Least(v, b))
    BY <1>0 DEF Limits!clampNumber, Limits!Least, Limits!Greatest
  <2>3. Limits!Field(f).min = 1 /\ Limits!Field(f).max = 131072
    BY <1>1, LimitsMicro
  <2> QED BY <1>0, <1>1, <2>1, <2>2, <2>3
<1>2. CASE f \in DOMAIN Limits!Numbers /\ f # "ubatch_size"
  <2>1. Limits!Normalize(f, v, b) = Limits!clampNumber(v, Limits!Field(f).min, Limits!Field(f).max)
    BY <1>2, LimitsNormalizes
  <2>2. Limits!Field(f).min \in Int /\ Limits!Field(f).max \in Int /\ Limits!Field(f).min <= Limits!Field(f).max
    BY LimitsOfFields, Zenon DEF LimitsEnds
  <2>3. /\ Limits!clampNumber(v, Limits!Field(f).min, Limits!Field(f).max) \in Limits!Field(f).min..Limits!Field(f).max
        /\ v \in Limits!Field(f).min..Limits!Field(f).max =>
             Limits!clampNumber(v, Limits!Field(f).min, Limits!Field(f).max) = v
    BY <1>0, <2>2 DEF Limits!clampNumber, Limits!Least, Limits!Greatest
  <2> QED BY <1>2, <2>1, <2>3
<1>3. CASE f \notin DOMAIN Limits!Numbers
  <2>1. f # "ubatch_size" /\ Limits!Normalize(f, v, b) = v
    BY <1>3, LimitsNormalizes, LimitsMicro
  <2>2. v \in Limits!Field(f).min..Limits!Field(f).max
    BY <1>3 DEF LimitsGiven
  <2> QED BY <1>3, <2>1, <2>2
<1> QED BY <1>1, <1>2, <1>3

\* The values of the Qwen defaults are allowed (tuningFields.ts).
LEMMA LimitsQwen ==
  ASSUME NEW f \in Limits!Fields, f \in DOMAIN Limits!Qwen
  PROVE  IF f \in Limits!NumberFields THEN Limits!Qwen[f] \in Limits!Field(f).min..Limits!Field(f).max
         ELSE Limits!Qwen[f] \in Limits!Lists[f]
<1>1. CASE f \in DOMAIN Limits!ServerFields
  <2>1. Limits!Qwen[f] \in Limits!ServerFields[f].min..Limits!ServerFields[f].max
    BY <1>1, LimitsDomains, SMTT(30) DEF Limits!Qwen, Limits!ServerFields, Limits!Number
  <2>2. f \in Limits!NumberFields /\ Limits!Field(f) = Limits!ServerFields[f]
    BY <1>1, LimitsNumbers DEF Limits!Field, Limits!NumberFields
  <2> QED BY <2>1, <2>2
<1>2. CASE f \in DOMAIN Limits!MtpFields
  <2>1. Limits!Qwen[f] \in Limits!MtpFields[f].min..Limits!MtpFields[f].max
    BY <1>2, SMTT(30) DEF Limits!Qwen, Limits!MtpFields, Limits!Number
  <2>2. f \in Limits!NumberFields /\ Limits!Field(f) = Limits!MtpFields[f]
    BY <1>2, LimitsNumbers DEF Limits!Field, Limits!NumberFields
  <2> QED BY <2>1, <2>2
<1>3. CASE f \in DOMAIN Limits!ReasoningFields
  <2>1. Limits!Qwen[f] \in Limits!ReasoningFields[f].min..Limits!ReasoningFields[f].max
    BY <1>3, SMTT(30) DEF Limits!Qwen, Limits!ReasoningFields, Limits!Number
  <2>2. f \in Limits!NumberFields /\ Limits!Field(f) = Limits!ReasoningFields[f]
    BY <1>3, LimitsNumbers DEF Limits!Field, Limits!NumberFields
  <2> QED BY <2>1, <2>2
<1>4. CASE f \in DOMAIN Limits!SamplingFields
  <2>1. Limits!Qwen[f] \in Limits!SamplingFields[f].min..Limits!SamplingFields[f].max
    BY <1>4, SMTT(30) DEF Limits!Qwen, Limits!SamplingFields, Limits!Number
  <2>2. f \in Limits!NumberFields /\ Limits!Field(f) = Limits!SamplingFields[f]
    BY <1>4, LimitsNumbers DEF Limits!Field, Limits!NumberFields
  <2> QED BY <2>1, <2>2
<1>5. f \notin DOMAIN Limits!AdvancedSamplingFields
  BY SMTT(30) DEF Limits!Qwen, Limits!AdvancedSamplingFields
<1>6. CASE f \in DOMAIN Limits!Lists
  <2>1. Limits!Qwen[f] \in Limits!Lists[f]
    BY <1>6, SMTT(30) DEF Limits!Qwen, Limits!Lists, Limits!CacheTypeOptions, Limits!ReasoningOptions,
       Limits!FormatOptions, Limits!PreserveOptions, Limits!EffortOptions, Limits!FlashOptions
  <2> QED BY <1>6, <2>1, LimitsOfLists
<1> QED BY <1>1, <1>2, <1>3, <1>4, <1>5, <1>6, LimitsNumbers DEF Limits!Fields, Limits!NumberFields, Limits!Options

\* The values of every preset are allowed (useTuningController.ts).
LEMMA LimitsPresets ==
  ASSUME NEW f \in Limits!Fields, NEW preset \in Limits!Presets \cup {Limits!Qwen, Limits!QwenOptions}, f \in DOMAIN preset
  PROVE  IF f \in Limits!NumberFields THEN preset[f] \in Limits!Field(f).min..Limits!Field(f).max
         ELSE preset[f] \in Limits!Lists[f]
<1>1. CASE preset = Limits!Qwen
  BY <1>1, LimitsQwen
<1>2. CASE preset = Limits!QwenOptions
  <2>1. f \in DOMAIN Limits!AdvancedSamplingFields
    BY <1>2 DEF Limits!QwenOptions, Limits!AdvancedSamplingFields
  <2>2. preset[f] \in Limits!AdvancedSamplingFields[f].min..Limits!AdvancedSamplingFields[f].max
    BY <1>2, SMTT(30) DEF Limits!QwenOptions, Limits!AdvancedSamplingFields, Limits!Option
  <2>3. f \notin DOMAIN Limits!Numbers
    BY <2>1, LimitsDomains, LimitsNumbers DEF Limits!AdvancedSamplingFields
  <2>4. f \in Limits!NumberFields /\ Limits!Field(f) = Limits!AdvancedSamplingFields[f]
    BY <2>1, <2>3 DEF Limits!Field, Limits!Options, Limits!NumberFields
  <2> QED BY <2>2, <2>4
<1>3. CASE preset \in Limits!Presets
  <2>1. f \in {"ngl", "ctx_size", "threads", "flash_attn"}
    BY <1>3 DEF Limits!Presets
  <2>2. CASE f = "flash_attn"
    <3>1. preset[f] \in Limits!Lists[f] /\ f \in DOMAIN Limits!Lists
      BY <1>3, <2>2 DEF Limits!Presets, Limits!Lists, Limits!FlashOptions
    <3> QED BY <3>1, LimitsOfLists
  <2>3. CASE f # "flash_attn"
    <3>1. f \in DOMAIN Limits!ServerFields
      BY <2>1, <2>3, LimitsDomains
    <3>2. preset[f] \in Limits!ServerFields[f].min..Limits!ServerFields[f].max
      BY <1>3, <2>1, <2>3, SMTT(30) DEF Limits!Presets, Limits!ServerFields, Limits!Number
    <3>3. f \in Limits!NumberFields /\ Limits!Field(f) = Limits!ServerFields[f]
      BY <3>1, LimitsNumbers DEF Limits!Field, Limits!NumberFields
    <3> QED BY <3>2, <3>3
  <2> QED BY <2>2, <2>3
<1> QED BY <1>1, <1>2, <1>3

\* What a number may be is a range of integers.
LEMMA LimitsIntegers ==
  ASSUME NEW f \in Limits!NumberFields
  PROVE  LimitsAllowed(f) = Limits!Field(f).min..Limits!Field(f).max /\ LimitsAllowed(f) \subseteq Int
<1>1. Limits!Field(f).min \in Int /\ Limits!Field(f).max \in Int
  BY LimitsOfFields, Zenon DEF LimitsEnds
<1> QED BY <1>1 DEF LimitsAllowed

\* A batch size that is allowed is one of the sizes of a batch.
LEMMA LimitsBatches == LimitsAllowed("batch_size") = LimitsBatch
<1>1. "batch_size" \in DOMAIN Limits!ServerFields
  BY LimitsDomains
<1>2. "batch_size" \in Limits!NumberFields /\ Limits!Field("batch_size") = Limits!ServerFields["batch_size"]
  BY <1>1, LimitsNumbers DEF Limits!Field, Limits!NumberFields
<1>3. Limits!ServerFields["batch_size"].min = 1 /\ Limits!ServerFields["batch_size"].max = 131072
  BY DEF Limits!ServerFields, Limits!Number
<1>4. LimitsAllowed("batch_size") = Limits!Field("batch_size").min..Limits!Field("batch_size").max
  BY <1>2, LimitsIntegers
<1>5. \A b : b \in LimitsAllowed("batch_size") <=> b \in LimitsBatch
  BY <1>2, <1>3, <1>4 DEF LimitsBatch
<1> QED BY <1>5

\* What is allowed passes the save and the back end as it is, a micro-batch as
\* far as the batch allows.
LEMMA LimitsBacked ==
  ASSUME NEW f \in Limits!Fields, NEW v \in LimitsAllowed(f), NEW b \in LimitsBatch
  PROVE  /\ Limits!PatchNormalized(f, v) = v
         /\ Limits!Normalize(f, v, b) \in LimitsAllowed(f)
         /\ f = "ubatch_size" => Limits!Normalize(f, v, b) <= b
         /\ Limits!Normalize(f, v, b) = IF f = "ubatch_size" THEN Limits!Least(v, b) ELSE v
<1>1. CASE f \in Limits!NumberFields
  <2>1. v \in Limits!Field(f).min..Limits!Field(f).max /\ v \in Int
    BY <1>1, LimitsIntegers
  <2>2. Limits!Field(f).min <= v /\ v <= Limits!Field(f).max
    BY <1>1, <2>1, LimitsOfFields DEF LimitsEnds
  <2>3. v \in LimitsGiven(f)
    BY <2>1 DEF LimitsGiven
  <2>4. Limits!PatchNormalized(f, v) = v
    BY <1>1, <2>1, <2>2, LimitsSaved
  <2> QED BY <1>1, <2>1, <2>3, <2>4, LimitsNormal, LimitsIntegers
<1>2. CASE f \notin Limits!NumberFields
  <2>1. f \in DOMAIN Limits!Known /\ LimitsAllowed(f) = Limits!Known[f] /\ Limits!Lists[f] = Limits!Known[f]
    BY <1>2, LimitsOfLists DEF LimitsAllowed, Limits!Fields
  <2>2. f \notin DOMAIN Limits!Numbers /\ f \notin DOMAIN Limits!Options
    BY <1>2 DEF Limits!NumberFields
  <2>3. Limits!Normalize(f, v, b) = IF v \in Limits!Known[f] THEN v ELSE Limits!Otherwise(f)
    BY <2>1, <2>2, Zenon DEF Limits!Normalize
  <2>4. {"batch_size", "ubatch_size", "keep"} \subseteq DOMAIN Limits!Numbers
    BY LimitsNumbers, LimitsDomains
  <2>5. f \notin {"batch_size", "ubatch_size", "keep"}
    BY <2>2, <2>4
  <2>6. f \in {"cache_type_k", "cache_type_v"} => v \in Limits!CacheTypeOptions
    BY <2>1 DEF Limits!Lists
  <2>7. Limits!PatchNormalized(f, v) = v
    BY <2>5, <2>6 DEF Limits!PatchNormalized
  <2> QED BY <2>1, <2>3, <2>5, <2>7
<1> QED BY <1>1, <1>2

\* What is typed, if it is a number, is an integer.
LEMMA LimitsTypedIn ==
  ASSUME NEW f \in Limits!NumberFields, NEW text \in Limits!Typed(f), text # {}
  PROVE  \E v \in Int : text = {v}
<1>1. PICK end \in {Limits!Field(f).min, Limits!Field(f).max}, d \in TypedDistances : text = {end + d}
  BY DEF Limits!Typed, Limits!NoNumber
<1>2. end \in Int
  BY LimitsOfFields DEF LimitsEnds
<1>3. d \in Int
  BY LimitsAssumption
<1> QED BY <1>1, <1>2, <1>3

\* A field starts with the invariant: the back end keeps what the panel allows
\* (config.rs).
LEMMA LimitsInit == ASSUME Limits!Init PROVE LimitsInv
<1>1. PICK f \in Limits!Fields, b \in BatchSizes :
        \E v \in IF f \in DOMAIN Limits!Options THEN {Limits!Options[f].default} ELSE Limits!OnDisk(f, b) :
          /\ f = "batch_size" => v = b
          /\ panel = [field |-> f, value |-> v, batch |-> b, draft |-> {}, asked |-> {}, kept |-> {}]
  BY DEF Limits!Init, Limits!NoNumber
<1>2. PICK v \in IF f \in DOMAIN Limits!Options THEN {Limits!Options[f].default} ELSE Limits!OnDisk(f, b) :
          panel = [field |-> f, value |-> v, batch |-> b, draft |-> {}, asked |-> {}, kept |-> {}]
  BY <1>1
<1>3. b \in LimitsBatch
  BY LimitsAssumption DEF LimitsBatch
<1>4. v \in LimitsAllowed(f) /\ (f = "ubatch_size" => v <= b)
  <2>1. CASE f \in DOMAIN Limits!Options
    <3>1. f \in Limits!NumberFields /\ f \notin DOMAIN Limits!Numbers /\ f # "ubatch_size"
      BY <2>1, LimitsApart, LimitsMicro DEF Limits!NumberFields
    <3>2. v = Limits!Options[f].default
      BY <1>2, <2>1
    <3>3. v \in Limits!Field(f).min..Limits!Field(f).max
      BY <3>1, <3>2, LimitsOfFields, Zenon DEF LimitsEnds
    <3> QED BY <3>1, <3>3, LimitsIntegers
  <2>2. CASE f \in DOMAIN Limits!Numbers
    <3>1. f \in Limits!NumberFields /\ f \notin DOMAIN Limits!Options
      BY <2>2, LimitsApart DEF Limits!NumberFields
    <3>2. v \in Limits!OnDisk(f, b)
      BY <1>2, <3>1
    <3>3. v \in {Limits!Normalize(f, w, b) : w \in UNION Limits!Typed(f)}
      BY <3>1, <3>2 DEF Limits!OnDisk
    <3>4. PICK text \in Limits!Typed(f) : \E w \in text : v = Limits!Normalize(f, w, b)
      BY <3>3
    <3>5. PICK w \in text : v = Limits!Normalize(f, w, b)
      BY <3>4
    <3>6. w \in Int
      BY <3>1, <3>5, LimitsTypedIn
    <3>7. w \in LimitsGiven(f)
      BY <2>2, <3>6 DEF LimitsGiven
    <3> QED BY <1>3, <3>1, <3>5, <3>7, LimitsNormal, LimitsIntegers
  <2>3. CASE f \notin Limits!NumberFields
    <3>1. f \notin DOMAIN Limits!Options /\ f # "ubatch_size"
      BY <2>3, LimitsMicro DEF Limits!NumberFields
    <3>2. v \in Limits!Known[f]
      BY <1>2, <2>3, <3>1 DEF Limits!OnDisk
    <3> QED BY <2>3, <3>1, <3>2, LimitsOfLists DEF LimitsAllowed
  <2> QED BY <2>1, <2>2, <2>3 DEF Limits!NumberFields
<1>5. v \in LimitsValues
  BY <1>4 DEF LimitsValues
<1>6. panel \in LimitsType
  BY <1>2, <1>3, <1>5 DEF LimitsType
<1>7. LimitsKeep(panel)
  BY <1>2, <1>4 DEF LimitsKeep
<1> QED BY <1>6, <1>7 DEF LimitsInv

\* The types of the fields that the steps of a value read.
LEMMA LimitsNow ==
  ASSUME LimitsInv
  PROVE  /\ panel.field \in Limits!Fields /\ panel.batch \in LimitsBatch /\ panel.value \in LimitsAllowed(panel.field)
         /\ Limits!f0 = panel.field
         /\ LimitsAllowed(panel.field) \subseteq LimitsValues
  BY DEF LimitsInv, LimitsType, LimitsKeep, Limits!f0, LimitsValues

\* The text of a number is one integer, and the value itself while nobody edits
\* it (TuningSliderField, NumericFieldGrid).
LEMMA LimitsText ==
  ASSUME LimitsInv, panel.field \in Limits!NumberFields
  PROVE  /\ \E v \in Int : Limits!Text0 = {v}
         /\ panel.draft = {} => Limits!Text0 = {panel.value}
<1>1. panel.value \in Limits!Field(panel.field).min..Limits!Field(panel.field).max /\ panel.value \in Int
  BY LimitsNow, LimitsIntegers
<1>2. CASE panel.draft # {}
  <2>1. Limits!Text0 = panel.draft
    BY <1>2 DEF Limits!Text0, Limits!NoNumber
  <2>2. \E v \in Int : panel.draft = {v}
    BY <1>2 DEF LimitsInv, LimitsKeep
  <2> QED BY <1>2, <2>1, <2>2
<1>3. CASE panel.draft = {} /\ panel.field \in DOMAIN Limits!Options
  <2>1. Limits!Text0 = {Limits!clampNumber(panel.value, Limits!Field(panel.field).min, Limits!Field(panel.field).max)}
    BY <1>3 DEF Limits!Text0, Limits!NoNumber, Limits!f0
  <2>2. Limits!clampNumber(panel.value, Limits!Field(panel.field).min, Limits!Field(panel.field).max) = panel.value
    <3>1. Limits!Field(panel.field).min \in Int /\ Limits!Field(panel.field).max \in Int
      BY LimitsOfFields, Zenon DEF LimitsEnds
    <3> QED BY <1>1, <3>1 DEF Limits!clampNumber, Limits!Least, Limits!Greatest
  <2> QED BY <1>1, <2>1, <2>2
<1>4. CASE panel.draft = {} /\ panel.field \notin DOMAIN Limits!Options
  <2>1. Limits!Text0 = {panel.value}
    BY <1>4 DEF Limits!Text0, Limits!NoNumber, Limits!f0
  <2> QED BY <1>1, <2>1
<1> QED BY <1>2, <1>3, <1>4

\* Typing, leaving the field, choosing, a preset, a change of the batch and a
\* save keep the invariant (useTuningController.ts, storeConfig.ts).
LEMMA LimitsNext ==
  ASSUME LimitsInv, Limits!Next PROVE LimitsInv'
<1>0. /\ panel \in LimitsType /\ LimitsKeep(panel) /\ panel.field \in Limits!Fields /\ panel.batch \in LimitsBatch
      /\ panel.value \in LimitsAllowed(panel.field) /\ Limits!f0 = panel.field
      /\ LimitsAllowed(panel.field) \subseteq LimitsValues
  BY LimitsNow DEF LimitsInv
<1>1. CASE Limits!Type
  <2>1. PICK text \in Limits!Typed(panel.field) : text # {} /\ panel' = [panel EXCEPT !.draft = text]
    BY <1>0, <1>1 DEF Limits!Type, Limits!NoNumber
  <2>2. panel.field \in Limits!NumberFields
    BY <1>0, <1>1 DEF Limits!Type
  <2>3. PICK v \in Int : text = {v}
    BY <2>1, <2>2, LimitsTypedIn
  <2>4. [panel EXCEPT !.draft = text] \in LimitsType
    BY <1>0, <2>3 DEF LimitsType
  <2>5. LimitsKeep([panel EXCEPT !.draft = text])
    BY <1>0, <2>2, <2>3 DEF LimitsKeep, LimitsType
  <2> QED BY <2>1, <2>4, <2>5 DEF LimitsInv
<1>2. CASE Limits!Commit
  <2>1. panel.field \in Limits!NumberFields
    BY <1>0, <1>2 DEF Limits!Commit
  <2>2. \/ panel' = [panel EXCEPT !.draft = {}]
        \/ LET normalized == {Limits!Limited(panel.field, v) : v \in Limits!Text0} IN
           panel' = [panel EXCEPT !.draft = normalized, !.asked = normalized]
    <3>1. PICK text \in {Limits!Text0, {}} :
            panel' = IF text = {} THEN [panel EXCEPT !.draft = {}]
                     ELSE LET normalized == {Limits!Limited(panel.field, v) : v \in text} IN
                          [panel EXCEPT !.draft = normalized, !.asked = normalized]
      BY <1>0, <1>2, Zenon DEF Limits!Commit, Limits!NoNumber
    <3>2. CASE text = {}
      BY <3>1, <3>2, Zenon
    <3>3. CASE text # {}
      <4>1. text = Limits!Text0
        BY <3>1, <3>3, Zenon
      <4> QED BY <3>1, <3>3, <4>1, Zenon
    <3> QED BY <3>2, <3>3
  <2>3. CASE panel' = [panel EXCEPT !.draft = {}]
    <3>1. [panel EXCEPT !.draft = {}] \in LimitsType
      BY <1>0 DEF LimitsType
    <3>2. LimitsKeep([panel EXCEPT !.draft = {}])
      BY <1>0 DEF LimitsKeep, LimitsType
    <3> QED BY <2>3, <3>1, <3>2 DEF LimitsInv
  <2>4. CASE LET normalized == {Limits!Limited(panel.field, v) : v \in Limits!Text0} IN
             panel' = [panel EXCEPT !.draft = normalized, !.asked = normalized]
    <3>1. PICK v \in Int : Limits!Text0 = {v}
      BY <2>1, LimitsText
    <3> DEFINE w == Limits!Limited(panel.field, v)
    <3>2. panel' = [panel EXCEPT !.draft = {w}, !.asked = {w}]
      <4>1. {Limits!Limited(panel.field, x) : x \in Limits!Text0} = {w}
        BY <3>1
      <4> QED BY <2>4, <4>1
    <3>3. w \in LimitsAllowed(panel.field) /\ w \in Int
      <4>1. /\ Limits!Field(panel.field).min \in Int /\ Limits!Field(panel.field).max \in Int
            /\ Limits!Field(panel.field).min <= Limits!Field(panel.field).max
        BY <2>1, LimitsOfFields, Zenon DEF LimitsEnds
      <4>2. w \in Limits!Field(panel.field).min..Limits!Field(panel.field).max
        BY <4>1 DEF Limits!Limited, Limits!clampNumber, Limits!Least, Limits!Greatest
      <4> HIDE DEF w
      <4> QED BY <2>1, <4>2, LimitsIntegers
    <3> HIDE DEF w
    <3>4. w \in LimitsValues
      BY <1>0, <3>3
    <3>5. [panel EXCEPT !.draft = {w}, !.asked = {w}] \in LimitsType
      BY <1>0, <3>3, <3>4 DEF LimitsType
    <3>6. LimitsKeep([panel EXCEPT !.draft = {w}, !.asked = {w}])
      BY <1>0, <2>1, <3>3 DEF LimitsKeep, LimitsType
    <3> QED BY <3>2, <3>5, <3>6 DEF LimitsInv
  <2> QED BY <2>2, <2>3, <2>4
<1>3. CASE Limits!Choose \/ Limits!Preset
  <2>1. \E v \in LimitsAllowed(panel.field) : panel' = [panel EXCEPT !.asked = {v}]
    <3>1. CASE Limits!Choose
      <4>1. PICK v \in Limits!Lists[panel.field] : panel' = [panel EXCEPT !.asked = {v}]
        BY <1>0, <3>1 DEF Limits!Choose
      <4>2. panel.field \notin Limits!NumberFields
        BY <1>0, <3>1, LimitsOfLists DEF Limits!Choose
      <4>3. v \in LimitsAllowed(panel.field)
        BY <4>1, <4>2 DEF LimitsAllowed
      <4> QED BY <4>1, <4>3
    <3>2. CASE Limits!Preset
      <4>1. PICK preset \in Limits!Presets \cup {Limits!Qwen, Limits!QwenOptions} :
              panel.field \in DOMAIN preset /\ panel' = [panel EXCEPT !.asked = {preset[panel.field]}]
        BY <1>0, <3>2 DEF Limits!Preset
      <4>2. preset[panel.field] \in LimitsAllowed(panel.field)
        BY <1>0, <4>1, LimitsPresets DEF LimitsAllowed
      <4> QED BY <4>1, <4>2
    <3> QED BY <1>3, <3>1, <3>2
  <2>2. PICK v \in LimitsAllowed(panel.field) : panel' = [panel EXCEPT !.asked = {v}]
    BY <2>1
  <2>3. [panel EXCEPT !.asked = {v}] \in LimitsType
    BY <1>0, <2>2 DEF LimitsType
  <2>4. LimitsKeep([panel EXCEPT !.asked = {v}])
    BY <1>0, <2>2 DEF LimitsKeep, LimitsType
  <2> QED BY <2>2, <2>3, <2>4 DEF LimitsInv
<1>4. CASE Limits!BatchChanges
  <2>1. PICK b \in BatchSizes :
          panel' = [panel EXCEPT !.batch = b, !.value = Limits!Normalize(panel.field, panel.value, b), !.kept = {}]
    BY <1>0, <1>4 DEF Limits!BatchChanges
  <2> DEFINE w == Limits!Normalize(panel.field, panel.value, b)
  <2>2. b \in LimitsBatch
    BY LimitsAssumption DEF LimitsBatch
  <2>3. w \in LimitsAllowed(panel.field) /\ (panel.field = "ubatch_size" => w <= b)
    BY <1>0, <2>2, LimitsBacked
  <2>4. panel' = [panel EXCEPT !.batch = b, !.value = w, !.kept = {}]
    BY <2>1
  <2> HIDE DEF w
  <2>5. [panel EXCEPT !.batch = b, !.value = w, !.kept = {}] \in LimitsType
    BY <1>0, <2>2, <2>3 DEF LimitsType
  <2>6. LimitsKeep([panel EXCEPT !.batch = b, !.value = w, !.kept = {}])
    BY <1>0, <2>2, <2>3 DEF LimitsKeep, LimitsType
  <2> QED BY <2>4, <2>5, <2>6 DEF LimitsInv
<1>5. CASE Limits!Save
  <2>1. PICK v \in LimitsAllowed(panel.field) : panel.asked = {v}
    BY <1>0, <1>5 DEF Limits!Save, LimitsKeep
  <2> DEFINE w == Limits!Normalize(panel.field, v, panel.batch)
             batch == IF panel.field = "batch_size" THEN w ELSE panel.batch
             draft == IF panel.draft = {v} THEN {} ELSE panel.draft
             next == [panel EXCEPT !.value = w, !.kept = {v}, !.asked = {}, !.batch = batch, !.draft = draft]
  <2>2. panel' = next
    <3>1. (CHOOSE x \in panel.asked : TRUE) = v
      BY <2>1
    <3>2. Limits!PatchNormalized(panel.field, v) = v
      BY <1>0, <2>1, LimitsBacked
    <3> QED BY <1>0, <1>5, <2>1, <3>1, <3>2 DEF Limits!Save, Limits!NoNumber
  <2>3. /\ w \in LimitsAllowed(panel.field) /\ (panel.field = "ubatch_size" => w <= panel.batch)
        /\ w = IF panel.field = "ubatch_size" THEN Limits!Least(v, panel.batch) ELSE v
    BY <1>0, <2>1, LimitsBacked
  <2> HIDE DEF w
  <2>4. batch \in LimitsBatch /\ (panel.field = "ubatch_size" => batch = panel.batch)
    BY <1>0, <2>3, LimitsBatches
  <2>5. /\ draft \in SUBSET Int
        /\ draft # {} => panel.field \in Limits!NumberFields /\ \E x \in Int : draft = {x}
    BY <1>0 DEF LimitsKeep, LimitsType
  <2> HIDE DEF batch, draft
  <2>6. w \in LimitsValues /\ v \in LimitsValues
    BY <1>0, <2>1, <2>3
  <2>7. next \in LimitsType
    BY <1>0, <2>4, <2>5, <2>6 DEF LimitsType
  <2>8. /\ next.field = panel.field /\ next.value = w /\ next.batch = batch /\ next.draft = draft
        /\ next.asked = {} /\ next.kept = {v}
    BY <1>0 DEF LimitsType
  <2> HIDE DEF next
  <2>9. LimitsKeep(next)
    BY <2>3, <2>4, <2>5, <2>8 DEF LimitsKeep
  <2> QED BY <2>2, <2>7, <2>9 DEF LimitsInv
<1> QED BY <1>1, <1>2, <1>3, <1>4, <1>5 DEF Limits!Next

\* What the invariant says of a value: its type, and that panel, save and back
\* end agree on its limits.
LEMMA LimitsShows ==
  ASSUME LimitsInv PROVE Limits!TypeOK /\ Limits!LimitsAgree
<1>1. Limits!TypeOK
  <2>1. panel.batch \in Nat /\ panel.batch <= 131072
    BY LimitsNow DEF LimitsBatch
  <2>2. panel.draft = {} \/ (panel.field \in Limits!NumberFields /\ \E v \in panel.draft : panel.draft = {v} /\ v \in Int)
    BY DEF LimitsInv, LimitsKeep
  <2> QED BY <2>1, <2>2, LimitsNow DEF Limits!TypeOK, Limits!NoNumber
<1>2. \A v \in panel.kept : panel.value = IF panel.field = "ubatch_size" THEN Limits!Least(v, panel.batch) ELSE v
  BY DEF LimitsInv, LimitsKeep
<1>3. ASSUME panel.field \in Limits!NumberFields, panel.draft = {} PROVE Limits!Slider = panel.value
  <2>1. Limits!Text0 = {panel.value}
    BY <1>3, LimitsText
  <2>2. (CHOOSE v \in Limits!Text0 : TRUE) = panel.value
    BY <2>1
  <2>3. Limits!Slider = Limits!clampNumber(panel.value, Limits!Field(panel.field).min, Limits!Field(panel.field).max)
    BY <2>2, Zenon DEF Limits!Slider, Limits!f0
  <2>4. Limits!Field(panel.field).min \in Int /\ Limits!Field(panel.field).max \in Int
    BY <1>3, LimitsOfFields, Zenon DEF LimitsEnds
  <2>5. panel.value \in Limits!Field(panel.field).min..Limits!Field(panel.field).max
    BY <1>3, LimitsNow, LimitsIntegers
  <2> QED BY <2>3, <2>4, <2>5 DEF Limits!clampNumber, Limits!Least, Limits!Greatest
<1>4. panel.field \in DOMAIN Limits!Lists => panel.value \in Limits!Lists[panel.field]
  BY LimitsNow, LimitsOfLists DEF LimitsAllowed
<1> QED BY <1>1, <1>2, <1>3, <1>4 DEF Limits!LimitsAgree, Limits!f0, Limits!NoNumber

-----------------------------------------------------------------------------
ViewType == [mode : View!Modes, category : View!Ids, query : View!Searches]
ViewInv == panel \in ViewType

\* The categories and their places (tuningFields.ts).
LEMMA ViewPlaces ==
  /\ DOMAIN View!TuningCategories = 1..7
  /\ View!Id(1) = "runtime" /\ View!Id(2) = "context" /\ View!Id(3) = "sampling" /\ View!Id(4) = "reasoning"
  /\ View!Id(5) = "speculative" /\ View!Id(6) = "multimodal" /\ View!Id(7) = "advanced"
  BY DEF View!TuningCategories, View!Category, View!Id

\* The view starts with its type (Tuning.tsx).
LEMMA ViewInit == ASSUME View!Init PROVE ViewInv
<1>1. PICK section \in DOMAIN View!SectionCategory :
        panel = [mode |-> "quick", category |-> View!SectionCategory[section], query |-> View!Everything]
  BY DEF View!Init
<1>2. View!SectionCategory[section] \in {"runtime", "sampling", "reasoning", "advanced"}
  BY DEF View!SectionCategory
<1>3. {"runtime", "sampling", "reasoning", "advanced"} \subseteq View!Ids
  BY ViewPlaces DEF View!Ids, View!Id
<1> QED BY <1>1, <1>2, <1>3 DEF ViewInv, ViewType, View!Modes, View!Searches

\* Every handler of the navigation keeps the type (TuningNavigation.tsx).
LEMMA ViewNext == ASSUME ViewInv, View!Next PROVE ViewInv'
<1>0. panel \in ViewType
  BY DEF ViewInv
<1>1. \A i \in View!Visible : View!Id(i) \in View!Ids
  BY DEF View!Visible, View!Ids, View!Id
<1>2. \A c \in View!Listed : c \in View!Ids
  BY <1>1 DEF View!Listed
<1>3. CASE View!SetMode
  BY <1>0, <1>3 DEF View!SetMode, ViewType, ViewInv
<1>4. CASE View!ModeKey
  BY <1>0, <1>4 DEF View!ModeKey, View!Modes, ViewType, ViewInv
<1>5. CASE View!SelectCategory
  BY <1>0, <1>2, <1>5 DEF View!SelectCategory, ViewType, ViewInv
<1>6. CASE View!CategoryKey
  <2>1. PICK target \in View!Visible : panel' = [panel EXCEPT !.category = View!Id(target)]
    BY <1>6 DEF View!CategoryKey
  <2> QED BY <1>0, <1>1, <2>1 DEF ViewType, ViewInv
<1>7. CASE View!Search
  BY <1>0, <1>7 DEF View!Search, ViewType, ViewInv
<1> QED BY <1>3, <1>4, <1>5, <1>6, <1>7 DEF View!Next

\* The fields of the tables (tuningFields.ts).
LEMMA ViewTables ==
  /\ DOMAIN View!ServerFields = {"ngl", "ctx_size", "batch_size", "ubatch_size", "keep", "n_cpu_moe", "threads",
                                 "parallel", "request_timeout_seconds", "sleep_idle_seconds"}
  /\ DOMAIN View!MtpFields = {"spec_draft_n_max", "spec_draft_n_min", "spec_draft_p_min", "spec_draft_p_split"}
  /\ DOMAIN View!ReasoningFields = {"reasoning_budget"}
  /\ DOMAIN View!SamplingFields = {"temperature", "top_p", "top_k"}
  /\ DOMAIN View!ServerTextFields =
       {"spec_type", "spec_draft_ngl", "spec_draft_device", "spec_draft_model", "reasoning", "reasoning_format",
        "reasoning_budget_message", "reasoning_preserve", "mmproj", "cache_type_k", "cache_type_v"}
  /\ DOMAIN View!AdvancedSamplingFields =
       {"min_p", "top_n_sigma", "typical_p", "xtc_probability", "xtc_threshold", "dynatemp_range", "dynatemp_exponent",
        "repeat_last_n", "repeat_penalty", "presence_penalty", "frequency_penalty", "dry_multiplier", "dry_base",
        "dry_allowed_length", "dry_penalty_last_n", "mirostat", "mirostat_lr", "mirostat_ent", "seed", "max_tokens",
        "n_probs", "min_keep", "t_max_predict_ms", "id_slot"}
  BY DEF View!ServerFields, View!MtpFields, View!ReasoningFields, View!SamplingFields, View!ServerTextFields,
     View!AdvancedSamplingFields

ViewTabled == {View!ServerFields, View!MtpFields, View!ReasoningFields, View!SamplingFields,
               View!AdvancedSamplingFields, View!ServerTextFields}

\* No field is in two tables (tuningFields.ts).
LEMMA ViewApart ==
  ASSUME NEW table \in ViewTabled, NEW other \in ViewTabled, NEW f \in DOMAIN table, f \in DOMAIN other
  PROVE  table = other
<1>1. CASE table = View!ServerFields
  BY <1>1, ViewTables DEF ViewTabled
<1>2. CASE table = View!MtpFields
  BY <1>2, ViewTables DEF ViewTabled
<1>3. CASE table = View!ReasoningFields
  BY <1>3, ViewTables DEF ViewTabled
<1>4. CASE table = View!SamplingFields
  BY <1>4, ViewTables DEF ViewTabled
<1>5. CASE table = View!AdvancedSamplingFields
  BY <1>5, ViewTables DEF ViewTabled
<1>6. CASE table = View!ServerTextFields
  BY <1>6, ViewTables DEF ViewTabled
<1> QED BY <1>1, <1>2, <1>3, <1>4, <1>5, <1>6 DEF ViewTabled

\* The catalogue has the fields of all tables, each as its table has it
\* (TUNING_FIELD_CATALOG).
LEMMA ViewCatalog ==
  /\ \A f : f \in DOMAIN View!Catalog <=> \E table \in ViewTabled : f \in DOMAIN table
  /\ \A table \in ViewTabled : \A f \in DOMAIN table :
       /\ View!Catalog[f].category = table[f].category
       /\ View!Catalog[f].advancedOnly = table[f].advancedOnly
<1> DEFINE tables == {View!Where(View!ServerFields), View!Where(View!MtpFields), View!Where(View!ReasoningFields),
                      View!Where(View!SamplingFields), View!Where(View!AdvancedSamplingFields),
                      View!Where(View!ServerTextFields)}
<1>1. tables = {View!Where(table) : table \in ViewTabled}
  BY DEF ViewTabled
<1>2. View!Catalog = [f \in UNION {DOMAIN table : table \in tables} |-> (CHOOSE table \in tables : f \in DOMAIN table)[f]]
  BY Zenon DEF View!Catalog
<1> HIDE DEF tables
<1>3. \A table : DOMAIN View!Where(table) = DOMAIN table
  BY DEF View!Where
<1>4. DOMAIN View!Catalog = UNION {DOMAIN table : table \in tables}
  BY <1>2
<1>5. \A f : f \in DOMAIN View!Catalog <=> \E table \in ViewTabled : f \in DOMAIN table
  BY <1>1, <1>3, <1>4
<1>6. ASSUME NEW table \in ViewTabled, NEW f \in DOMAIN table
      PROVE  /\ View!Catalog[f].category = table[f].category
             /\ View!Catalog[f].advancedOnly = table[f].advancedOnly
  <2>1. \A other \in tables : f \in DOMAIN other => other = View!Where(table)
    <3>1. ASSUME NEW other \in tables, f \in DOMAIN other PROVE other = View!Where(table)
      <4>1. PICK source \in ViewTabled : other = View!Where(source)
        BY <1>1
      <4>2. f \in DOMAIN source
        BY <1>3, <3>1, <4>1
      <4>3. source = table
        BY <4>2, ViewApart
      <4> QED BY <4>1, <4>3
    <3> QED BY <3>1
  <2>2. View!Where(table) \in tables /\ f \in DOMAIN View!Where(table)
    BY <1>1, <1>3
  <2>3. (CHOOSE other \in tables : f \in DOMAIN other) = View!Where(table)
    BY <2>1, <2>2
  <2>4. f \in DOMAIN View!Catalog
    BY <1>5
  <2>5. View!Catalog[f] = View!Where(table)[f]
    BY <1>2, <1>4, <2>3, <2>4
  <2>6. View!Where(table)[f] = View!Text(table[f].category, table[f].advancedOnly)
    BY DEF View!Where
  <2> QED BY <2>5, <2>6 DEF View!Text
<1> QED BY <1>5, <1>6

\* The categories of the fields that are numbers, and which are for the
\* advanced view alone.
LEMMA ViewFields ==
  /\ \A f \in DOMAIN View!ServerFields :
       View!ServerFields[f].category \in {"runtime", "context"}
  /\ \A f \in DOMAIN View!MtpFields :
       View!MtpFields[f].category = "speculative" /\ View!MtpFields[f].advancedOnly
  /\ \A f \in DOMAIN View!ReasoningFields : View!ReasoningFields[f].category = "reasoning"
  /\ \A f \in DOMAIN View!SamplingFields : View!SamplingFields[f].category = "sampling"
  /\ \A f \in DOMAIN View!AdvancedSamplingFields :
       View!AdvancedSamplingFields[f].category = "sampling" /\ View!AdvancedSamplingFields[f].advancedOnly
  BY DEF View!ServerFields, View!MtpFields, View!ReasoningFields, View!SamplingFields, View!AdvancedSamplingFields,
     View!Number, View!Option

\* The categories of the fields that are no numbers, and which are for the
\* advanced view alone.
LEMMA ViewTexts ==
  ASSUME NEW f \in DOMAIN View!ServerTextFields
  PROVE  \/ /\ f \in {"spec_type", "spec_draft_ngl", "spec_draft_device", "spec_draft_model"}
            /\ View!ServerTextFields[f].category = "speculative" /\ View!ServerTextFields[f].advancedOnly
         \/ /\ f \in {"reasoning", "reasoning_format", "reasoning_budget_message", "reasoning_preserve"}
            /\ View!ServerTextFields[f].category = "reasoning"
         \/ /\ f = "mmproj"
            /\ View!ServerTextFields[f].category = "multimodal" /\ View!ServerTextFields[f].advancedOnly
         \/ /\ f \in {"cache_type_k", "cache_type_v"}
            /\ View!ServerTextFields[f].category = "context" /\ View!ServerTextFields[f].advancedOnly
  BY DEF View!ServerTextFields, View!Text

\* The section of the category that is selected.
ViewSection == {View!TuningCategories[i].section :
                  i \in {j \in DOMAIN View!TuningCategories : View!Id(j) = View!Selected}}

\* The section of each category (renderSection, in Tuning.tsx).
LEMMA ViewSections ==
  /\ View!Selected \in {"runtime", "context", "speculative", "multimodal"} => ViewSection = {"server"}
  /\ View!Selected = "sampling" => ViewSection = {"sampling"}
  /\ View!Selected = "reasoning" => ViewSection = {"reasoning"}
<1>1. ASSUME NEW c \in View!Ids, NEW s,
             \E i \in 1..7 : View!Id(i) = c /\ View!TuningCategories[i].section = s,
             View!Selected = c
      PROVE  ViewSection = {s}
  <2>1. \A i, j \in 1..7 : View!Id(i) = View!Id(j) => i = j
    BY ViewPlaces
  <2> QED BY <1>1, <2>1, ViewPlaces DEF ViewSection
<1>2. /\ View!TuningCategories[1].section = "server" /\ View!TuningCategories[2].section = "server"
      /\ View!TuningCategories[3].section = "sampling" /\ View!TuningCategories[4].section = "reasoning"
      /\ View!TuningCategories[5].section = "server" /\ View!TuningCategories[6].section = "server"
  BY DEF View!TuningCategories, View!Category
<1>3. \A i \in 1..7 : View!Id(i) \in View!Ids
  BY ViewPlaces DEF View!Ids, View!Id
<1>4. View!Selected = "runtime" => ViewSection = {"server"}
  BY <1>1, <1>2, <1>3, ViewPlaces
<1>5. View!Selected = "context" => ViewSection = {"server"}
  BY <1>1, <1>2, <1>3, ViewPlaces
<1>6. View!Selected = "speculative" => ViewSection = {"server"}
  BY <1>1, <1>2, <1>3, ViewPlaces
<1>7. View!Selected = "multimodal" => ViewSection = {"server"}
  BY <1>1, <1>2, <1>3, ViewPlaces
<1>8. View!Selected = "sampling" => ViewSection = {"sampling"}
  BY <1>1, <1>2, <1>3, ViewPlaces
<1>9. View!Selected = "reasoning" => ViewSection = {"reasoning"}
  BY <1>1, <1>2, <1>3, ViewPlaces
<1> QED BY <1>4, <1>5, <1>6, <1>7, <1>8, <1>9

\* The first of the categories that are listed is one of them (Tuning.tsx).
LEMMA ViewFirst == ASSUME View!Visible # {} PROVE View!First \in View!Visible
<1> DEFINE least(n) == n \in View!Visible /\ \A m \in View!Visible : n <= m
<1>1. View!Visible \subseteq 1..7
  BY ViewPlaces DEF View!Visible
<1>2. \E n : least(n)
  <2>1. CASE 1 \in View!Visible
    BY <1>1, <2>1
  <2>2. CASE 1 \notin View!Visible /\ 2 \in View!Visible
    BY <1>1, <2>2
  <2>3. CASE View!Visible \subseteq 3..7 /\ 3 \in View!Visible
    BY <2>3
  <2>4. CASE View!Visible \subseteq 4..7 /\ 4 \in View!Visible
    BY <2>4
  <2>5. CASE View!Visible \subseteq 5..7 /\ 5 \in View!Visible
    BY <2>5
  <2>6. CASE View!Visible \subseteq 6..7 /\ 6 \in View!Visible
    BY <2>6
  <2>7. CASE View!Visible \subseteq 7..7
    BY <2>7
  <2> QED BY <1>1, <2>1, <2>2, <2>3, <2>4, <2>5, <2>6, <2>7
<1> HIDE DEF least
<1>3. least(View!First)
  BY <1>2, Zenon DEF View!First, least
<1> QED BY <1>3 DEF least

\* What the type says of the view: the category of a field that a search finds is
\* listed, its section renders the field, and a category that is listed is
\* selected, unless none is (Tuning.tsx).
LEMMA ViewShows == ASSUME ViewInv PROVE View!TypeOK /\ View!FoundIsShown
<1>1. View!TypeOK
  BY DEF ViewInv, ViewType, View!TypeOK
<1>2. View!Listed # {} => View!Selected \in View!Listed
  BY ViewFirst DEF View!Selected, View!Listed
<1>3. ASSUME NEW f \in DOMAIN View!Catalog, View!FieldMatches(f, panel.query),
             NEW place \in 1..7, View!Id(place) = View!Catalog[f].category,
             View!TuningCategories[place].quick \/ panel.mode = "advanced"
      PROVE  View!Catalog[f].category \in View!Listed
  <2>1. View!CategoryMatches(View!Id(place), panel.query)
    BY <1>3 DEF View!CategoryMatches
  <2> QED BY <1>3, <2>1, ViewPlaces DEF View!Visible, View!Listed
<1>4. ASSUME NEW f \in DOMAIN View!Catalog, View!FieldMatches(f, panel.query),
             panel.mode = "advanced" \/ ~View!Catalog[f].advancedOnly
      PROVE  View!Catalog[f].category \in View!Listed /\ (View!Selected = View!Catalog[f].category => f \in View!Rendered)
  <2>0. /\ View!TuningCategories[1].quick /\ View!TuningCategories[2].quick
        /\ View!TuningCategories[3].quick /\ View!TuningCategories[4].quick
    BY DEF View!TuningCategories, View!Category
  <2>1. CASE f \in DOMAIN View!ServerFields
    <3>1. /\ View!Catalog[f].category = View!ServerFields[f].category
          /\ View!Catalog[f].advancedOnly = View!ServerFields[f].advancedOnly
      BY <2>1, ViewCatalog DEF ViewTabled
    <3>2. View!Catalog[f].category \in {"runtime", "context"}
      BY <2>1, <3>1, ViewFields
    <3>3. View!Catalog[f].category \in View!Listed
      BY <1>3, <1>4, <2>0, <3>2, ViewPlaces
    <3>4. ASSUME View!Selected = View!Catalog[f].category PROVE f \in View!Rendered
      <4>1. f \in View!VisibleFields(View!ServerFields, View!Selected)
        BY <1>4, <2>1, <3>1, <3>4 DEF View!VisibleFields
      <4>2. f \in View!ServerSection(View!Selected)
        BY <3>2, <3>4, <4>1 DEF View!ServerSection
      <4>3. ViewSection = {"server"}
        BY <3>2, <3>4, ViewSections
      <4> QED BY <4>2, <4>3 DEF View!Rendered, ViewSection
    <3> QED BY <3>3, <3>4
  <2>2. CASE f \in DOMAIN View!MtpFields
    <3>1. View!Catalog[f].category = "speculative" /\ panel.mode = "advanced"
      BY <1>4, <2>2, ViewCatalog, ViewFields DEF ViewTabled
    <3>2. View!Catalog[f].category \in View!Listed
      BY <1>3, <1>4, <3>1, ViewPlaces
    <3>3. ASSUME View!Selected = View!Catalog[f].category PROVE f \in View!Rendered
      <4>1. f \in View!ServerSection(View!Selected)
        BY <2>2, <3>1, <3>3 DEF View!ServerSection
      <4>2. ViewSection = {"server"}
        BY <3>1, <3>3, ViewSections
      <4> QED BY <4>1, <4>2 DEF View!Rendered, ViewSection
    <3> QED BY <3>2, <3>3
  <2>3. CASE f \in DOMAIN View!ReasoningFields
    <3>1. View!Catalog[f].category = "reasoning"
      BY <2>3, ViewCatalog, ViewFields DEF ViewTabled
    <3>2. View!Catalog[f].category \in View!Listed
      BY <1>3, <1>4, <2>0, <3>1, ViewPlaces
    <3>3. ASSUME View!Selected = View!Catalog[f].category PROVE f \in View!Rendered
      <4>1. ViewSection = {"reasoning"} /\ f \in View!ReasoningSection
        BY <2>3, <3>1, <3>3, ViewSections DEF View!ReasoningSection
      <4> QED BY <4>1 DEF View!Rendered, ViewSection
    <3> QED BY <3>2, <3>3
  <2>4. CASE f \in DOMAIN View!SamplingFields \/ f \in DOMAIN View!AdvancedSamplingFields
    <3>1. View!Catalog[f].category = "sampling"
      BY <2>4, ViewCatalog, ViewFields DEF ViewTabled
    <3>2. f \in DOMAIN View!AdvancedSamplingFields => panel.mode = "advanced"
      BY <1>4, ViewCatalog, ViewFields DEF ViewTabled
    <3>3. View!Catalog[f].category \in View!Listed
      BY <1>3, <1>4, <2>0, <3>1, ViewPlaces
    <3>4. ASSUME View!Selected = View!Catalog[f].category PROVE f \in View!Rendered
      <4>1. ViewSection = {"sampling"} /\ f \in View!SamplingSection
        BY <2>4, <3>1, <3>2, <3>4, ViewSections DEF View!SamplingSection
      <4> QED BY <4>1 DEF View!Rendered, ViewSection
    <3> QED BY <3>3, <3>4
  <2>5. CASE f \in DOMAIN View!ServerTextFields
    <3>1. /\ View!Catalog[f].category = View!ServerTextFields[f].category
          /\ View!Catalog[f].advancedOnly = View!ServerTextFields[f].advancedOnly
      BY <2>5, ViewCatalog DEF ViewTabled
    <3>2. CASE View!Catalog[f].category = "reasoning"
      <4>1. View!Catalog[f].category \in View!Listed
        BY <1>3, <1>4, <2>0, <3>2, ViewPlaces
      <4>2. f \in View!ReasoningSection
        BY <2>5, <3>1, <3>2, ViewTexts DEF View!ReasoningSection
      <4> QED BY <3>2, <4>1, <4>2, ViewSections DEF View!Rendered, ViewSection
    <3>3. CASE View!Catalog[f].category # "reasoning"
      <4>1. panel.mode = "advanced" /\ View!Catalog[f].category \in {"speculative", "multimodal", "context"}
        BY <1>4, <2>5, <3>1, <3>3, ViewTexts
      <4>2. View!Catalog[f].category \in View!Listed
        BY <1>3, <1>4, <4>1, ViewPlaces
      <4>3. ASSUME View!Selected = View!Catalog[f].category PROVE f \in View!Rendered
        <5>1. f \in View!ServerSection(View!Selected)
          BY <2>5, <3>1, <4>1, <4>3, ViewTexts DEF View!ServerSection
        <5>2. ViewSection = {"server"}
          BY <4>1, <4>3, ViewSections
        <5> QED BY <5>1, <5>2 DEF View!Rendered, ViewSection
      <4> QED BY <4>2, <4>3
    <3> QED BY <3>2, <3>3
  <2> QED BY <2>1, <2>2, <2>3, <2>4, <2>5, ViewCatalog DEF ViewTabled
<1> QED BY <1>1, <1>2, <1>4 DEF View!FoundIsShown

-----------------------------------------------------------------------------
SelectType ==
  [ options : SelectLists, value : Int, open : BOOLEAN, highlight : Int,
    from : {"value", "mouse", "keys"}, query : Seq(STRING), by : {"none", "enter", "click", "typing"} ]

\* Where the value and the highlight can be; and an opened list has an option.
SelectKeeps(s) ==
  /\ s.value \in 0..Len(s.options) - 1 /\ s.highlight \in -1..Len(s.options) - 1
  /\ s.by # "none" => ~s.options[s.value + 1].disabled
  /\ s.from = "keys" => s.highlight >= 0 /\ ~s.options[s.highlight + 1].disabled

SelectInv == panel \in SelectType /\ SelectKeeps(panel)

\* The list starts with the invariant (ThemeSwitcher.tsx).
LEMMA SelectInit == ASSUME Select!Init PROVE SelectInv
<1>0. PICK options \in SelectLists : \E value \in 0..Len(options) - 1 :
        panel = [ options |-> options, value |-> value, open |-> FALSE,
                  highlight |-> -1, from |-> "value", query |-> <<>>, by |-> "none" ]
  BY DEF Select!Init
<1>1. PICK value \in 0..Len(options) - 1 :
        panel = [ options |-> options, value |-> value, open |-> FALSE,
                  highlight |-> -1, from |-> "value", query |-> <<>>, by |-> "none" ]
  BY <1>0
<1>2. options \in Seq([label : Seq(STRING), disabled : BOOLEAN])
  BY SelectAssumption
<1>3. Len(options) \in Nat /\ value \in Int
  BY <1>2
<1>4. <<>> \in Seq(STRING)
  OBVIOUS
<1> QED BY <1>1, <1>3, <1>4 DEF SelectInv, SelectType, SelectKeeps

\* The types of the fields of the list.
LEMMA SelectFields ==
  ASSUME SelectInv
  PROVE  /\ panel.options \in SelectLists /\ panel.options \in Seq([label : Seq(STRING), disabled : BOOLEAN])
         /\ Len(panel.options) \in Nat \ {0} /\ panel.value \in Int /\ panel.open \in BOOLEAN /\ panel.highlight \in Int
         /\ panel.query \in Seq(STRING)
         /\ Select!Count = Len(panel.options) /\ Select!Count \in Nat \ {0}
<1>1. panel.options \in SelectLists /\ panel.value \in Int /\ panel.open \in BOOLEAN /\ panel.highlight \in Int /\ panel.query \in Seq(STRING)
  BY DEF SelectInv, SelectType
<1>2. panel.options \in Seq([label : Seq(STRING), disabled : BOOLEAN])
  BY <1>1, SelectAssumption
<1>3. Len(panel.options) \in Nat
  BY <1>2
<1>4. Len(panel.options) # 0
  BY <1>3 DEF SelectInv, SelectKeeps
<1> QED BY <1>1, <1>2, <1>3, <1>4 DEF Select!Count

\* What a search for an enabled option finds is one (findEnabledOption, in
\* ThemeSwitcher.tsx).
LEMMA SelectFound ==
  ASSUME SelectInv, NEW from \in Int, NEW step \in {1, -1}, NEW matches,
         NEW i, i = Select!FindEnabled(from, step, matches)
  PROVE  i = -1 \/ (i \in 0..Len(panel.options) - 1 /\ ~panel.options[i + 1].disabled)
<1> DEFINE at(offset) == (from + step * offset) % Select!Count
           enabled == {offset \in 0..Select!Count - 1 : Select!Enabled(at(offset)) /\ at(offset) \in matches}
<1>1. CASE enabled = {}
  BY <1>1 DEF Select!FindEnabled
<1>2. CASE enabled # {}
  <2>1. enabled \in SUBSET Nat
    BY SelectFields
  <2>2. i = at(CHOOSE o \in enabled : \A p \in enabled : o <= p)
    BY <1>2 DEF Select!FindEnabled
  <2> DEFINE o == CHOOSE o \in enabled : \A p \in enabled : o <= p
  <2>3. o \in enabled
    <3> HIDE DEF enabled
    <3>1. \E m \in enabled : \A k \in enabled : m <= k
      BY <1>2, <2>1, Least
    <3> QED BY <3>1
  <2>4. Select!Enabled(i)
    BY <2>2, <2>3
  <2> QED BY <2>4, SelectFields DEF Select!Enabled, Select!Option, Select!Options
<1> QED BY <1>1, <1>2

\* A highlight that moves to an enabled option keeps the invariant
\* (ThemeSwitcher.tsx).
LEMMA SelectMoved ==
  ASSUME SelectInv, NEW i, i = -1 \/ (i \in 0..Len(panel.options) - 1 /\ ~panel.options[i + 1].disabled),
         NEW s \in SelectType, SelectKeeps(s), s.options = panel.options
  PROVE  Select!MovedTo(s, i) \in SelectType /\ SelectKeeps(Select!MovedTo(s, i))
<1>1. CASE i = -1
  BY <1>1 DEF Select!MovedTo
<1>2. CASE i # -1
  <2>1. Select!MovedTo(s, i) = [s EXCEPT !.highlight = i, !.from = "keys"]
    BY <1>2 DEF Select!MovedTo
  <2>2. i \in Int /\ i >= 0
    BY <1>2, SelectFields
  <2>3. [s EXCEPT !.highlight = i, !.from = "keys"] \in SelectType
    BY <2>2 DEF SelectType
  <2>4. SelectKeeps([s EXCEPT !.highlight = i, !.from = "keys"])
    <3> DEFINE t == [s EXCEPT !.highlight = i, !.from = "keys"]
    <3>1. t.options = panel.options /\ t.value = s.value /\ t.by = s.by /\ t.highlight = i
      BY DEF SelectType
    <3>2. s.value \in 0..Len(panel.options) - 1 /\ (s.by # "none" => ~panel.options[s.value + 1].disabled)
      BY DEF SelectKeeps
    <3>3. i \in 0..Len(panel.options) - 1 /\ ~panel.options[i + 1].disabled
      BY <1>2
    <3> HIDE DEF t
    <3>4. SelectKeeps(t)
      BY <2>2, <3>1, <3>2, <3>3, SelectFields DEF SelectKeeps
    <3> QED BY <3>4 DEF t
  <2> QED BY <2>1, <2>3, <2>4
<1> QED BY <1>1, <1>2

\* Opening and closing the list keeps the invariant (ThemeSwitcher.tsx).
LEMMA SelectShown ==
  ASSUME SelectInv, NEW s \in SelectType, SelectKeeps(s), NEW to \in BOOLEAN
  PROVE  Select!Shown(s, to) \in SelectType /\ SelectKeeps(Select!Shown(s, to))
<1>1. s.options \in SelectLists
  BY DEF SelectType
<1>2. Len(s.options) \in Nat
  BY <1>1, SelectAssumption
<1>3. CASE to /\ ~s.open
  <2> DEFINE t == [s EXCEPT !.open = TRUE, !.highlight = s.value, !.from = "value"]
  <2>1. Select!Shown(s, to) = t
    BY <1>3 DEF Select!Shown
  <2>2. s.value \in Int /\ t \in SelectType
    BY DEF SelectType
  <2>3. t.options = s.options /\ t.value = s.value /\ t.by = s.by /\ t.highlight = s.value /\ t.from = "value"
    BY DEF SelectType
  <2> HIDE DEF t
  <2>4. SelectKeeps(t)
    BY <1>2, <2>2, <2>3 DEF SelectKeeps
  <2> QED BY <2>1, <2>2, <2>4
<1>4. CASE ~(to /\ ~s.open)
  <2>1. Select!Shown(s, to) = [s EXCEPT !.open = to]
    BY <1>4 DEF Select!Shown
  <2>2. [s EXCEPT !.open = to] \in SelectType
    BY DEF SelectType
  <2>3. SelectKeeps([s EXCEPT !.open = to])
    BY DEF SelectKeeps, SelectType
  <2> QED BY <2>1, <2>2, <2>3
<1> QED BY <1>3, <1>4

\* Every key, click and letter keeps the invariant (ThemeSwitcher.tsx).
LEMMA SelectNext ==
  ASSUME SelectInv, Select!Next PROVE SelectInv'
<1>0. panel \in SelectType /\ SelectKeeps(panel)
  BY DEF SelectInv
<1>1. CASE Select!Toggle \/ Select!Close \/ Select!OpenByKey
  <2>1. \E to \in BOOLEAN : panel' = Select!Shown(panel, to)
    BY <1>1 DEF Select!Toggle, Select!Close, Select!OpenByKey
  <2> QED BY <2>1, <1>0, SelectShown DEF SelectInv
<1>2. CASE Select!Arrow
  <2>1. \E from \in Int, step \in {1, -1} : panel' = Select!MovedTo(panel, Select!FindEnabled(from, step, Select!All))
    BY <1>2, SelectFields DEF Select!Arrow
  <2>2. PICK from \in Int, step \in {1, -1} : panel' = Select!MovedTo(panel, Select!FindEnabled(from, step, Select!All))
    BY <2>1
  <2> DEFINE i == Select!FindEnabled(from, step, Select!All)
  <2>3. i = -1 \/ (i \in 0..Len(panel.options) - 1 /\ ~panel.options[i + 1].disabled)
    BY SelectFound
  <2> HIDE DEF i
  <2>4. Select!MovedTo(panel, i) \in SelectType /\ SelectKeeps(Select!MovedTo(panel, i))
    BY <1>0, <2>3, SelectMoved
  <2> QED BY <2>2, <2>4 DEF SelectInv, i
<1>3. CASE Select!MouseEnters
  <2>1. PICK i \in Select!All : panel' = [panel EXCEPT !.highlight = i, !.from = "mouse"]
    BY <1>3 DEF Select!MouseEnters
  <2>2. i \in 0..Len(panel.options) - 1 /\ i \in Int
    BY SelectFields DEF Select!All
  <2>3. [panel EXCEPT !.highlight = i, !.from = "mouse"] \in SelectType
    BY <1>0, <2>2 DEF SelectType
  <2>4. SelectKeeps([panel EXCEPT !.highlight = i, !.from = "mouse"])
    BY <1>0, <2>2, SelectFields DEF SelectKeeps, SelectType
  <2> QED BY <2>1, <2>3, <2>4 DEF SelectInv
<1>4. CASE Select!Commit
  <2>1. CASE Select!Enabled(panel.highlight)
    <3> DEFINE s == [panel EXCEPT !.value = panel.highlight, !.by = "enter"]
    <3>1. panel' = Select!Shown(s, FALSE)
      BY <1>4, <2>1 DEF Select!Commit, Select!Committed
    <3>2. panel.highlight \in 0..Len(panel.options) - 1 /\ ~panel.options[panel.highlight + 1].disabled
      BY <2>1, SelectFields DEF Select!Enabled, Select!Option, Select!Options
    <3>3. s \in SelectType
      BY <1>0, <3>2 DEF SelectType
    <3>4. SelectKeeps(s)
      BY <1>0, <3>2, SelectFields DEF SelectKeeps, SelectType
    <3> HIDE DEF s
    <3> QED BY <3>1, <3>3, <3>4, SelectShown DEF SelectInv
  <2>2. CASE ~Select!Enabled(panel.highlight)
    <3>1. panel' = Select!Shown(panel, FALSE)
      BY <1>4, <2>2 DEF Select!Commit, Select!Committed
    <3> QED BY <1>0, <3>1, SelectShown DEF SelectInv
  <2> QED BY <2>1, <2>2
<1>5. CASE Select!Click
  <2>1. PICK i \in Select!All : Select!Enabled(i) /\ panel' = Select!Shown([panel EXCEPT !.value = i, !.by = "click"], FALSE)
    BY <1>5 DEF Select!Click
  <2> DEFINE s == [panel EXCEPT !.value = i, !.by = "click"]
  <2>2. i \in 0..Len(panel.options) - 1 /\ i \in Int /\ ~panel.options[i + 1].disabled
    BY <2>1, SelectFields DEF Select!Enabled, Select!Option, Select!Options
  <2>3. s \in SelectType
    BY <1>0, <2>2 DEF SelectType
  <2>4. SelectKeeps(s)
    BY <1>0, <2>2, SelectFields DEF SelectKeeps, SelectType
  <2>5. panel' = Select!Shown(s, FALSE)
    BY <2>1
  <2> HIDE DEF s
  <2> QED BY <2>3, <2>4, <2>5, SelectShown DEF SelectInv
<1>6. CASE Select!TypesAhead
  <2>1. PICK c \in UNION {{panel.options[i].label[j] : j \in 1..Len(panel.options[i].label)} : i \in 1..Len(panel.options)} :
          LET query == Append(panel.query, c)
              typed == [panel EXCEPT !.query = query]
              match == Select!Found(panel, query)
          IN  panel' = IF match = -1 THEN typed
                       ELSE IF panel.open THEN Select!MovedTo(typed, match)
                       ELSE [typed EXCEPT !.value = match, !.by = "typing"]
    BY <1>6, SelectFields DEF Select!TypesAhead, Select!Options
  <2> DEFINE query == Append(panel.query, c)
             typed == [panel EXCEPT !.query = query]
             match == Select!Found(panel, query)
  <2>2. c \in STRING
    <3>1. PICK i \in 1..Len(panel.options) : c \in {panel.options[i].label[j] : j \in 1..Len(panel.options[i].label)}
      BY <2>1
    <3>0. panel.options \in Seq([label : Seq(STRING), disabled : BOOLEAN])
      BY SelectFields
    <3>2. panel.options[i] \in [label : Seq(STRING), disabled : BOOLEAN]
      BY <3>0, <3>1, ElementOfSeq
    <3>3. panel.options[i].label \in Seq(STRING)
      BY <3>2
    <3> QED BY <3>1, <3>3
  <2>3. query \in Seq(STRING)
    BY <2>2, SelectFields
  <2>4. typed \in SelectType
    BY <1>0, <2>3 DEF SelectType
  <2>5. SelectKeeps(typed) /\ typed.options = panel.options
    BY <1>0 DEF SelectKeeps, SelectType
  <2>6. match = -1 \/ (match \in 0..Len(panel.options) - 1 /\ ~panel.options[match + 1].disabled)
    <3> DEFINE next == Select!FindEnabled((IF panel.open THEN panel.highlight ELSE panel.value) + 1, 1, Select!Matching(query))
               again == Select!FindEnabled(0, 1, Select!Matching(query))
    <3>1. match = IF next = -1 /\ Len(query) > 1 THEN again ELSE next
      BY DEF Select!Found
    <3>2. (IF panel.open THEN panel.highlight ELSE panel.value) + 1 \in Int
      BY SelectFields
    <3>3. next = -1 \/ (next \in 0..Len(panel.options) - 1 /\ ~panel.options[next + 1].disabled)
      BY <3>2, SelectFound
    <3>4. again = -1 \/ (again \in 0..Len(panel.options) - 1 /\ ~panel.options[again + 1].disabled)
      BY SelectFound
    <3> HIDE DEF next, again, match
    <3> QED BY <3>1, <3>3, <3>4
  <2>7. panel' = IF match = -1 THEN typed
                 ELSE IF panel.open THEN Select!MovedTo(typed, match)
                 ELSE [typed EXCEPT !.value = match, !.by = "typing"]
    BY <2>1
  <2> HIDE DEF query, typed, match
  <2>8. CASE match = -1
    BY <2>4, <2>5, <2>7, <2>8 DEF SelectInv
  <2>9. CASE match # -1 /\ panel.open
    BY <2>4, <2>5, <2>6, <2>7, <2>9, SelectMoved DEF SelectInv
  <2>10. CASE match # -1 /\ ~panel.open
    <3>1. panel' = [typed EXCEPT !.value = match, !.by = "typing"]
      BY <2>7, <2>10
    <3>2. match \in Int
      BY <2>6, <2>10
    <3>3. [typed EXCEPT !.value = match, !.by = "typing"] \in SelectType
      BY <2>4, <3>2 DEF SelectType
    <3>4. SelectKeeps([typed EXCEPT !.value = match, !.by = "typing"])
      BY <2>4, <2>5, <2>6, <2>10 DEF SelectKeeps, SelectType
    <3> QED BY <3>1, <3>3, <3>4 DEF SelectInv
  <2> QED BY <2>8, <2>9, <2>10
<1>7. CASE Select!QueryExpires
  <2>1. panel' = [panel EXCEPT !.query = <<>>]
    BY <1>7 DEF Select!QueryExpires
  <2>2. <<>> \in Seq(STRING)
    OBVIOUS
  <2>3. [panel EXCEPT !.query = <<>>] \in SelectType
    BY <1>0, <2>2 DEF SelectType
  <2>4. SelectKeeps([panel EXCEPT !.query = <<>>])
    BY <1>0 DEF SelectKeeps, SelectType
  <2> QED BY <2>1, <2>3, <2>4 DEF SelectInv
<1> QED BY <1>1, <1>2, <1>3, <1>4, <1>5, <1>6, <1>7 DEF Select!Next

\* What the invariant says of the list: its type, and no option that is
\* disabled is chosen.
LEMMA SelectShows ==
  ASSUME SelectInv PROVE Select!TypeOK /\ Select!OnlyEnabledChosen
<1>1. Select!TypeOK
  BY SelectFields DEF Select!TypeOK, SelectInv, SelectType, SelectKeeps
<1>2. Select!OnlyEnabledChosen
  BY SelectFields DEF Select!OnlyEnabledChosen, Select!Enabled, Select!Option, Select!Options, SelectInv, SelectType, SelectKeeps
<1> QED BY <1>1, <1>2

-----------------------------------------------------------------------------
\* The parts side by side: whichever of them runs has its invariant.

ofConversations ==
  <<open, mem, shown, initial, hydrated, load, saves, local, indexed, own, legacy, wipe, opens,
    writes, want, faults>>
ofDocuments == <<database, indexed, local, queue, found, asking, clock, failed, wanted>>

StoresInv ==
  /\ part = "history" => HistoryInv
  /\ part = "index" => IndexInv
  /\ part = "runtimes" => RuntimesInv
  /\ part = "model" => ModelInv
  /\ part = "registry" => RegistryInv
  /\ part = "answers" => GatewayInv
  /\ part = "options" => OptionsInv
  /\ part = "limits" => LimitsInv
  /\ part = "view" => ViewInv
  /\ part = "select" => SelectInv

\* A step is one of the part that runs, or leaves it alone.
LEMMA PartSteps ==
  ASSUME [Next]_vars
  PROVE  /\ part' = part
         /\ part = "history" => History!Next \/ UNCHANGED ofConversations
         /\ part = "index" => Index!Next \/ UNCHANGED ofDocuments
         /\ part = "runtimes" => Runtimes!Next \/ UNCHANGED ofRuntimes
         /\ part = "model" => Model!Next \/ UNCHANGED ofModel
         /\ part = "registry" => Registry!Next \/ UNCHANGED store
         /\ part = "answers" => Answers!Next \/ UNCHANGED gw
         /\ part = "options" => Options!Next \/ UNCHANGED panel
         /\ part = "limits" => Limits!Next \/ UNCHANGED panel
         /\ part = "view" => View!Next \/ UNCHANGED panel
         /\ part = "select" => Select!Next \/ UNCHANGED panel
<1>1. CASE UNCHANGED vars
  BY <1>1 DEF vars, ofStores, ofFrontEnd, ofBackEnd, ofHistory, ofBoth, ofIndex, ofConversations, ofDocuments
<1>2. CASE Next
  BY <1>2 DEF Next
<1> QED BY <1>1, <1>2

LEMMA StoresInvInit == Init => StoresInv
BY HistoryInvInit, IndexInvInit, RuntimesInvInit, ModelInvInit, RegistryInvInit, GatewayInvInit,
   OptionsInit, LimitsInit, ViewInit, SelectInit
   DEF Init, StoresInv

LEMMA StoresInvNext == StoresInv /\ [Next]_vars => StoresInv'
<1> SUFFICES ASSUME StoresInv, [Next]_vars PROVE StoresInv'
  OBVIOUS
<1>1. part' = part
  BY PartSteps
<1>2. CASE part = "history"
  <2>1. HistoryInv'
    BY <1>2, PartSteps, HistoryInvNext, HistoryInvStutters DEF StoresInv, ofConversations
  <2> QED BY <1>1, <1>2, <2>1 DEF StoresInv
<1>3. CASE part = "index"
  <2>1. IndexInv'
    BY <1>3, PartSteps, IndexInvNext, IndexInvStutters DEF StoresInv, ofDocuments
  <2> QED BY <1>1, <1>3, <2>1 DEF StoresInv
<1>4. CASE part = "runtimes"
  <2>1. RuntimesInv'
    BY <1>4, PartSteps, RuntimesInvNext, RuntimesInvStutters DEF StoresInv
  <2> QED BY <1>1, <1>4, <2>1 DEF StoresInv
<1>5. CASE part = "model"
  <2>1. ModelInv'
    BY <1>5, PartSteps, ModelInvNext, ModelInvStutters DEF StoresInv
  <2> QED BY <1>1, <1>5, <2>1 DEF StoresInv
<1>6. CASE part = "registry"
  <2>1. RegistryInv'
    BY <1>6, PartSteps, RegistryInvNext, RegistryInvStutters DEF StoresInv
  <2> QED BY <1>1, <1>6, <2>1 DEF StoresInv
<1>7. CASE part = "answers"
  <2>1. GatewayInv'
    BY <1>7, PartSteps, GatewayInvNext, GatewayInvStutters DEF StoresInv
  <2> QED BY <1>1, <1>7, <2>1 DEF StoresInv
<1>8. CASE part = "options"
  <2>1. OptionsInv /\ (Options!Next \/ UNCHANGED panel)
    BY <1>8, PartSteps DEF StoresInv
  <2>2. Options!Next => OptionsInv'
    BY <2>1, OptionsNext
  <2>3. UNCHANGED panel => OptionsInv'
    BY <2>1 DEF OptionsInv, OptionsKeep
  <2>4. OptionsInv'
    BY <2>1, <2>2, <2>3
  <2> QED BY <1>1, <1>8, <2>4 DEF StoresInv
<1>9. CASE part = "limits"
  <2>1. LimitsInv /\ (Limits!Next \/ UNCHANGED panel)
    BY <1>9, PartSteps DEF StoresInv
  <2>2. Limits!Next => LimitsInv'
    BY <2>1, LimitsNext
  <2>3. UNCHANGED panel => LimitsInv'
    BY <2>1 DEF LimitsInv, LimitsKeep
  <2>4. LimitsInv'
    BY <2>1, <2>2, <2>3
  <2> QED BY <1>1, <1>9, <2>4 DEF StoresInv
<1>10. CASE part = "view"
  <2>1. ViewInv /\ (View!Next \/ UNCHANGED panel)
    BY <1>10, PartSteps DEF StoresInv
  <2>2. View!Next => ViewInv'
    BY <2>1, ViewNext
  <2>3. UNCHANGED panel => ViewInv'
    BY <2>1 DEF ViewInv
  <2>4. ViewInv'
    BY <2>1, <2>2, <2>3
  <2> QED BY <1>1, <1>10, <2>4 DEF StoresInv
<1>11. CASE part = "select"
  <2>1. SelectInv /\ (Select!Next \/ UNCHANGED panel)
    BY <1>11, PartSteps DEF StoresInv
  <2>2. Select!Next => SelectInv'
    BY <2>1, SelectNext
  <2>3. UNCHANGED panel => SelectInv'
    BY <2>1 DEF SelectInv, SelectKeeps
  <2>4. SelectInv'
    BY <2>1, <2>2, <2>3
  <2> QED BY <1>1, <1>11, <2>4 DEF StoresInv
<1>12. CASE part \notin {"history", "index", "runtimes", "model", "registry", "answers",
                       "options", "limits", "view", "select"}
  BY <1>1, <1>12 DEF StoresInv
<1> QED BY <1>2, <1>3, <1>4, <1>5, <1>6, <1>7, <1>8, <1>9, <1>10, <1>11, <1>12

LEMMA StoresInvImplies ==
  StoresInv => /\ TypeOK /\ ConversationsKept /\ IndexIsTrue /\ RuntimesAreShown /\ FilesAreWhole
               /\ ControlsAgree
<1> SUFFICES ASSUME StoresInv
             PROVE  /\ TypeOK /\ ConversationsKept /\ IndexIsTrue /\ RuntimesAreShown /\ FilesAreWhole
                    /\ ControlsAgree
  OBVIOUS
<1>1. TypeOK
  BY HistoryInvImplies, RuntimesInvImplies, ModelInvImplies, RegistryInvImplies, GatewayInvImplies,
     LimitsShows, ViewShows, SelectShows
     DEF StoresInv, TypeOK
<1>2. ConversationsKept /\ IndexIsTrue /\ RuntimesAreShown /\ FilesAreWhole
  BY HistoryInvImplies, IndexInvImplies, RuntimesInvImplies, ModelInvImplies, RegistryInvImplies,
     GatewayInvImplies
     DEF StoresInv, ConversationsKept, IndexIsTrue, RuntimesAreShown, FilesAreWhole
<1>3. ControlsAgree
  BY OptionsShow, LimitsShows, ViewShows, SelectShows DEF StoresInv, ControlsAgree
<1> QED BY <1>1, <1>2, <1>3

LEMMA StoresInvAlways == Spec => []StoresInv
BY StoresInvInit, StoresInvNext, PTL DEF Spec

\* Every variable of every part stays in its domain: chatHistory.ts keeps workspaces, never
\* halves of them, and a panel knows every call it has made.
THEOREM StoresAreTyped == Spec => []TypeOK
BY StoresInvAlways, StoresInvImplies, PTL

\* Whatever the user does before or while chatHistory.ts answers, no conversation loses its text
\* or comes back after it was deleted; and an answer gateway.rs keeps has the whole
\* conversation it continues, in a store that keeps to its limit.
THEOREM ConversationsAreKept == Spec => []ConversationsKept
BY StoresInvAlways, StoresInvImplies, PTL

\* documentIndex.ts answers with vectors of the very chunks and model asked about and keeps
\* to its limit; once its queue is empty and nothing has failed, localStorage has no
\* document that was removed, and IndexedDB none that was not saved since the last clear.
THEOREM IndexStaysTrue == Spec => []IndexIsTrue
BY StoresInvAlways, StoresInvImplies, PTL

\* Once nothing is under way the runtimes panel shows what is installed, in whatever order
\* refreshes and calls have returned, except for the runtimes of calls that failed half way
\* since its newest list was read; a source build can be cancelled while it runs.
THEOREM RuntimesStayShown == Spec => []RuntimesAreShown
BY StoresInvAlways, StoresInvImplies, PTL

\* A download of discover.rs puts only the listed file at its destination and leaves no
\* staging file, and the registry of mcp.rs is what its saves and removals made of it.
THEOREM FilesStayWhole == Spec => []FilesAreWhole
BY StoresInvAlways, StoresInvImplies, PTL

\* Whatever is typed, chosen or preset in the tuning panel, whatever switches and options are
\* written by hand: a control decides what it shows, a request is the application's own,
\* what the panel sends is what the save and the back end keep and can be shown again, the
\* category of a field that is searched for is listed and shows it once it is selected, and
\* no option that is disabled is chosen
\* (tuningFields.ts, tuningValidation.ts, storeConfig.ts, config.rs, ThemeSwitcher.tsx).
THEOREM ControlsStayAgreed == Spec => []ControlsAgree
BY StoresInvAlways, StoresInvImplies, PTL

\* What a probe of a runtime found is put on screen only while that runtime is the active one.
THEOREM ProbesStayCurrent == Spec => ProbeIsCurrent
<1>1. StoresInv /\ [Next]_vars => [part = "runtimes" => Runtimes!ProbeIsCurrent]_vars
  BY PartSteps, ProbeStep DEF StoresInv
<1> QED BY <1>1, StoresInvAlways, PTL DEF Spec, ProbeIsCurrent
=============================================================================
