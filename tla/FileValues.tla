------------------------------ MODULE FileValues ------------------------------
(***************************************************************************)
(* The watcher of a values directory (FileValuesWatcher,                    *)
(* src/internal/watcher/file_values_watcher.go) with its channel and the    *)
(* fan-in behind it (src/main.go, wireValuesFanIn).  The directory is the   *)
(* environment: a Kubernetes volume, whose ..data link moves to a new       *)
(* generation of all files at once and whose visible names follow a little  *)
(* later, or a plain directory, edited file by file.  A scan reads it one   *)
(* system call at a time, and calls may fail.                               *)
(*                                                                         *)
(* A snapshot is a function from files to the number of the change that     *)
(* wrote them, 0 for a key that is absent (a nil map is an empty one).      *)
(***************************************************************************)
EXTENDS Integers, FiniteSets

CONSTANTS
  Files,
  Lasting,          \* files that are never deleted
  MaxScanAttempts,
  MaxDirChanges,    \* bound: changes of the directory
  MaxReadFaults     \* bound: failing calls

ASSUME FileAssumption ==
  /\ Lasting \subseteq Files
  /\ MaxScanAttempts \in Nat \ {0}
  /\ MaxDirChanges \in Nat /\ MaxReadFaults \in Nat

VARIABLES
  linked,      \* the directory has a ..data link
  gen,         \* the link's target; counts every change
  content,     \* what each name resolves to, 0 if nothing
  visible,     \* the names the directory lists
  readFaults,
  spc,         \* where scan is
  scanAttempt,
  before,      \* dataBefore; 0 if there is none
  unread,      \* listed files this pass has not come to
  pass,        \* what this pass has read: parsed
  missed,      \* its unreadable files
  kept,        \* parsed and unreadable of the last complete pass
  haveSnapshot,
  previous, synced,
  chan,        \* the channel of capacity one: a set
  received,    \* what the event loop has last been given
  consistent,  \* history: the last snapshot sent is that of an undisturbed pass
  carried      \* history: the keys it holds from an earlier snapshot

dirVars == <<linked, gen, content, visible>>
sendVars == <<previous, synced, chan, consistent, carried>>
fileVars == <<dirVars, readFaults, spc, scanAttempt, before, unread, pass,
              missed, kept, haveSnapshot, sendVars, received>>

Nothing == [f \in Files |-> 0]

FileInit ==
  /\ linked \in BOOLEAN
  /\ gen = 1
  /\ content = [f \in Files |-> 1]
  /\ visible = Files
  /\ readFaults = 0
  /\ spc = "idle"
  /\ scanAttempt = 0
  /\ before = 0
  /\ unread = {}
  /\ pass = Nothing
  /\ missed = {}
  /\ kept = [parsed |-> Nothing, unreadable |-> {}]
  /\ haveSnapshot = FALSE
  /\ previous = Nothing
  /\ synced = FALSE
  /\ chan = {}
  /\ received = Nothing
  /\ consistent = FALSE
  /\ carried = {}

ReadFault ==
  /\ readFaults < MaxReadFaults
  /\ readFaults' = readFaults + 1
-----------------------------------------------------------------------------
(* The directory.                                                          *)

dirRest == <<linked, readFaults, spc, scanAttempt, before, unread, pass,
             missed, kept, haveSnapshot, sendVars, received>>

\* A volume update: ..data moves, and with it everything its names resolve to.
Swap ==
  /\ linked /\ gen <= MaxDirChanges
  /\ gen' = gen + 1
  /\ \E S \in SUBSET (Files \ Lasting) :
       content' = [f \in Files |-> IF f \in S \cup Lasting THEN gen' ELSE 0]
  /\ UNCHANGED <<visible, dirRest>>

\* The visible names follow.
NamesFollow ==
  /\ linked
  /\ visible' = {f \in Files : content[f] # 0}
  /\ visible' # visible
  /\ UNCHANGED <<gen, content, dirRest>>

\* A plain directory: one file is written or deleted.
EditFile(f) ==
  /\ ~linked /\ gen <= MaxDirChanges
  /\ gen' = gen + 1
  /\ \E v \in {gen'} \cup (IF f \in Lasting THEN {} ELSE {0}) :
       content' = [content EXCEPT ![f] = v]
  /\ visible' = {g \in Files : content'[g] # 0}
  /\ UNCHANGED dirRest
-----------------------------------------------------------------------------
(* send.                                                                   *)

\* Slip: an unreadable file is a deleted one.
SendDropping(data, unreadable, undisturbed) ==
  /\ IF synced /\ data = previous
     THEN UNCHANGED sendVars
     ELSE /\ synced' = TRUE
          /\ previous' = data
          /\ chan' = {data}
          /\ consistent' = undisturbed
          /\ carried' = {}
  /\ spc' = "idle"

\* Slip: a snapshot that is waiting is kept, and the new one is lost.
SendWaits(data, unreadable, undisturbed) ==
  LET filled == [f \in Files |-> IF f \in unreadable THEN previous[f]
                                                     ELSE data[f]]
  IN  /\ IF synced /\ filled = previous
         THEN UNCHANGED sendVars
         ELSE /\ synced' = TRUE
              /\ previous' = filled
              /\ chan' = IF chan = {} THEN {filled} ELSE chan
              /\ consistent' = undisturbed
              /\ carried' = unreadable
      /\ spc' = "idle"

\* What could not be read keeps its last value; an equal snapshot is not sent;
\* an older one that nobody has taken is replaced.
Send(data, unreadable, undisturbed) ==
  LET filled == [f \in Files |-> IF f \in unreadable THEN previous[f]
                                                     ELSE data[f]]
  IN  /\ IF synced /\ filled = previous
         THEN UNCHANGED sendVars
         ELSE /\ synced' = TRUE
              /\ previous' = filled
              /\ chan' = {filled}
              /\ consistent' = undisturbed
              /\ carried' = unreadable
      /\ spc' = "idle"
-----------------------------------------------------------------------------
(* scan.                                                                   *)

scanRest == <<dirVars, received>>

ScanStarts ==
  /\ spc = "idle"
  /\ spc' = "readlink"
  /\ scanAttempt' = 1
  /\ haveSnapshot' = FALSE
  /\ kept' = [parsed |-> Nothing, unreadable |-> {}]
  /\ UNCHANGED <<scanRest, readFaults, before, unread, pass, missed, sendVars>>

\* Without a link, or when it cannot be read, there is nothing to compare with.
ReadlinkBefore ==
  /\ spc = "readlink"
  /\ spc' = "readdir"
  /\ \/ before' = (IF linked THEN gen ELSE 0) /\ UNCHANGED readFaults
     \/ linked /\ ReadFault /\ before' = 0
  /\ UNCHANGED <<scanRest, scanAttempt, unread, pass, missed, kept,
                 haveSnapshot, sendVars>>

ReadDir ==
  /\ spc = "readdir"
  /\ spc' = "files"
  /\ unread' = visible
  /\ pass' = Nothing
  /\ missed' = {}
  /\ UNCHANGED <<scanRest, readFaults, scanAttempt, before, kept, haveSnapshot,
                 sendVars>>

\* The listing fails: the previous pass of this scan is good enough; without
\* one, what was delivered stays, unless nothing ever was.
ReadDirFails ==
  /\ spc = "readdir"
  /\ ReadFault
  /\ IF haveSnapshot \/ ~synced
     THEN Send(kept.parsed, kept.unreadable, FALSE)
     ELSE spc' = "idle" /\ UNCHANGED sendVars
  /\ UNCHANGED <<scanRest, scanAttempt, before, unread, pass, missed, kept,
                 haveSnapshot>>

\* One file; a name that resolves to nothing cannot be read either.
ReadFile(f) ==
  /\ spc = "files" /\ f \in unread
  /\ unread' = unread \ {f}
  /\ \/ /\ content[f] # 0
        /\ pass' = [pass EXCEPT ![f] = content[f]]
        /\ UNCHANGED <<missed, readFaults>>
     \/ /\ content[f] = 0
        /\ missed' = missed \cup {f}
        /\ UNCHANGED <<pass, readFaults>>
     \/ /\ ReadFault
        /\ missed' = missed \cup {f}
        /\ UNCHANGED pass
  /\ UNCHANGED <<scanRest, spc, scanAttempt, before, kept, haveSnapshot,
                 sendVars>>

\* Slip: the link is not looked at again.
PassUnchecked(stays) ==
  Send(pass, missed, TRUE) /\ UNCHANGED <<scanAttempt, kept, haveSnapshot>>

\* After a pass: deliver it, or read once more if the link moved.
PassChecked(stays) ==
  IF stays \/ scanAttempt = MaxScanAttempts
  THEN Send(pass, missed, stays) /\ UNCHANGED <<scanAttempt, kept, haveSnapshot>>
  ELSE /\ spc' = "readlink"
       /\ scanAttempt' = scanAttempt + 1
       /\ kept' = [parsed |-> pass, unreadable |-> missed]
       /\ haveSnapshot' = TRUE
       /\ UNCHANGED sendVars

\* The second Readlink, which may fail.
PassOver ==
  /\ spc = "files" /\ unread = {}
  /\ \/ /\ before = 0
        /\ Send(pass, missed, FALSE)
        /\ UNCHANGED <<scanAttempt, kept, haveSnapshot, readFaults>>
     \/ before # 0 /\ PassChecked(gen = before) /\ UNCHANGED readFaults
     \/ before # 0 /\ ReadFault /\ PassChecked(FALSE)
  /\ UNCHANGED <<scanRest, before, unread, pass, missed>>

Scan ==
  \/ ScanStarts \/ ReadlinkBefore \/ ReadDir \/ ReadDirFails \/ PassOver
  \/ \E f \in unread : ReadFile(f)

\* The fan-in goroutine hands the snapshot to the loop.
Receive ==
  /\ chan # {}
  /\ received' \in chan
  /\ chan' = {}
  /\ UNCHANGED <<dirVars, readFaults, spc, scanAttempt, before, unread, pass,
                 missed, kept, haveSnapshot, previous, synced, consistent,
                 carried>>

FileNext ==
  Swap \/ NamesFollow \/ (\E f \in Files : EditFile(f)) \/ Scan \/ Receive

FileSpec == FileInit /\ [][FileNext]_fileVars
-----------------------------------------------------------------------------
(* What must hold.                                                         *)

Snapshots == [Files -> 0..(MaxDirChanges + 1)]

DirTypeOK ==
  /\ linked \in BOOLEAN
  /\ gen \in 1..(MaxDirChanges + 1)
  /\ content \in Snapshots
  /\ visible \subseteq Files
  /\ readFaults \in 0..MaxReadFaults

ScanTypeOK ==
  /\ spc \in {"idle", "readlink", "readdir", "files"}
  /\ scanAttempt \in 0..MaxScanAttempts
  /\ before \in 0..(MaxDirChanges + 1)
  /\ unread \subseteq Files /\ missed \subseteq Files
  /\ pass \in Snapshots
  /\ kept \in [parsed : Snapshots, unreadable : SUBSET Files]
  /\ haveSnapshot \in BOOLEAN

SendTypeOK ==
  /\ previous \in Snapshots /\ received \in Snapshots
  /\ chan \subseteq Snapshots /\ Cardinality(chan) <= 1
  /\ synced \in BOOLEAN /\ consistent \in BOOLEAN
  /\ carried \subseteq Files

FileTypeOK == DirTypeOK /\ ScanTypeOK /\ SendTypeOK

\* A snapshot delivered as consistent mixes no two generations of the volume:
\* the files it was read from all belong to one (scan's recheck of ..data).
Untorn ==
  linked /\ consistent =>
    \A f, g \in Files \ carried :
      previous[f] # 0 /\ previous[g] # 0 => previous[f] = previous[g]

\* A value that was delivered is never taken back while its file exists,
\* whatever calls fail: not by an unreadable file, nor by an unreadable
\* directory (scan's and send's fallbacks).
NeverWiped ==
  [][\A f \in Lasting : previous[f] # 0 => previous'[f] # 0]_fileVars

\* When the directory is left alone and its calls succeed, the loop ends up
\* with what it holds: a mixture, or a value carried forward, is corrected by
\* a later scan.
DirectoryArrives ==
  <>[](received = [f \in Files |-> IF f \in visible THEN content[f] ELSE 0])
=============================================================================
