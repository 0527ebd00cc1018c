------------------------------ MODULE ScriptVm ------------------------------
(***************************************************************************)
(* A virtual machine (vm/vm.go) with the goroutines that call it and the   *)
(* one that watches its scripts (lua/loader.go).  The machine's goroutine  *)
(* selects between the unbuffered channels CallChan and update.  A caller  *)
(* waits for its turn and then for its result.  The watcher reads a file   *)
(* when it hears of a change, offers the text to the machine for a second, *)
(* and else sends on done, which nobody but itself receives.               *)
(*                                                                         *)
(* A text is its version and whether it is good.  One that does not        *)
(* compile, or compiles and fails when it is run, leaves Lua's error       *)
(* message on the stack of the machine: only the branch of a call clears   *)
(* the stack, so the next call finds the message in front of its results.  *)
(***************************************************************************)
EXTENDS Integers, Sequences, FiniteSets

CONSTANTS Callers,   (* goroutines that call: rooms, the poller, the game    *)
          Files,     (* scripts of the game's directory                      *)
          Present,   (* those that are there when the machine is started     *)
          NoFile, NoCaller,
          MaxEdits   (* bounds how often the scripts are changed             *)

ASSUME FilesAssumption  == Present \subseteq Files /\ NoFile \notin Files
ASSUME CallerAssumption == NoCaller \notin Callers
ASSUME EditsAssumption  == MaxEdits \in Nat

VARIABLES
  disk,    (* file -> its text                                              *)
  edits,   (* changes of the scripts so far                                 *)
  events,  (* what the watcher has still to hear, in order                  *)
  scripts, (* LuaBucket.scripts: the files it knows                         *)
  watch,   (* the watcher's goroutine: its step, with a file and its text   *)
  quit,    (* Done's goroutine waits to send on done                        *)
  closed,  (* the fsnotify watcher is closed                                *)
  vm,      (* the machine: "select", "call", "update" or "dead"             *)
  job,     (* what it is busy with: the caller, or the text                 *)
  stale,   (* is an error message left on the stack?                        *)
  loaded,  (* file -> newest version calls run definitions of               *)
  caller,  (* caller -> "idle", "send" or "wait"                            *)
  unspent  (* bad texts the machine has run so far, less the calls so far   *)
           (* whose results were not their own                              *)

fileVars  == <<disk, edits>>
watchVars == <<scripts, watch, closed>>
vmVars    == <<vm, job, stale, loaded, unspent>>
svVars == <<fileVars, events, watchVars, quit, vmVars, caller>>

Texts == [file : Files, ver : 0..MaxEdits, kind : {"none", "empty", "bad", "good"}]
NoText == [file |-> NoFile, ver |-> 0, kind |-> "none"]
NoJob  == [caller |-> NoCaller, text |-> NoText]
Watching == [at |-> "select", text |-> NoText]

-----------------------------------------------------------------------------
(* The files, and what the system tells of them.  It may tell of two equal *)
(* changes at once when the first has not been heard yet.                  *)
Hear(f, op) ==
  LET e == [file |-> f, op |-> op] IN
  \/ events' = Append(events, e)
  \/ events # <<>> /\ events[Len(events)] = e /\ UNCHANGED events

Change(f, kind) == /\ edits < MaxEdits
                   /\ edits' = edits + 1
                   /\ disk' = [disk EXCEPT ![f].ver = edits + 1, ![f].kind = kind]

(* An editor writes a file in place: it empties it and writes the text, or *)
(* a bad part of it and then the rest.                                     *)
Truncate(f) ==
  /\ Change(f, "empty")
  /\ Hear(f, IF disk[f].kind = "none" THEN "create" ELSE "write")
  /\ UNCHANGED <<watchVars, quit, vmVars, caller>>
Write(f, kind) ==
  /\ disk[f].kind = "empty" \/ (disk[f].kind = "bad" /\ kind = "good")
  /\ disk' = [disk EXCEPT ![f].kind = kind]
  /\ Hear(f, "write")
  /\ UNCHANGED <<edits, watchVars, quit, vmVars, caller>>

(* It moves a new file over the old one, or the file is removed.           *)
Replace(f, kind) ==
  /\ Change(f, kind)
  /\ Hear(f, "create")
  /\ UNCHANGED <<watchVars, quit, vmVars, caller>>
Delete(f) ==
  /\ disk[f].kind # "none" /\ Change(f, "none")
  /\ UNCHANGED <<events, watchVars, quit, vmVars, caller>>

-----------------------------------------------------------------------------
(* Watch: which changes make it reload a file.  MUTANT: a file that was    *)
(* moved over a known one is not reloaded.                                 *)
ReloadsWritten(e) == e.op = "write" /\ e.file \in scripts
Reloads(e)        == e.file \in scripts \/ e.op = "create"

(* The select hears of a change, also when the watcher has just been       *)
(* closed.                                                                 *)
HearEvent ==
  /\ watch = Watching /\ events # <<>>
  /\ events' = Tail(events)
  /\ watch' = IF Reloads(Head(events))
              THEN [at |-> "hot", text |-> [NoText EXCEPT !.file = Head(events).file]]
              ELSE Watching
  /\ UNCHANGED <<fileVars, scripts, closed, quit, vmVars, caller>>

(* hot reads the file; one that has gone meanwhile is left alone.          *)
ReadFile ==
  /\ watch.at = "hot"
  /\ LET t == disk[watch.text.file] IN
     IF t.kind = "none" THEN watch' = Watching /\ UNCHANGED scripts
     ELSE /\ scripts' = scripts \cup {t.file}
          /\ watch' = [at |-> "offer", text |-> t]
  /\ UNCHANGED <<fileVars, events, closed, quit, vmVars, caller>>

(* A second has passed: the machine is busy with a call or dead all along, *)
(* for one that is waiting takes the text at once.  The watcher now sends  *)
(* to itself, with the lock of the bucket in its hands.                    *)
Tick ==
  /\ watch.at = "offer" /\ vm # "select"
  /\ watch' = [watch EXCEPT !.at = "stuck"]
  /\ UNCHANGED <<fileVars, events, scripts, closed, quit, vmVars, caller>>

(* The select receives from Done's goroutine and closes the watcher; when  *)
(* the channels of a closed watcher are closed, Watch returns.             *)
HearDone ==
  /\ watch = Watching /\ quit
  /\ quit' = FALSE /\ closed' = TRUE
  /\ UNCHANGED <<fileVars, events, scripts, watch, vmVars, caller>>
WatchEnds ==
  /\ watch = Watching /\ closed
  /\ watch' = [Watching EXCEPT !.at = "over"]
  /\ UNCHANGED <<fileVars, events, scripts, closed, quit, vmVars, caller>>

-----------------------------------------------------------------------------
(* A caller sends to CallChan: a room's message, a timer, a disconnect.    *)
Call(c) ==
  /\ caller[c] = "idle"
  /\ caller' = [caller EXCEPT ![c] = "send"]
  /\ UNCHANGED <<fileVars, events, watchVars, quit, vmVars>>

(* Run: the select takes a call or an update.                              *)
TakeCall(c) ==
  /\ vm = "select" /\ caller[c] = "send"
  /\ vm' = "call" /\ job' = [NoJob EXCEPT !.caller = c]
  /\ caller' = [caller EXCEPT ![c] = "wait"]
  /\ UNCHANGED <<fileVars, events, watchVars, quit, stale, loaded, unspent>>
TakeUpdate ==
  /\ vm = "select" /\ watch.at = "offer"
  /\ vm' = "update" /\ job' = [NoJob EXCEPT !.text = watch.text]
  /\ watch' = Watching
  /\ UNCHANGED <<fileVars, events, scripts, closed, quit, stale, loaded, caller, unspent>>

(* The results of a call are all that is on the stack; then it is cleared. *)
(* MUTANT: the stack is not cleared.                                       *)
StackKept  == stale
StackAfter == FALSE

(* Every call is answered, into the buffer of its own channel.  MUTANT: a  *)
(* call that failed is only logged.                                        *)
ReplyResults(c, ok) == caller' = IF ok THEN [caller EXCEPT ![c] = "idle"] ELSE caller
Reply(c, ok)        == caller' = [caller EXCEPT ![c] = "idle"]

EndCall ==
  /\ vm = "call"
  /\ \/ /\ Reply(job.caller, TRUE)
        /\ unspent' = IF stale THEN unspent - 1 ELSE unspent
     \/ Reply(job.caller, FALSE) /\ UNCHANGED unspent
  /\ vm' = "select" /\ job' = NoJob /\ stale' = StackAfter
  /\ UNCHANGED <<fileVars, events, watchVars, quit, loaded>>

(* The branch of an update: a good text is loaded, an empty one does       *)
(* nothing.  Of a bad one the message stays on the stack, and what it      *)
(* defined before it failed, if it was run at all, is loaded.              *)
EndUpdate ==
  /\ vm = "update"
  /\ \/ /\ job.text.kind \in {"good", "bad"}
        /\ loaded' = [loaded EXCEPT ![job.text.file] = job.text.ver]
     \/ job.text.kind # "good" /\ UNCHANGED loaded
  /\ stale' = (stale \/ job.text.kind = "bad")
  /\ unspent' = IF job.text.kind = "bad" THEN unspent + 1 ELSE unspent
  /\ vm' = "select" /\ job' = NoJob
  /\ UNCHANGED <<fileVars, events, watchVars, quit, caller>>

(* A panic of Go's code around a call, such as pushArgs given nil: the     *)
(* machine is closed, its caller gets no answer, Done starts a goroutine.  *)
Panic ==
  /\ vm = "call"
  /\ vm' = "dead" /\ job' = NoJob /\ quit' = TRUE
  /\ UNCHANGED <<fileVars, events, watchVars, stale, loaded, unspent, caller>>

-----------------------------------------------------------------------------
(* NewVM: Load reads the scripts, which are run, then Watch is started.    *)
SVInit ==
  /\ disk = [f \in Files |-> [file |-> f, ver |-> 0,
                              kind |-> IF f \in Present THEN "good" ELSE "none"]]
  /\ edits = 0 /\ events = <<>>
  /\ scripts = Present /\ watch = Watching /\ quit = FALSE /\ closed = FALSE
  /\ vm = "select" /\ job = NoJob /\ stale = FALSE
  /\ loaded = [f \in Files |-> 0]
  /\ caller = [c \in Callers |-> "idle"] /\ unspent = 0

Edit == \E f \in Files : \/ Truncate(f) \/ Delete(f)
                         \/ \E kind \in {"bad", "good"} : Write(f, kind) \/ Replace(f, kind)
Watch == HearEvent \/ ReadFile \/ Tick \/ HearDone \/ WatchEnds
Run   == EndCall \/ EndUpdate \/ Panic

SVNext == \/ Edit \/ Watch \/ Run \/ TakeUpdate
          \/ \E c \in Callers : Call(c) \/ TakeCall(c)

SVSpec == SVInit /\ [][SVNext]_svVars

(* Goroutines run and calls return.  Go's select picks at random among the *)
(* channels that are ready, and a channel serves its senders in turn: who  *)
(* could be taken again and again is taken.  Nobody has to call or edit.   *)
SVFairSpec == /\ SVSpec
              /\ WF_svVars(Watch) /\ WF_svVars(Run)
              /\ SF_svVars(TakeUpdate)
              /\ \A c \in Callers : SF_svVars(TakeCall(c))

-----------------------------------------------------------------------------
(* Properties.                                                             *)

SVTypeOK ==
  /\ \A f \in Files : disk[f] \in Texts /\ disk[f].file = f /\ disk[f].ver <= edits
  /\ events \in Seq([file : Files, op : {"create", "write"}])
  /\ scripts \subseteq Files
  /\ watch.at \in {"select", "hot", "offer", "stuck", "over"}
  /\ watch.at \in {"offer", "stuck"} => watch.text \in Texts /\ watch.text.kind # "none"
  /\ vm \in {"select", "call", "update", "dead"}
  /\ vm = "call" => caller[job.caller] = "wait"
  /\ vm = "update" => job.text \in Texts
  /\ caller \in [Callers -> {"idle", "send", "wait"}] /\ unspent \in Int
  /\ \A f \in Files : loaded[f] <= edits

(* A bad text spoils one call at most: the next call returns Lua's message *)
(* in front of its results, the one after is well again.                   *)
SpoilsOneCall == unspent >= IF stale THEN 1 ELSE 0

(* Who waits for a result is the one whose call runs, unless the machine   *)
(* has died: the two channels of a call are never crossed.                 *)
OneAtWork ==
  vm # "dead" => {c \in Callers : caller[c] = "wait"} =
                   IF vm = "call" THEN {job.caller} ELSE {}

(* Updates reach the machine in order: what calls run is no newer than the *)
(* text the machine is at, that no newer than the one the watcher offers,  *)
(* and that no newer than the file.                                        *)
Loading(f)  == vm = "update" /\ job.text.file = f
Offering(f) == watch.at \in {"offer", "stuck"} /\ watch.text.file = f
InOrder ==
  \A f \in Files :
    /\ loaded[f] <= disk[f].ver
    /\ Loading(f) => loaded[f] <= job.text.ver /\ job.text.ver <= disk[f].ver
    /\ Offering(f) => loaded[f] <= watch.text.ver /\ watch.text.ver <= disk[f].ver
    /\ Loading(f) /\ Offering(f) => job.text.ver <= watch.text.ver

VmInv == SVTypeOK /\ SpoilsOneCall /\ OneAtWork /\ InOrder

(* No update puts an older text in the place of a newer one, although a    *)
(* second text is read while the machine is at the first (loader.go:131).  *)
NoOlderScript == [][\A f \in Files : loaded'[f] >= loaded[f]]_svVars

(* Every call is answered as long as the machine lives, whatever is        *)
(* edited, fails to compile or goes wrong in a call; and when it dies, the *)
(* watcher ends or is caught in its own send.                              *)
VmAnswers ==
  /\ \A c \in Callers : caller[c] = "send" ~> (caller[c] = "idle" \/ vm = "dead")
  /\ vm = "dead" ~> watch.at \in {"over", "stuck"}

(* A script that has been saved, in place or by a new file, and is right,  *)
(* is what calls run in the end, although the watcher may read a file in   *)
(* the middle of a save, hear of two changes at once or of one too late.   *)
(* It takes a machine that takes the update within its second.             *)
LastSaveLoaded ==
  \A f \in Files :
    disk[f].kind = "good" ~>
      \/ loaded[f] = disk[f].ver \/ disk[f].kind # "good"
      \/ vm = "dead" \/ watch.at = "stuck"
=============================================================================
