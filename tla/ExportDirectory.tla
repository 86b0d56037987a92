-------------------------- MODULE ExportDirectory --------------------------
(***************************************************************************)
(* ReplayExport.write_new_directory (input_simulator/replay_export.py):    *)
(* writers given the same path create the directory, write and read back   *)
(* their files one by one, then the manifest, and publish it by a link of  *)
(* its own name.  A writer may be killed between any two system calls, and *)
(* a write may leave less than it was given.  A reader is anybody who      *)
(* finds manifest.json.  The loss of directory entries in a power failure  *)
(* is not modelled: nothing syncs the directory itself.                    *)
(***************************************************************************)
EXTENDS Naturals, FiniteSets

CONSTANTS
  Writers,  \* processes exporting to one path
  Files,    \* 1 .. files of an export
  Absent

ASSUME ExportDirectoryAssumption ==
  /\ IsFiniteSet(Files) /\ Files = 1 .. Cardinality(Files)
  /\ Absent \notin Writers

VARIABLES
  directory, \* does the path exist
  disk,      \* [Files -> [by, whole]], or Absent
  pending,   \* manifest.pending.json: [by, whole], or Absent
  manifest,  \* manifest.json, a link to what pending was
  writer     \* [Writers -> [at, n]]: where it is, and the files read back

directoryVars == <<directory, disk, pending, manifest, writer>>

DirectoryInit ==
  /\ directory = FALSE /\ disk = [f \in Files |-> Absent] /\ pending = Absent /\ manifest = Absent
  /\ writer = [w \in Writers |-> [at |-> "start", n |-> 0]]

Goes(w, at, n) == writer' = [writer EXCEPT ![w] = [at |-> at, n |-> n]]
Fails(w) == Goes(w, "failed", writer[w].n)
Content(w) == {[by |-> w, whole |-> b] : b \in BOOLEAN}

Mkdir(w) ==
  /\ writer[w].at = "start" /\ UNCHANGED <<disk, pending, manifest>>
  /\ IF ~directory THEN directory' = TRUE /\ Goes(w, "file", 0)
     ELSE Fails(w) /\ UNCHANGED directory

\* open("xb"), write and fsync of the next file.
WriteFile(w) ==
  LET f == writer[w].n + 1
  IN /\ writer[w].at = "file" /\ f \in Files /\ UNCHANGED <<directory, pending, manifest>>
     /\ IF disk[f] # Absent THEN Fails(w) /\ UNCHANGED disk
        ELSE /\ \E c \in Content(w) : disk' = [disk EXCEPT ![f] = c]
             /\ Goes(w, "readback", writer[w].n)

\* Fault: what was written is not read back.
ReadbackAny(c, w) == c # Absent
Readback(c, w) == c = [by |-> w, whole |-> TRUE]
ReadFile(w) ==
  LET f == writer[w].n + 1
  IN /\ writer[w].at = "readback" /\ UNCHANGED <<directory, disk, pending, manifest>>
     /\ IF Readback(disk[f], w) THEN Goes(w, "file", f) ELSE Fails(w)

WritePending(w) ==
  /\ writer[w].at = "file" /\ writer[w].n = Cardinality(Files) /\ UNCHANGED <<directory, disk, manifest>>
  /\ IF pending # Absent THEN Fails(w) /\ UNCHANGED pending
     ELSE /\ \E c \in Content(w) : pending' = c
          /\ Goes(w, "pending", writer[w].n)

ReadPending(w) ==
  /\ writer[w].at = "pending" /\ UNCHANGED <<directory, disk, pending, manifest>>
  /\ IF Readback(pending, w) THEN Goes(w, "link", writer[w].n) ELSE Fails(w)

Publish(w) ==
  /\ writer[w].at = "link" /\ UNCHANGED <<directory, disk, pending>>
  /\ IF manifest # Absent THEN Fails(w) /\ UNCHANGED manifest
     ELSE manifest' = pending /\ Goes(w, "done", writer[w].n)

Killed(w) ==
  /\ writer[w].at \notin {"done", "failed", "killed"} /\ Goes(w, "killed", writer[w].n)
  /\ UNCHANGED <<directory, disk, pending, manifest>>

WriterStep(w) ==
  \/ Mkdir(w) \/ WriteFile(w) \/ ReadFile(w) \/ WritePending(w) \/ ReadPending(w) \/ Publish(w)
DirectoryNext == \E w \in Writers : WriterStep(w) \/ Killed(w)

DirectorySpec == DirectoryInit /\ [][DirectoryNext]_directoryVars

----------------------------------------------------------------------------
(* Properties                                                              *)

\* A manifest stands only over the complete files of the writer it speaks
\* for, whoever else tried the path and wherever they were killed.
PublishedIsWhole ==
  manifest # Absent =>
    /\ manifest.whole
    /\ \A f \in Files : disk[f] = manifest
=============================================================================
