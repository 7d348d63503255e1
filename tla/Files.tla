-------------------------------- MODULE Files --------------------------------
(* The part of the file system the program uses to replace a file: a         *)
(* temporary file is written (ioutil.WriteFile: open with O_TRUNC, then      *)
(* write) and renamed over the old one.  A writer keeps the file it has      *)
(* opened when that file gets another name or loses its name.                *)
EXTENDS Naturals

CONSTANTS Threads,  \* goroutines that write files
          Names,    \* file names
          None,     \* no file
          NoValue   \* the content of a file that is not whole

VARIABLES
  file,  \* the file of each name: absent, partly written, or a whole value
  open   \* the file each thread writes, by the name it has now

fileVars == <<file, open>>

Absent == [is |-> "absent", val |-> NoValue]
Partial == [is |-> "partial", val |-> NoValue]
Unlinked == "unlinked"

FilesInit ==
  /\ file = [n \in Names |-> Absent]
  /\ open = [t \in Threads |-> None]

Exists(name) == file[name].is # "absent"
Whole(name) == file[name].is = "whole"
Content(name) == file[name].val

\* The file is created, or the one of that name is truncated.
Create(t, name) ==
  /\ file' = [file EXCEPT ![name] = Partial]
  /\ open' = [open EXCEPT ![t] = name]

\* The bytes are written from the start.  What another writer of the same file
\* has written in the meantime is covered, or its longer tail stays.
Fill(t, v) ==
  /\ \/ /\ open[t] = Unlinked
        /\ UNCHANGED file
     \/ /\ open[t] # Unlinked
        /\ file' = [file EXCEPT ![open[t]] = [is |-> "whole", val |-> v]]
     \/ /\ open[t] # Unlinked /\ Whole(open[t])
        /\ file' = [file EXCEPT ![open[t]] = Partial]
  /\ open' = [open EXCEPT ![t] = None]

\* The disk is full, or the write fails: what is there stays.
FillFails(t) ==
  /\ open' = [open EXCEPT ![t] = None]
  /\ UNCHANGED file

\* The old file of that name loses its name.
Move(from, to) ==
  /\ Exists(from)
  /\ file' = [file EXCEPT ![to] = file[from], ![from] = Absent]
  /\ open' = [t \in Threads |-> IF open[t] = from THEN to
                                ELSE IF open[t] = to THEN Unlinked ELSE open[t]]

Remove(name) ==
  /\ file' = [file EXCEPT ![name] = Absent]
  /\ open' = [t \in Threads |-> IF open[t] = name THEN Unlinked ELSE open[t]]
=============================================================================
