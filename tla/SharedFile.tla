----------------------------- MODULE SharedFile -----------------------------
(***************************************************************************)
(* What the file system does for a file that several processes publish by  *)
(* writing "<name>.json.tmp" and renaming it over "<name>.json": the       *)
(* scheme of callspread/config.py save() and of runtime.py _write_state(). *)
(* Both use ONE temporary name for all processes, so the model keeps apart *)
(* the two names and the open descriptors, which follow the inode and not  *)
(* the name.  A file is a record                                           *)
(*    live   what "<name>.json" holds                                      *)
(*    tmp    what "<name>.json.tmp" holds                                  *)
(*    fd     for each process, what its open descriptor points at now:     *)
(*           "none", "tmp", "live" (it was opened as tmp and has been       *)
(*           renamed since) or "gone" (and has been renamed over).          *)
(* A payload is smaller than the 8 KiB text buffer, so it reaches the      *)
(* inode in one write, when the `with` block closes the file.              *)
(***************************************************************************)
CONSTANTS Absent,  \* no such file
          Empty,   \* opened for writing, nothing flushed yet
          Torn     \* a payload flushed over the remains of another one

ASSUME FileMarksAreDistinct ==
    Absent # Empty /\ Absent # Torn /\ Empty # Torn

\* json.load raises JSONDecodeError on these.
Broken == {Empty, Torn}

Descriptor == {"none", "tmp", "live", "gone"}

FileType(P, V) ==
    [live : V \cup Broken \cup {Absent},
     tmp  : V \cup Broken \cup {Absent},
     fd   : [P -> Descriptor]]

NewFile(P, content) ==
    [live |-> content, tmp |-> Absent, fd |-> [p \in P |-> "none"]]

\* tmp.open("w"): creates or truncates the inode behind the temporary name.
OpenTmp(f, p) == [f EXCEPT !.tmp = Empty, !.fd[p] = "tmp"]

\* open(path, "wb") on the published name, as shutil.copyfile does.
OpenLive(f, p) == [f EXCEPT !.live = Empty, !.fd[p] = "live"]

\* Content after v is flushed at offset 0 over old: a longer remainder of
\* another payload survives behind a shorter one.
Flushed(old, v) == IF old \in {Empty, v} THEN {v} ELSE {v, Torn}

\* The files that p's flush of v and close may leave.
FlushClose(f, p, v) ==
    LET closed == [f.fd EXCEPT ![p] = "none"]
    IN  {g \in {[live |-> f.live, tmp |-> c, fd |-> closed]
                    : c \in Flushed(f.tmp, v)} : f.fd[p] = "tmp"}
        \cup
        {g \in {[live |-> c, tmp |-> f.tmp, fd |-> closed]
                    : c \in Flushed(f.live, v)} : f.fd[p] = "live"}
        \cup
        {g \in {[f EXCEPT !.fd = closed]} : f.fd[p] = "gone"}

\* tmp.replace(path), when the temporary name exists.
Moved(d) == CASE d = "tmp" -> "live" [] d = "live" -> "gone" [] OTHER -> d

Replaced(f) ==
    [live |-> f.tmp, tmp |-> Absent, fd |-> [p \in DOMAIN f.fd |-> Moved(f.fd[p])]]

\* The process dies: its buffer is lost, its descriptor closed.
Killed(f, p) == [f EXCEPT !.fd[p] = "none"]
=============================================================================
