---------------------------- MODULE Publication ----------------------------
(***************************************************************************)
(* What several runs of `asconfig convert' and `generate' promise together *)
(* to the users of the files and pipes they share.  A run hears its source *)
(* at one moment, opens its output once, when it has something to put      *)
(* there, and puts it there whole, at one moment; or it fails, and then    *)
(* may have spoilt what it had opened and nothing else.  What it puts      *)
(* there is a conversion of what it heard, whatever became of the source   *)
(* since.  Nothing is said of the checks, or of the order they come in.    *)
(***************************************************************************)
EXTENDS Conversion

CONSTANTS
    Proc, Upstream, NoProc,     \* the runs, and whose pipe is whose stdin
    File, Dirs,                 \* file names, and names of directories
    Stdout,
    Absent, Empty, Torn         \* what a file may be beside a text

VARIABLES
    files,      \* what is in each file
    pipes,      \* what each run has written to its standard output
    cmd,        \* the command line of each run
    heard,      \* the text a run works on
    handle,     \* the output a run has open
    fate        \* whether a run is working, or how it ended

vars == <<files, pipes, cmd, heard, handle, fate>>

Users(node) == node \in Doc => node.by = "user"

Init ==
    /\ \A f \in File : Users(files[f])
    /\ \A p \in Proc : Users(cmd[p].stdin)
    /\ pipes = [p \in Proc |-> Empty]
    /\ heard = [p \in Proc |-> Nil]
    /\ handle = [p \in Proc |-> Nil]
    /\ fate = [p \in Proc |-> "working"]

\* The version that is recorded: the one asked for, or else the one the text names.
Recorded(i, doc) ==
    IF i.ver # Unset THEN i.ver
    ELSE IF MetaVersion(doc) = NoVersion THEN Blank
    ELSE MetaVersion(doc)

\* The same configuration in the other format and, unless forced, valid for the
\* version it names.
IsConversion(i, doc, text) ==
    /\ text.body = doc.body /\ doc.body # Unparsable
    /\ text.fmt # doc.fmt \/ doc.body = EmptyBody
    /\ text.ver = Recorded(i, doc)
    /\ text.by = IF i.force THEN "forced" ELSE "checked"
    /\ ~i.force => text.ver \in Supported /\ text.body \in ValidFor[text.ver]

\* What a run may put into its output.  A generated text has no version metadata.
Result(p, text) ==
    \/ /\ cmd[p].cmd = "convert" /\ heard[p] # Nil
       /\ IsConversion(cmd[p], heard[p], text)
    \/ /\ cmd[p].cmd = "generate"
       /\ text.by = "generated" /\ text.ver = NoVersion /\ text.body \in Body

\* The output asked for; without --format, a directory is not asked for the source.
IsTarget(i, path) ==
    IF i.out \in Dirs THEN i.format = Unset => path # Source(i) ELSE path = i.out

There(p) ==
    IF Source(cmd[p]) # Stdin THEN files[Source(cmd[p])]
    ELSE IF Upstream[p] = NoProc THEN cmd[p].stdin
    ELSE pipes[Upstream[p]]

\* A pipe is heard to its end.  A part of a text may be any text; no bytes name no
\* version.
Hear(p) ==
    /\ fate[p] = "working" /\ heard[p] = Nil /\ handle[p] = Nil
    /\ Source(cmd[p]) = Stdin /\ Upstream[p] # NoProc => fate[Upstream[p]] # "working"
    /\ There(p) # Absent
    /\ \E doc \in Doc :
          /\ IF There(p) \in Doc THEN doc = There(p) ELSE doc.by = "user"
          /\ There(p) = Empty => doc.ver = NoVersion
          /\ heard' = [heard EXCEPT ![p] = doc]
    /\ UNCHANGED <<files, pipes, cmd, handle, fate>>

\* Only a run that has something to put there opens its output.
Open(p) ==
    /\ fate[p] = "working" /\ handle[p] = Nil
    /\ \E text \in Doc : Result(p, text)
    /\ \E path \in File \cup {Stdout} :
          /\ IsTarget(cmd[p], path)
          /\ handle' = [handle EXCEPT ![p] = path]
          /\ files' = IF path = Stdout THEN files ELSE [files EXCEPT ![path] = Empty]
    /\ UNCHANGED <<pipes, cmd, heard, fate>>

End(p, how) ==
    /\ fate' = [fate EXCEPT ![p] = how]
    /\ handle' = [handle EXCEPT ![p] = Nil]
    /\ UNCHANGED <<cmd, heard>>

Put(p, node) ==
    \/ /\ handle[p] = Stdout
       /\ pipes' = [pipes EXCEPT ![p] = node]
       /\ UNCHANGED files
    \/ /\ handle[p] \in File
       /\ files' = [files EXCEPT ![handle[p]] = node]
       /\ UNCHANGED pipes

\* Somebody has changed the file since it was opened.
Disturbed(p) == handle[p] \in File /\ files[handle[p]] # Empty

\* A run that is killed may have written everything.
Publish(p) ==
    /\ fate[p] = "working"
    /\ \E text \in Doc : Result(p, text) /\ Put(p, text)
    /\ handle[p] \in File => files[handle[p]] # Absent
    /\ End(p, "succeeded") \/ End(p, "failed")

\* Only who is disturbed succeeds without having published.
Spoil(p) ==
    /\ fate[p] = "working"
    /\ Put(p, Torn)
    /\ handle[p] \in File => files[handle[p]] # Absent
    /\ End(p, "failed") \/ (Disturbed(p) /\ End(p, "succeeded"))

\* A file that has been removed stays removed.
Quit(p) ==
    /\ fate[p] = "working"
    /\ \/ End(p, "failed")
       \/ handle[p] \in File /\ files[handle[p]] = Absent /\ End(p, "succeeded")
    /\ UNCHANGED <<files, pipes>>

\* Another program changes a file.
Edit(f) ==
    /\ Users(files'[f])
    /\ files' = [files EXCEPT ![f] = files'[f]]
    /\ UNCHANGED <<pipes, cmd, heard, handle, fate>>

Next ==
    \/ \E p \in Proc : Hear(p) \/ Open(p) \/ Publish(p) \/ Spoil(p) \/ Quit(p)
    \/ \E f \in File : Edit(f)

Spec == Init /\ [][Next]_vars
=============================================================================
