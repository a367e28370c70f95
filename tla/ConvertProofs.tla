---------------------------- MODULE ConvertProofs ----------------------------
(***************************************************************************)
(* Theorems about Convert, for any number of runs, any command lines and   *)
(* any file system: type correctness, and then what is said of the texts   *)
(* that unforced runs publish.                                             *)
(***************************************************************************)
EXTENDS Convert, TLAPS

\* What a run reads is a text.
LEMMA ReadingsAreDocs ==
    ASSUME NEW node, NEW doc \in Readings(node)
    PROVE  doc \in Doc
  <1>1. EmptyText(EmptyBody) \in Doc /\ EmptyText(Unparsable) \in Doc
    BY ContentsAssumption DEF EmptyText, Doc, Format
  <1> QED
    BY <1>1 DEF Readings

\* ParseFmtString and getConfFileFormat yield a format or Invalid.
LEMMA SrcFormatType ==
    ASSUME NEW i PROVE SrcFormat(i) \in Format \cup {Invalid}
  BY DEF SrcFormat, getConfFileFormat, ParseFmtString, Format

\* The version a run records is a version, or there is none.
LEMMA ResolvedVersionType ==
    ASSUME NEW i \in Invocation, NEW doc \in Doc
    PROVE  ResolvedVersion(i, doc) \in Version \cup {NoVersion}
  BY ContentsAssumption DEF ResolvedVersion, MetaVersion, Invocation, Doc

\* A conversion that meets no error yields a text.
LEMMA ConvertedType ==
    ASSUME NEW i \in Invocation, NEW doc \in Doc, ConversionError(i, doc) = Nil
    PROVE  Converted(i, doc) \in Doc
  <1>1. SrcFormat(i) \in Format
    BY SrcFormatType, ErrorAssumption DEF ConversionError, Errors, RunErrors
  <1>2. determineOutputFormat(SrcFormat(i)) \in Format
    BY <1>1 DEF determineOutputFormat, Format, YAML, AeroConfig
  <1> QED
    BY <1>2, ResolvedVersionType DEF Converted, Doc, Invocation

\* The path a run settles on is a file or its standard output.
LEMMA OutputPathType ==
    ASSUME NEW i \in Invocation, i.out # Unstatable
    PROVE  determineOutputPath(i) \in FilePath \cup {Stdout}
  <1>1. OutputExt(determineOutputFormat(SrcFormat(i))) \in Exts
    BY ConvertAssumption DEF OutputExt
  <1>2. ASSUME NEW d \in Dirs PROVE FileInDir(d, i) \in FilePath
    <2>1. CASE Source(i) = Stdin
      BY <1>1, <2>1, ConvertAssumption DEF FileInDir, FilePath
    <2>2. CASE Source(i) # Stdin
      <3>1. Source(i) \in FilePath
        BY <2>2 DEF Source, Invocation
      <3> QED
        BY <1>1, <2>2, <3>1, ConvertAssumption DEF FileInDir, FilePath
    <2> QED BY <2>1, <2>2
  <1> QED
    BY <1>2 DEF determineOutputPath, Invocation

\* What generate produces is a text, when the format of its output is one.
LEMMA GeneratedType ==
    ASSUME NEW i \in Invocation, NEW body \in Body, GeneratedFormat(i) # Invalid
    PROVE  Generated(i, body) \in Doc
  <1>1. GeneratedFormat(i) \in Format
    BY DEF GeneratedFormat, getConfFileFormat, ParseFmtString, Format
  <1> QED
    BY <1>1 DEF Generated, Doc

-----------------------------------------------------------------------------
\* Errors a run can meet are among those listed.
LEMMA ErrorTypes ==
    ASSUME NEW i, NEW doc
    PROVE  /\ PreRunError(i, doc) \in Errors \cup {Nil}
           /\ ConversionError(i, doc) \in Errors \cup {Nil}
  <1>1. PreRunError(i, doc) \in Errors \cup {Nil}
    BY DEF PreRunError, VersionFlagError, Errors, PreRunErrors
  <1>2. ValidationError(i, doc) \in Errors \cup {Nil}
    BY DEF ValidationError, Validate, Errors, RunErrors
  <1>3. ConversionError(i, doc) \in Errors \cup {Nil}
    BY <1>2 DEF ConversionError, Errors, RunErrors, PreRunErrors
  <1> QED BY <1>1, <1>3

\* The initial states are of the types.
LEMMA TypeInit == Init => TypeOK
  <1> SUFFICES ASSUME Init PROVE TypeOK OBVIOUS
  <1>1. inv \in [Proc -> Invocation]
    BY ConvertAssumption DEF Init
  <1>2. fs \in [FilePath -> Node]
    BY ConvertAssumption DEF Init
  <1>3. edits \in 0..MaxEdits
    <2>1. MaxEdits \in Nat
      BY ConvertAssumption
    <2> QED BY <2>1 DEF Init
  <1>4. /\ stdout \in [Proc -> Doc \cup {Empty, Torn}]
        /\ pc \in [Proc -> Running \cup Ended]
        /\ cfgData \in [Proc -> Doc \cup {Nil}]
        /\ out \in [Proc -> Doc \cup {Nil}]
        /\ outPath \in [Proc -> FilePath \cup {Stdout, Nil}]
        /\ err \in [Proc -> Errors \cup {Nil}]
        /\ writers \in [FilePath -> SUBSET (Proc \cup {Other})]
    BY DEF Init, Running
  <1> QED
    BY <1>1, <1>2, <1>3, <1>4 DEF TypeOK

\* A write to a file or to standard output leaves nodes in files and texts, or
\* parts of texts, in pipes.
LEMMA TypeWrite ==
    ASSUME TypeOK, NEW p \in Proc, out[p] \in Doc, outPath[p] \in FilePath \cup {Stdout},
           WriteAll(p) \/ WriteSome(p)
    PROVE  /\ fs' \in [FilePath -> Node]
           /\ stdout' \in [Proc -> Doc \cup {Empty, Torn}]
           /\ writers' \in [FilePath -> SUBSET (Proc \cup {Other})]
  <1>1. CASE outPath[p] = Stdout
    BY <1>1 DEF TypeOK, WriteAll, WriteSome, Node
  <1>2. CASE outPath[p] # Stdout
    <2>1. Overwritten(fs[outPath[p]], out[p]) \subseteq Node
      BY DEF Overwritten, Node
    <2> QED BY <1>2, <2>1 DEF TypeOK, WriteAll, WriteSome, Node
  <1> QED BY <1>1, <1>2

-----------------------------------------------------------------------------
(* A run past a step has what that step produced.                           *)

\* What is known of a run from the label it is at.
Progress ==
    \A p \in Proc :
        /\ pc[p] # "failed" => err[p] = Nil
        /\ pc[p] \in {"start", "fetch", "read"} => cfgData[p] = Nil
        /\ pc[p] \in {"check", "convert", "resolve", "panicked"} => cfgData[p] \in Doc
        /\ pc[p] \in {"start", "fetch", "read", "check", "convert"} => out[p] = Nil
        /\ pc[p] \in {"resolve", "open", "write", "done", "panicked"} => out[p] \in Doc
        /\ pc[p] \in {"start", "fetch", "read", "check", "convert", "resolve", "panicked"}
              => outPath[p] = Nil
        /\ pc[p] = "open" => outPath[p] \in FilePath
        /\ pc[p] \in {"write", "done"} => outPath[p] \in FilePath \cup {Stdout}
        /\ err[p] = "writeError" => out[p] \in Doc /\ outPath[p] \in FilePath \cup {Stdout}

Typed == TypeOK /\ Progress

\* No run has passed a step yet.
LEMMA TypedInit == Init => Typed
  BY TypeInit, ErrorAssumption DEF Typed, Init, Progress, Errors, RunErrors

\* Every step of every run sets what its label promises, and no other program's
\* step takes it away.
LEMMA TypedNext == Typed /\ [Next]_vars => Typed'
  <1> SUFFICES ASSUME Typed, [Next]_vars PROVE Typed'
    OBVIOUS
  <1> USE DEF Typed, Running, Ended, Goto, Fail
  <1>1. ASSUME NEW p \in Proc, StatSource(p) PROVE Typed'
    <2>1. TypeOK'
      BY <1>1 DEF TypeOK, StatSource, Errors, PreRunErrors
    <2>2. Progress'
      BY <1>1 DEF TypeOK, StatSource, Progress
    <2> QED BY <2>1, <2>2
  <1>2. ASSUME NEW p \in Proc, ReadSource(p) PROVE Typed'
    <2>1. PICK doc \in Readings(SourceNode(p)) : cfgData' = [cfgData EXCEPT ![p] = doc]
      BY <1>2 DEF ReadSource
    <2>2. doc \in Doc
      BY ReadingsAreDocs
    <2>3. TypeOK'
      BY <1>2, <2>1, <2>2 DEF TypeOK, ReadSource
    <2>4. Progress'
      BY <1>2, <2>1, <2>2 DEF TypeOK, ReadSource, Progress
    <2> QED BY <2>3, <2>4
  <1>3. ASSUME NEW p \in Proc, ReadSourceFails(p) PROVE Typed'
    <2>1. TypeOK'
      BY <1>3 DEF TypeOK, ReadSourceFails, Errors, PreRunErrors
    <2>2. Progress'
      BY <1>3 DEF TypeOK, ReadSourceFails, Progress
    <2> QED BY <2>1, <2>2
  <1>4. ASSUME NEW p \in Proc, CheckFlags(p) PROVE Typed'
    <2>1. PreRunError(inv[p], cfgData[p]) \in PreRunErrors \cup {Nil}
      BY DEF PreRunError, VersionFlagError, PreRunErrors
    <2>2. TypeOK'
      BY <1>4, <2>1 DEF TypeOK, CheckFlags, Errors
    <2>3. Progress'
      BY <1>4, <2>1 DEF TypeOK, CheckFlags, Progress, PreRunErrors
    <2> QED BY <2>2, <2>3
  <1>5. ASSUME NEW p \in Proc, ProcessConfig(p) PROVE Typed'
    <2>1. ASSUME NEW e \in Errors, e # "writeError", Fail(p, e), UNCHANGED out
          PROVE  Typed'
      <3>1. TypeOK'
        BY <1>5, <2>1 DEF TypeOK, ProcessConfig
      <3>2. Progress'
        BY <1>5, <2>1 DEF TypeOK, ProcessConfig, Progress
      <3> QED BY <3>1, <3>2
    <2>2. ASSUME ConversionError(inv[p], cfgData[p]) = Nil,
                 out' = [out EXCEPT ![p] = Converted(inv[p], cfgData[p])],
                 Goto(p, "resolve"), UNCHANGED err
          PROVE  Typed'
      <3>1. Converted(inv[p], cfgData[p]) \in Doc
        BY <1>5, <2>2, ConvertedType DEF ProcessConfig, TypeOK, Progress
      <3>2. TypeOK'
        BY <1>5, <2>2, <3>1 DEF TypeOK, ProcessConfig
      <3>3. Progress'
        BY <1>5, <2>2, <3>1 DEF TypeOK, ProcessConfig, Progress
      <3> QED BY <3>2, <3>3
    <2>3. ConversionError(inv[p], cfgData[p]) \in Errors \cup {Nil}
      BY ErrorTypes
    <2>4. ConversionError(inv[p], cfgData[p]) # "writeError"
      BY ErrorAssumption DEF ConversionError, ValidationError, Validate, Errors, RunErrors
    <2>5. "marshalError" \in Errors
      BY DEF Errors, RunErrors
    <2> QED BY <1>5, <2>1, <2>2, <2>3, <2>4, <2>5 DEF ProcessConfig
  <1>6. ASSUME NEW p \in Proc, ResolveOutput(p) PROVE Typed'
    <2>1. CASE inv[p].out = Unstatable
      <3>1. TypeOK'
        BY <1>6, <2>1 DEF TypeOK, ResolveOutput
      <3>2. Progress'
        BY <1>6, <2>1 DEF TypeOK, ResolveOutput, Progress
      <3> QED BY <3>1, <3>2
    <2>2. CASE inv[p].out # Unstatable
      <3>1. determineOutputPath(inv[p]) \in FilePath \cup {Stdout}
        BY <2>2, <1>6, OutputPathType DEF TypeOK
      <3>2. TypeOK'
        BY <1>6, <2>2, <3>1 DEF TypeOK, ResolveOutput
      <3>3. Progress'
        BY <1>6, <2>2, <3>1 DEF TypeOK, ResolveOutput, Progress
      <3> QED BY <3>2, <3>3
    <2> QED BY <2>1, <2>2
  <1>7. ASSUME NEW p \in Proc, OpenOutput(p) PROVE Typed'
    <2>1. TypeOK'
      BY <1>7 DEF TypeOK, OpenOutput, Node
    <2>2. Progress'
      BY <1>7 DEF TypeOK, OpenOutput, Progress
    <2> QED BY <2>1, <2>2
  <1>8. ASSUME NEW p \in Proc, OpenOutputFails(p) PROVE Typed'
    <2>1. TypeOK'
      BY <1>8 DEF TypeOK, OpenOutputFails, Errors, RunErrors
    <2>2. Progress'
      BY <1>8 DEF TypeOK, OpenOutputFails, Progress
    <2> QED BY <2>1, <2>2
  <1>9. ASSUME NEW p \in Proc, WriteOutput(p) PROVE Typed'
    <2>1. TypeOK'
      BY <1>9, TypeWrite DEF TypeOK, WriteOutput, Progress
    <2>2. Progress'
      BY <1>9 DEF TypeOK, WriteOutput, Progress
    <2> QED BY <2>1, <2>2
  <1>10. ASSUME NEW p \in Proc, WriteOutputFails(p) PROVE Typed'
    <2>1. TypeOK'
      BY <1>10, TypeWrite DEF TypeOK, WriteOutputFails, Progress, Errors, RunErrors
    <2>2. Progress'
      BY <1>10 DEF TypeOK, WriteOutputFails, Progress
    <2> QED BY <2>1, <2>2
  <1>11. ASSUME NEW p \in Proc, Kill(p) PROVE Typed'
    <2>1. TypeOK'
      <3>1. CASE pc[p] = "write"
        BY <1>11, <3>1, TypeWrite DEF TypeOK, Kill, Progress
      <3>2. CASE pc[p] # "write"
        BY <1>11, <3>2 DEF TypeOK, Kill
      <3> QED BY <3>1, <3>2
    <2>2. Progress'
      BY <1>11 DEF TypeOK, Kill, Progress
    <2> QED BY <2>1, <2>2
  <1>12. ASSUME NEW f \in EditPaths, Edit(f) PROVE Typed'
    <2>1. MaxEdits \in Nat /\ EditPaths \subseteq FilePath /\ EditNodes \subseteq Node
      BY ConvertAssumption
    <2>2. edits' \in 0..MaxEdits
      BY <1>12, <2>1 DEF Edit, TypeOK
    <2>3. TypeOK'
      BY <1>12, <2>1, <2>2 DEF TypeOK, Edit
    <2>4. Progress'
      BY <1>12 DEF Edit, Progress
    <2> QED BY <2>3, <2>4
  <1>13. CASE UNCHANGED vars
    BY <1>13 DEF vars, TypeOK, Progress
  <1>14. ASSUME NEW p \in Proc, StartGenerate(p) PROVE Typed'
    <2>1. GeneratePreRunError(inv[p]) \in PreRunErrors \cup {Nil}
      BY DEF GeneratePreRunError, PreRunErrors
    <2>2. TypeOK'
      BY <1>14, <2>1 DEF TypeOK, StartGenerate, Errors
    <2>3. Progress'
      BY <1>14, <2>1 DEF TypeOK, StartGenerate, Progress, PreRunErrors
    <2> QED BY <2>2, <2>3
  <1>15. ASSUME NEW p \in Proc, FetchFails(p) PROVE Typed'
    <2>1. PICK e \in FetchErrors \cup {"ErrInvalidFormat"} : Fail(p, e)
      BY <1>15 DEF FetchFails
    <2>2. e \in Errors /\ e # "writeError"
      BY <2>1 DEF Errors, FetchErrors, RunErrors
    <2>3. TypeOK'
      BY <1>15, <2>1, <2>2 DEF TypeOK, FetchFails
    <2>4. Progress'
      BY <1>15, <2>1, <2>2 DEF TypeOK, FetchFails, Progress
    <2> QED BY <2>3, <2>4
  <1>16. ASSUME NEW p \in Proc, FetchConfig(p) PROVE Typed'
    <2>1. PICK body \in Body : out' = [out EXCEPT ![p] = Generated(inv[p], body)]
      BY <1>16 DEF FetchConfig
    <2>2. Generated(inv[p], body) \in Doc
      BY <1>16, GeneratedType DEF FetchConfig, TypeOK
    <2>3. CASE inv[p].out \in Dirs \cup {Unstatable}
      <3>1. "openError" \in Errors
        BY DEF Errors, RunErrors
      <3>2. TypeOK'
        BY <1>16, <2>1, <2>2, <2>3, <3>1 DEF TypeOK, FetchConfig
      <3>3. Progress'
        BY <1>16, <2>1, <2>2, <2>3 DEF TypeOK, FetchConfig, Progress
      <3> QED BY <3>2, <3>3
    <2>4. CASE inv[p].out \notin Dirs \cup {Unstatable}
      <3>1. inv[p].out \in FilePath \cup {Stdout}
        BY <2>4 DEF TypeOK, Invocation
      <3>2. TypeOK'
        BY <1>16, <2>1, <2>2, <2>4, <3>1 DEF TypeOK, FetchConfig
      <3>3. Progress'
        BY <1>16, <2>1, <2>2, <2>4, <3>1 DEF TypeOK, FetchConfig, Progress
      <3> QED BY <3>2, <3>3
    <2> QED BY <2>3, <2>4
  <1> QED
    BY <1>1, <1>2, <1>3, <1>4, <1>5, <1>6, <1>7, <1>8, <1>9, <1>10, <1>11, <1>12, <1>13,
       <1>14, <1>15, <1>16
       DEF Next, Step, Finished

\* Every variable keeps its type, and each run has what its label promises.
THEOREM TypeCorrect == Spec => []TypeOK
  <1>1. Typed => TypeOK
    BY DEF Typed
  <1> QED
    BY TypedInit, TypedNext, <1>1, PTL DEF Spec

-----------------------------------------------------------------------------
(* Published configurations are valid: the texts in files and pipes, and    *)
(* those a run has read or is about to write, can be trusted.               *)

Provenance ==
    /\ \A p \in Proc : inv[p] \in Invocations[p]
    /\ \A f \in FilePath : Trustworthy(fs[f])
    /\ \A p \in Proc : /\ Trustworthy(stdout[p])
                      /\ Trustworthy(cfgData[p])
                      /\ Trustworthy(out[p])

\* Reading a trustworthy node yields a trustworthy text: a torn one is nobody's.
LEMMA ReadingsAreTrustworthy ==
    ASSUME NEW node, Trustworthy(node), NEW doc \in Readings(node)
    PROVE  Trustworthy(doc)
  BY DEF Readings, Trustworthy, EmptyText

\* Without --force a conversion succeeds only for a configuration that is valid for
\* the version it then records, and that version reads back as it is.
LEMMA ConvertedIsTrustworthy ==
    ASSUME NEW i \in Invocation, NEW doc \in Doc, ConversionError(i, doc) = Nil
    PROVE  Trustworthy(Converted(i, doc))
  <1>1. SUFFICES ASSUME ~i.force PROVE Trustworthy(Converted(i, doc))
    BY DEF Trustworthy, Converted, Invocation
  <1>2. ValidationError(i, doc) = Nil
    BY ErrorAssumption DEF ConversionError, Errors, RunErrors, PreRunErrors
  <1>3. Validate(doc.body, ResolvedVersion(i, doc)).err = Nil
    BY <1>1, <1>2 DEF ValidationError
  <1>4. /\ ResolvedVersion(i, doc) \in Supported
        /\ doc.body \in ValidFor[ResolvedVersion(i, doc)]
    BY <1>3, ErrorAssumption DEF Validate, Errors, RunErrors
  <1>5. /\ NoVersion \notin Supported /\ Blank \notin Supported /\ Garbled \notin Supported
    BY ContentsAssumption
  <1> QED
    BY <1>4, <1>5 DEF Trustworthy, Converted, MetaVersion

\* What is there at the start is the users' own, which claims nothing.
LEMMA ProvenanceInit == Init => Provenance
  <1> SUFFICES ASSUME Init PROVE Provenance OBVIOUS
  <1>1. \A f \in FilePath : Trustworthy(fs[f])
    BY ProvenanceAssumption DEF Init, Trustworthy
  <1>2. Empty \notin Doc /\ Nil \notin Doc
    BY ConvertAssumption
  <1> QED
    BY <1>1, <1>2 DEF Init, Provenance, Trustworthy

\* Only a conversion makes a text that claims to be one, and what it makes is valid.
LEMMA ProvenanceNext == Typed /\ Provenance /\ [Next]_vars => Provenance'
  <1> SUFFICES ASSUME Typed, Provenance, [Next]_vars PROVE Provenance'
    OBVIOUS
  <1>0. Empty \notin Doc /\ Torn \notin Doc /\ Absent \notin Doc
    BY ConvertAssumption
  <1>1. ASSUME UNCHANGED <<fs, stdout, inv, cfgData, out>> PROVE Provenance'
    BY <1>1 DEF Provenance, Trustworthy
  <1>2. ASSUME NEW p \in Proc, ReadSource(p) PROVE Provenance'
    <2>1. Trustworthy(SourceNode(p))
      <3>1. Trustworthy(inv[p].stdin)
        BY ProvenanceAssumption DEF Provenance, Trustworthy
      <3>2. Source(inv[p]) # Stdin => Source(inv[p]) \in FilePath
        BY DEF Typed, TypeOK, Invocation, Source
      <3>3. Upstream[p] # NoProc => Upstream[p] \in Proc
        BY ConvertAssumption
      <3> QED
        BY <3>1, <3>2, <3>3 DEF Provenance, SourceNode
    <2>2. PICK doc \in Readings(SourceNode(p)) : cfgData' = [cfgData EXCEPT ![p] = doc]
      BY <1>2 DEF ReadSource
    <2>3. Trustworthy(doc)
      BY <2>1, ReadingsAreTrustworthy
    <2>4. \A q \in Proc : Trustworthy(cfgData'[q])
      BY <2>2, <2>3 DEF Provenance, Typed, TypeOK
    <2> QED
      BY <1>2, <2>4 DEF ReadSource, Provenance, Trustworthy
  <1>3. ASSUME NEW p \in Proc, ProcessConfig(p) PROVE Provenance'
    <2>1. CASE UNCHANGED out
      BY <1>1, <1>3, <2>1 DEF ProcessConfig
    <2>2. CASE ~UNCHANGED out
      <3>1. /\ ConversionError(inv[p], cfgData[p]) = Nil
            /\ out' = [out EXCEPT ![p] = Converted(inv[p], cfgData[p])]
        BY <1>3, <2>2 DEF ProcessConfig
      <3>2. Trustworthy(Converted(inv[p], cfgData[p]))
        BY <1>3, <3>1, ConvertedIsTrustworthy DEF ProcessConfig, Typed, TypeOK, Progress
      <3>3. \A q \in Proc : Trustworthy(out'[q])
        BY <3>1, <3>2 DEF Provenance, Typed, TypeOK
      <3> QED
        BY <1>3, <3>3 DEF ProcessConfig, Provenance, Trustworthy
    <2> QED BY <2>1, <2>2
  <1>4. ASSUME NEW p \in Proc, OpenOutput(p) PROVE Provenance'
    <2>1. \A f \in FilePath : Trustworthy(fs'[f])
      BY <1>0, <1>4 DEF OpenOutput, Provenance, Typed, TypeOK, Trustworthy
    <2> QED
      BY <1>4, <2>1 DEF OpenOutput, Provenance, Trustworthy
  <1>5. ASSUME NEW p \in Proc, WriteAll(p) \/ WriteSome(p), UNCHANGED <<inv, cfgData, out>>
        PROVE  Provenance'
    <2>1. /\ \A f \in FilePath : Trustworthy(fs'[f])
          /\ \A q \in Proc : Trustworthy(stdout'[q])
      <3>1. CASE outPath[p] = Stdout
        BY <1>0, <1>5, <3>1
           DEF WriteAll, WriteSome, Provenance, Typed, TypeOK, Trustworthy
      <3>2. CASE outPath[p] # Stdout
        BY <1>0, <1>5, <3>2
           DEF WriteAll, WriteSome, Overwritten, Provenance, Typed, TypeOK, Trustworthy
      <3> QED BY <3>1, <3>2
    <2> QED
      BY <1>5, <2>1 DEF Provenance, Trustworthy
  <1>6. ASSUME NEW f \in EditPaths, Edit(f) PROVE Provenance'
    <2>1. \A g \in FilePath : Trustworthy(fs'[g])
      BY <1>6, ProvenanceAssumption DEF Edit, Provenance, Typed, TypeOK, Trustworthy
    <2> QED
      BY <1>6, <2>1 DEF Edit, Provenance, Trustworthy
  <1>10. ASSUME NEW p \in Proc, FetchConfig(p) PROVE Provenance'
    <2>1. PICK body \in Body : out' = [out EXCEPT ![p] = Generated(inv[p], body)]
      BY <1>10 DEF FetchConfig
    <2>2. Trustworthy(Generated(inv[p], body))
      BY DEF Trustworthy, Generated
    <2>3. \A q \in Proc : Trustworthy(out'[q])
      BY <2>1, <2>2 DEF Provenance, Typed, TypeOK
    <2> QED
      BY <1>10, <2>3 DEF FetchConfig, Provenance, Trustworthy
  <1>7. ASSUME NEW p \in Proc, Step(p) PROVE Provenance'
    <2>11. CASE StartGenerate(p) BY <1>1, <2>11 DEF StartGenerate
    <2>12. CASE FetchFails(p) BY <1>1, <2>12 DEF FetchFails
    <2>13. CASE FetchConfig(p) BY <1>10, <2>13
    <2>1. CASE StatSource(p) BY <1>1, <2>1 DEF StatSource
    <2>2. CASE ReadSource(p) BY <1>2, <2>2
    <2>3. CASE ReadSourceFails(p) BY <1>1, <2>3 DEF ReadSourceFails
    <2>4. CASE CheckFlags(p) BY <1>1, <2>4 DEF CheckFlags
    <2>5. CASE ProcessConfig(p) BY <1>3, <2>5
    <2>6. CASE ResolveOutput(p) BY <1>1, <2>6 DEF ResolveOutput
    <2>7. CASE OpenOutput(p) BY <1>4, <2>7
    <2>8. CASE OpenOutputFails(p) BY <1>1, <2>8 DEF OpenOutputFails
    <2>9. CASE WriteOutput(p) BY <1>5, <2>9 DEF WriteOutput
    <2>10. CASE WriteOutputFails(p) BY <1>5, <2>10 DEF WriteOutputFails
    <2> QED
      BY <1>7, <2>1, <2>2, <2>3, <2>4, <2>5, <2>6, <2>7, <2>8, <2>9, <2>10,
         <2>11, <2>12, <2>13 DEF Step
  <1>8. ASSUME NEW p \in Proc, Kill(p) PROVE Provenance'
    <2>1. CASE pc[p] = "write"
      BY <1>5, <1>8, <2>1 DEF Kill
    <2>2. CASE pc[p] # "write"
      BY <1>1, <1>8, <2>2 DEF Kill
    <2> QED BY <2>1, <2>2
  <1>9. CASE UNCHANGED vars
    BY <1>1, <1>9 DEF vars
  <1> QED
    BY <1>6, <1>7, <1>8, <1>9 DEF Next, Finished

\* For any number of runs, edits and kills, and any file system they start on: a
\* configuration that an unforced run left in a file or a pipe is valid for the
\* version its own metadata names.
THEOREM PublishedValidity == Spec => []PublishedIsValid
  <1>1. Init => Typed /\ Provenance
    BY TypedInit, ProvenanceInit
  <1>2. Typed /\ Provenance /\ [Next]_vars => (Typed /\ Provenance)'
    BY TypedNext, ProvenanceNext
  <1>3. Typed /\ Provenance => PublishedIsValid
    BY DEF Provenance, PublishedIsValid
  <1> QED
    BY <1>1, <1>2, <1>3, PTL DEF Spec

-----------------------------------------------------------------------------
(* Converting again what an unforced run produced.                          *)

\* Such a text passes the checks of its version and its content.
LEMMA TrustworthyIsAccepted ==
    ASSUME NEW i \in Invocation, i.ver = Unset, ~i.force,
           NEW doc \in Doc, Trustworthy(doc), doc.by = "checked"
    PROVE  /\ PreRunError(i, doc) \notin VersionErrors
           /\ ConversionError(i, doc) \notin VersionErrors
  <1>1. /\ MetaVersion(doc) \in Supported
        /\ doc.body \in ValidFor[MetaVersion(doc)]
    BY DEF Trustworthy
  <1>2. MetaVersion(doc) # NoVersion
    BY <1>1, ContentsAssumption
  <1>3. Nil \notin VersionErrors
    BY ErrorAssumption DEF VersionErrors, Errors, PreRunErrors, RunErrors
  <1>4. ResolvedVersion(i, doc) = MetaVersion(doc)
    BY DEF ResolvedVersion
  <1>5. ValidationError(i, doc) = Nil
    BY <1>1, <1>4 DEF ValidationError, Validate
  <1> QED
    BY <1>2, <1>3, <1>4, <1>5
       DEF PreRunError, VersionFlagError, ConversionError, VersionErrors

\* No step of a run that reads a trustworthy text reports a version error.
LEMMA ReconvertNext ==
    Typed /\ Provenance /\ ReconvertNeedsNoFlag /\ [Next]_vars => ReconvertNeedsNoFlag'
  <1> SUFFICES ASSUME Typed, Provenance, ReconvertNeedsNoFlag, [Next]_vars,
                      NEW q \in Proc,
                      cfgData'[q] # Nil, AsksForVersion(q)', cfgData'[q].by = "checked"
               PROVE  err'[q] \notin VersionErrors
    BY DEF ReconvertNeedsNoFlag
  <1>0. inv' = inv
    BY DEF Next, Step, StatSource, ReadSource, ReadSourceFails, CheckFlags, ProcessConfig,
           ResolveOutput, OpenOutput, OpenOutputFails, WriteOutput, WriteOutputFails,
           StartGenerate, FetchFails, FetchConfig, Kill, Edit, Finished, vars
  <1>1. ASSUME UNCHANGED <<cfgData, err>> PROVE err'[q] \notin VersionErrors
    BY <1>0, <1>1 DEF ReconvertNeedsNoFlag, AsksForVersion
  <1>2. ASSUME NEW p \in Proc, NEW e \in Errors, Fail(p, e), UNCHANGED cfgData,
               p = q => e \notin VersionErrors
        PROVE  err'[q] \notin VersionErrors
    BY <1>0, <1>2 DEF Fail, Goto, ReconvertNeedsNoFlag, AsksForVersion, Typed, TypeOK
  <1>3. ASSUME NEW p \in Proc, NEW e \in Errors, Fail(p, e), UNCHANGED cfgData,
               e \in {"errTooManyArguments", "errFileNotExist", "readError", "errInvalidFormat",
                     "ErrInvalidFormat", "marshalError", "openError", "writeError"} \cup FetchErrors
        PROVE  err'[q] \notin VersionErrors
    BY <1>2, <1>3 DEF VersionErrors, FetchErrors
  <1>4. {"errTooManyArguments", "errFileNotExist", "readError", "errInvalidFormat",
         "ErrInvalidFormat", "marshalError", "openError", "writeError"} \cup FetchErrors
            \subseteq Errors
    BY DEF Errors, PreRunErrors, RunErrors
  <1>5. ASSUME NEW p \in Proc, pc[p] \in {"check", "convert"}, UNCHANGED cfgData, p = q
        PROVE  /\ PreRunError(inv[p], cfgData[p]) \notin VersionErrors
               /\ ConversionError(inv[p], cfgData[p]) \notin VersionErrors
    BY <1>0, <1>5, TrustworthyIsAccepted
       DEF Typed, TypeOK, Progress, Provenance, AsksForVersion
  <1>6. ASSUME NEW p \in Proc, Step(p) PROVE err'[q] \notin VersionErrors
    <2>1. CASE StatSource(p)
      BY <1>1, <1>3, <1>4, <2>1 DEF StatSource
    <2>2. CASE ReadSource(p)
      <3>1. err'[q] = err[q] /\ (p = q => err[q] = Nil) /\ (p # q => cfgData'[q] = cfgData[q])
        BY <2>2 DEF ReadSource, Typed, TypeOK, Progress
      <3>2. Nil \notin VersionErrors
        BY ErrorAssumption DEF VersionErrors, Errors, PreRunErrors, RunErrors
      <3> QED
        BY <1>0, <3>1, <3>2 DEF ReconvertNeedsNoFlag, AsksForVersion
    <2>3. CASE ReadSourceFails(p)
      BY <1>3, <1>4, <2>3 DEF ReadSourceFails
    <2>4. CASE CheckFlags(p)
      BY <1>1, <1>2, <1>5, <2>4, ErrorTypes DEF CheckFlags
    <2>5. CASE ProcessConfig(p)
      BY <1>1, <1>2, <1>3, <1>4, <1>5, <2>5, ErrorTypes DEF ProcessConfig
    <2>6. CASE ResolveOutput(p)
      BY <1>1, <2>6 DEF ResolveOutput
    <2>7. CASE OpenOutput(p)
      BY <1>1, <2>7 DEF OpenOutput
    <2>8. CASE OpenOutputFails(p)
      BY <1>3, <1>4, <2>8 DEF OpenOutputFails
    <2>9. CASE WriteOutput(p)
      BY <1>1, <2>9 DEF WriteOutput
    <2>10. CASE WriteOutputFails(p)
      BY <1>3, <1>4, <2>10 DEF WriteOutputFails
    <2>11. CASE StartGenerate(p)
      <3>1. GeneratePreRunError(inv[p]) \in {Nil, "errTooManyArguments", "errInvalidFormat"}
        BY DEF GeneratePreRunError
      <3> QED BY <1>1, <1>3, <1>4, <2>11, <3>1 DEF StartGenerate
    <2>12. CASE FetchFails(p)
      BY <1>3, <1>4, <2>12 DEF FetchFails
    <2>13. CASE FetchConfig(p)
      BY <1>1, <1>3, <1>4, <2>13 DEF FetchConfig
    <2> QED
      BY <1>6, <2>1, <2>2, <2>3, <2>4, <2>5, <2>6, <2>7, <2>8, <2>9, <2>10,
         <2>11, <2>12, <2>13 DEF Step
  <1>7. ASSUME NEW p \in Proc, Kill(p) PROVE err'[q] \notin VersionErrors
    BY <1>1, <1>7 DEF Kill
  <1>8. ASSUME NEW f \in EditPaths, Edit(f) PROVE err'[q] \notin VersionErrors
    BY <1>1, <1>8 DEF Edit
  <1>9. CASE UNCHANGED vars
    BY <1>1, <1>9 DEF vars
  <1> QED
    BY <1>6, <1>7, <1>8, <1>9 DEF Next, Finished

\* The promise of convert's help text, for what unforced runs produced: it converts
\* again without --aerospike-version, whoever else touches the files meanwhile.
THEOREM ReconversionAccepted == Spec => []ReconvertNeedsNoFlag
  <1>1. Init => Typed /\ Provenance /\ ReconvertNeedsNoFlag
    BY TypedInit, ProvenanceInit DEF Init, ReconvertNeedsNoFlag
  <1>2. Typed /\ Provenance /\ ReconvertNeedsNoFlag /\ [Next]_vars
            => (Typed /\ Provenance /\ ReconvertNeedsNoFlag)'
    BY TypedNext, ProvenanceNext, ReconvertNext
  <1> QED
    BY <1>1, <1>2, PTL DEF Spec

-----------------------------------------------------------------------------
(* Reading what generate produced: where it is, it has the format that the  *)
(* extension there, or its absence, stands for.                             *)

\* No run of generate is given --format.
FormatsInferred == \A q \in Proc : inv[q].cmd = "generate" => inv[q].format = Unset

AsInferred(node, ext) ==
    node \in Doc /\ node.by = "generated" =>
        /\ node.fmt = getConfFileFormat(ext, Unset)
        /\ node.body # Unparsable

\* The extension of a path a run writes to, as GeneratedFormat has it.
PathExt(path) == IF path \in FilePath THEN path.ext ELSE ""

\* What a run has converted, and what was there before, is no generated text.
GeneratedAsInferred ==
    /\ \A p \in Proc : inv[p] \in Invocations[p]
    /\ \A f \in FilePath : AsInferred(fs[f], f.ext)
    /\ \A p \in Proc : AsInferred(stdout[p], "")
    /\ \A p \in Proc : AsInferred(cfgData[p], SourceExt(inv[p]))
    /\ \A p \in Proc : outPath[p] # Nil => AsInferred(out[p], PathExt(outPath[p]))
    /\ \A p \in Proc : pc[p] = "resolve" => out[p].by # "generated"
    /\ \A p \in Proc : pc[p] = "fetch" => inv[p].cmd = "generate"

\* At the start there are only the users' texts.
LEMMA GeneratedInit == Init => GeneratedAsInferred
  <1> SUFFICES ASSUME Init PROVE GeneratedAsInferred OBVIOUS
  <1>1. \A f \in FilePath : AsInferred(fs[f], f.ext)
    BY ProvenanceAssumption DEF Init, AsInferred
  <1>2. Empty \notin Doc /\ Nil \notin Doc
    BY ConvertAssumption
  <1> QED
    BY <1>1, <1>2 DEF Init, GeneratedAsInferred, AsInferred

\* The format of a text goes with it, from generate through files and pipes.
LEMMA GeneratedNext ==
    Typed /\ FormatsInferred /\ GeneratedAsInferred /\ [Next]_vars => GeneratedAsInferred'
  <1> SUFFICES ASSUME Typed, FormatsInferred, GeneratedAsInferred, [Next]_vars
               PROVE  GeneratedAsInferred'
    OBVIOUS
  <1> DEFINE Steady == \A q \in Proc : pc'[q] = pc[q] \/ pc'[q] \notin {"resolve", "fetch"}
  <1>0. Empty \notin Doc /\ Torn \notin Doc /\ Absent \notin Doc /\ Stdout \notin FilePath
    BY ConvertAssumption
  <1>1. ASSUME UNCHANGED <<fs, stdout, inv, cfgData, out, outPath>>, Steady
        PROVE  GeneratedAsInferred'
    BY <1>1 DEF AsInferred, GeneratedAsInferred
  <1>2. ASSUME NEW p \in Proc, NEW e, Fail(p, e) PROVE Steady
    BY <1>2 DEF Fail, Goto, Typed, TypeOK
  <1>3. ASSUME NEW p \in Proc, NEW l, l \notin {"resolve", "fetch"}, Goto(p, l) PROVE Steady
    BY <1>3 DEF Goto, Typed, TypeOK
  <1>4. ASSUME NEW p \in Proc, ReadSource(p) PROVE GeneratedAsInferred'
    <2>1. AsInferred(SourceNode(p), SourceExt(inv[p]))
      <3>1. AsInferred(inv[p].stdin, "")
        BY ProvenanceAssumption DEF AsInferred, GeneratedAsInferred
      <3>2. Source(inv[p]) # Stdin => Source(inv[p]) \in FilePath
        BY DEF Typed, TypeOK, Invocation, Source
      <3>3. Upstream[p] # NoProc => Upstream[p] \in Proc
        BY ConvertAssumption
      <3> QED
        BY <3>1, <3>2, <3>3 DEF SourceNode, SourceExt, GeneratedAsInferred
    <2>2. PICK doc \in Readings(SourceNode(p)) : cfgData' = [cfgData EXCEPT ![p] = doc]
      BY <1>4 DEF ReadSource
    <2>3. AsInferred(doc, SourceExt(inv[p]))
      BY <2>1 DEF Readings, AsInferred, EmptyText
    <2>4. \A q \in Proc : AsInferred(cfgData'[q], SourceExt(inv[q]))
      BY <2>2, <2>3 DEF Typed, TypeOK, GeneratedAsInferred
    <2>5. Steady
      BY <1>3, <1>4 DEF ReadSource
    <2> QED
      BY <1>4, <2>4, <2>5 DEF ReadSource, AsInferred, GeneratedAsInferred
  <1>5. ASSUME NEW p \in Proc, ProcessConfig(p) PROVE GeneratedAsInferred'
    <2>1. CASE UNCHANGED out /\ Steady
      BY <1>1, <1>5, <2>1 DEF ProcessConfig
    <2>2. CASE /\ out' = [out EXCEPT ![p] = Converted(inv[p], cfgData[p])]
               /\ Goto(p, "resolve")
      <3>1. outPath[p] = Nil
        BY <1>5 DEF ProcessConfig, Typed, Progress
      <3>2. out'[p].by # "generated"
        BY <2>2 DEF Converted, Typed, TypeOK
      <3>3. \A q \in Proc : q # p => out'[q] = out[q] /\ pc'[q] = pc[q]
        BY <2>2 DEF Goto, Typed, TypeOK
      <3>4. pc'[p] = "resolve"
        BY <2>2 DEF Goto, Typed, TypeOK
      <3>5. UNCHANGED <<fs, stdout, inv, cfgData, outPath>>
        BY <1>5 DEF ProcessConfig
      <3>6. \A q \in Proc : outPath'[q] # Nil => AsInferred(out'[q], PathExt(outPath'[q]))
        BY <3>1, <3>2, <3>3, <3>5 DEF AsInferred, GeneratedAsInferred
      <3>7. /\ \A q \in Proc : pc'[q] = "resolve" => out'[q].by # "generated"
            /\ \A q \in Proc : pc'[q] = "fetch" => inv'[q].cmd = "generate"
        BY <3>2, <3>3, <3>4, <3>5 DEF GeneratedAsInferred
      <3>8. /\ \A f \in FilePath : AsInferred(fs'[f], f.ext)
            /\ \A q \in Proc : /\ inv'[q] \in Invocations[q]
                                /\ AsInferred(stdout'[q], "")
                                /\ AsInferred(cfgData'[q], SourceExt(inv'[q]))
        BY <3>5 DEF GeneratedAsInferred
      <3> HIDE DEF GeneratedAsInferred
      <3> QED
        BY <3>6, <3>7, <3>8 DEF GeneratedAsInferred
    <2> QED BY <1>2, <1>5, <2>1, <2>2 DEF ProcessConfig
  <1>6. ASSUME NEW p \in Proc, ResolveOutput(p) PROVE GeneratedAsInferred'
    <2>1. Steady
      BY <1>3, <1>6 DEF ResolveOutput
    <2>2. \A q \in Proc : q # p => outPath'[q] = outPath[q]
      BY <1>6 DEF ResolveOutput, Typed, TypeOK
    <2>3. AsInferred(out[p], PathExt(outPath'[p]))
      BY <1>6 DEF ResolveOutput, AsInferred, GeneratedAsInferred
    <2> QED
      BY <1>6, <2>1, <2>2, <2>3 DEF ResolveOutput, AsInferred, GeneratedAsInferred
  <1>7. ASSUME NEW p \in Proc, FetchConfig(p) PROVE GeneratedAsInferred'
    <2>1. PICK body \in Body : out' = [out EXCEPT ![p] = Generated(inv[p], body)]
      BY <1>7 DEF FetchConfig
    <2>2. inv[p].format = Unset
      BY <1>7 DEF FetchConfig, GeneratedAsInferred, FormatsInferred
    <2>3. AsInferred(Generated(inv[p], body), PathExt(inv[p].out))
      BY <2>2, ContentsAssumption DEF AsInferred, Generated, GeneratedFormat, PathExt
    <2>4. outPath[p] = Nil
      BY <1>7 DEF FetchConfig, Typed, Progress
    <2>5. /\ outPath'[p] # Nil => outPath'[p] = inv[p].out
          /\ \A q \in Proc : q # p => outPath'[q] = outPath[q]
      BY <1>7, <2>4 DEF FetchConfig, Typed, TypeOK
    <2>6. /\ out'[p] = Generated(inv[p], body)
          /\ \A q \in Proc : q # p => out'[q] = out[q]
      BY <2>1 DEF Typed, TypeOK
    <2>7. Steady
      BY <1>2, <1>3, <1>7 DEF FetchConfig
    <2>8. pc'[p] # "resolve"
      BY <1>7, <2>7 DEF FetchConfig
    <2>9. \A q \in Proc : outPath'[q] # Nil => AsInferred(out'[q], PathExt(outPath'[q]))
      BY <2>3, <2>5, <2>6 DEF GeneratedAsInferred
    <2>10. \A q \in Proc : pc'[q] = "resolve" => out'[q].by # "generated"
      BY <2>6, <2>7, <2>8 DEF GeneratedAsInferred
    <2> QED
      BY <1>7, <2>7, <2>9, <2>10 DEF FetchConfig, AsInferred, PathExt, GeneratedAsInferred
  <1>8. ASSUME NEW p \in Proc, OpenOutput(p) PROVE GeneratedAsInferred'
    <2>1. \A f \in FilePath : AsInferred(fs'[f], f.ext)
      BY <1>0, <1>8 DEF OpenOutput, Typed, TypeOK, AsInferred, GeneratedAsInferred
    <2>2. Steady
      BY <1>3, <1>8 DEF OpenOutput
    <2> QED
      BY <1>8, <2>1, <2>2 DEF OpenOutput, AsInferred, GeneratedAsInferred
  <1>9. ASSUME NEW p \in Proc, pc[p] = "write", WriteAll(p) \/ WriteSome(p),
               UNCHANGED <<inv, cfgData, out, outPath>>, Steady
        PROVE  GeneratedAsInferred'
    <2>1. /\ outPath[p] \in FilePath \cup {Stdout}
          /\ AsInferred(out[p], PathExt(outPath[p]))
      BY <1>0, <1>9, ConvertAssumption DEF Typed, Progress, GeneratedAsInferred
    <2>2. /\ \A f \in FilePath : AsInferred(fs'[f], f.ext)
          /\ \A q \in Proc : AsInferred(stdout'[q], "")
      <3>1. CASE outPath[p] = Stdout
        <4>1. PICK node \in {out[p], Empty, Torn} : stdout' = [stdout EXCEPT ![p] = node]
          BY <1>9, <3>1 DEF WriteAll, WriteSome
        <4>2. fs' = fs
          BY <1>9, <3>1 DEF WriteAll, WriteSome
        <4>3. AsInferred(out[p], "")
          <5>1. Stdout \notin FilePath
            BY ConvertAssumption
          <5> QED
            BY <2>1, <3>1, <5>1 DEF PathExt
        <4>4. Empty \notin Doc /\ Torn \notin Doc
          BY ConvertAssumption
        <4>5. AsInferred(node, "")
          BY <4>3, <4>4 DEF AsInferred
        <4>6. \A q \in Proc : AsInferred(stdout'[q], "")
          BY <1>0, <4>1, <4>5 DEF Typed, TypeOK, GeneratedAsInferred
        <4> QED
          BY <1>0, <4>2, <4>6 DEF GeneratedAsInferred
      <3>2. CASE outPath[p] # Stdout
        <4>1. AsInferred(out[p], outPath[p].ext)
          BY <2>1, <3>2 DEF PathExt
        <4>2. PICK node \in {fs[outPath[p]], Absent, Torn, out[p]} :
                 fs' = [fs EXCEPT ![outPath[p]] = node]
          BY <1>9, <3>2 DEF WriteAll, WriteSome, Overwritten
        <4>3. AsInferred(node, outPath[p].ext)
          BY <1>0, <2>1, <3>2, <4>1, <4>2 DEF AsInferred, GeneratedAsInferred
        <4>4. \A f \in FilePath : AsInferred(fs'[f], f.ext)
          BY <4>2, <4>3 DEF Typed, TypeOK, GeneratedAsInferred
        <4> QED
          BY <1>9, <3>2, <4>4 DEF WriteAll, WriteSome, GeneratedAsInferred
      <3> QED BY <3>1, <3>2
    <2> QED
      BY <1>9, <2>2 DEF AsInferred, GeneratedAsInferred
  <1>10. ASSUME NEW f \in EditPaths, Edit(f) PROVE GeneratedAsInferred'
    <2>1. \A g \in FilePath : AsInferred(fs'[g], g.ext)
      <3>1. PICK node \in EditNodes : fs' = [fs EXCEPT ![f] = node]
        BY <1>10 DEF Edit
      <3>2. AsInferred(node, f.ext)
        BY <3>1, ProvenanceAssumption DEF AsInferred
      <3> QED
        BY <1>0, <3>1, <3>2 DEF Typed, TypeOK, GeneratedAsInferred
    <2> QED
      BY <1>10, <2>1 DEF Edit, AsInferred, GeneratedAsInferred
  <1>11. ASSUME NEW p \in Proc, StartGenerate(p) PROVE GeneratedAsInferred'
    <2>1. \A q \in Proc : /\ pc'[q] = "resolve" => pc[q] = "resolve"
                          /\ pc'[q] = "fetch" => inv[q].cmd = "generate"
      BY <1>11 DEF StartGenerate, Fail, Goto, Typed, TypeOK, GeneratedAsInferred
    <2> QED
      BY <1>11, <2>1 DEF StartGenerate, AsInferred, GeneratedAsInferred
  <1>12. ASSUME NEW p \in Proc, Step(p) PROVE GeneratedAsInferred'
    <2>1. CASE StatSource(p) BY <1>1, <1>2, <1>3, <2>1 DEF StatSource
    <2>2. CASE ReadSource(p) BY <1>4, <2>2
    <2>3. CASE ReadSourceFails(p) BY <1>1, <1>2, <2>3 DEF ReadSourceFails
    <2>4. CASE CheckFlags(p) BY <1>1, <1>2, <1>3, <2>4 DEF CheckFlags
    <2>5. CASE ProcessConfig(p) BY <1>5, <2>5
    <2>6. CASE ResolveOutput(p) BY <1>6, <2>6
    <2>7. CASE StartGenerate(p) BY <1>11, <2>7
    <2>8. CASE FetchFails(p) BY <1>1, <1>2, <2>8 DEF FetchFails
    <2>9. CASE FetchConfig(p) BY <1>7, <2>9
    <2>10. CASE OpenOutput(p) BY <1>8, <2>10
    <2>11. CASE OpenOutputFails(p) BY <1>1, <1>2, <2>11 DEF OpenOutputFails
    <2>12. CASE WriteOutput(p) BY <1>3, <1>9, <2>12 DEF WriteOutput
    <2>13. CASE WriteOutputFails(p) BY <1>2, <1>9, <2>13 DEF WriteOutputFails
    <2> QED
      BY <1>12, <2>1, <2>2, <2>3, <2>4, <2>5, <2>6, <2>7, <2>8, <2>9, <2>10,
         <2>11, <2>12, <2>13 DEF Step
  <1>13. ASSUME NEW p \in Proc, Kill(p) PROVE GeneratedAsInferred'
    <2>1. Steady
      BY <1>3, <1>13 DEF Kill
    <2>2. CASE pc[p] = "write"
      BY <1>9, <1>13, <2>1, <2>2 DEF Kill
    <2>3. CASE pc[p] # "write"
      BY <1>1, <1>13, <2>1, <2>3 DEF Kill
    <2> QED BY <2>2, <2>3
  <1>14. CASE UNCHANGED vars
    BY <1>1, <1>14 DEF vars
  <1> QED
    BY <1>10, <1>12, <1>13, <1>14 DEF Next, Finished

\* A text in the format a run takes it to be in, and that loads, is not refused for
\* either.
LEMMA InferredIsAccepted ==
    ASSUME NEW i \in Invocation, i.format = Unset, NEW doc \in Doc, doc.by = "generated",
           AsInferred(doc, SourceExt(i))
    PROVE  ConversionError(i, doc) \notin {"ErrInvalidFormat", "loadError"}
  <1>1. doc.fmt = SrcFormat(i) /\ doc.body # Unparsable
    BY DEF AsInferred, SrcFormat
  <1>2. SrcFormat(i) # Invalid
    BY <1>1 DEF Doc, Format, Invalid, YAML, AeroConfig
  <1>3. Nil \notin {"ErrInvalidFormat", "loadError"}
    BY ErrorAssumption DEF Errors, RunErrors
  <1>4. ValidationError(i, doc) \notin {"ErrInvalidFormat", "loadError"}
    BY <1>3 DEF ValidationError, Validate
  <1> QED
    BY <1>1, <1>2, <1>4 DEF ConversionError, Loads

\* No step of a run that reads a generated text reports that it does not load.
LEMMA GeneratedLoadsNext ==
    Typed /\ (FormatsInferred => GeneratedAsInferred) /\ GeneratedTextLoads /\ [Next]_vars
        => GeneratedTextLoads'
  <1> DEFINE Refusals == {"ErrInvalidFormat", "loadError"}
  <1>0. [Next]_vars => inv' = inv
    BY DEF Next, Step, StatSource, ReadSource, ReadSourceFails, CheckFlags, ProcessConfig,
           ResolveOutput, OpenOutput, OpenOutputFails, WriteOutput, WriteOutputFails,
           StartGenerate, FetchFails, FetchConfig, Kill, Edit, Finished, vars
  <1> SUFFICES ASSUME Typed, FormatsInferred, GeneratedAsInferred, GeneratedTextLoads,
                      [Next]_vars, NEW q \in Proc,
                      cfgData'[q] # Nil, inv[q].format = Unset, cfgData'[q].by = "generated"
               PROVE  err'[q] \notin Refusals
    BY <1>0 DEF GeneratedTextLoads, FormatsInferred
  <1>1. ASSUME UNCHANGED <<cfgData, err>> PROVE err'[q] \notin Refusals
    BY <1>1 DEF GeneratedTextLoads, FormatsInferred
  <1>2. ASSUME NEW p \in Proc, NEW e \in Errors, Fail(p, e), UNCHANGED cfgData,
               p = q => e \notin Refusals
        PROVE  err'[q] \notin Refusals
    BY <1>2 DEF Fail, Goto, GeneratedTextLoads, FormatsInferred, Typed, TypeOK
  <1>3. ASSUME NEW p \in Proc, Step(p) PROVE err'[q] \notin Refusals
    <2>1. CASE StatSource(p)
      BY <1>1, <1>2, <2>1 DEF StatSource, Errors, PreRunErrors
    <2>2. CASE ReadSource(p)
      <3>1. err'[q] = err[q] /\ (p = q => err[q] = Nil) /\ (p # q => cfgData'[q] = cfgData[q])
        BY <2>2 DEF ReadSource, Typed, TypeOK, Progress
      <3>2. Nil \notin Refusals
        BY ErrorAssumption DEF Errors, RunErrors
      <3> QED
        BY <3>1, <3>2 DEF GeneratedTextLoads, FormatsInferred
    <2>3. CASE ReadSourceFails(p)
      BY <1>2, <2>3 DEF ReadSourceFails, Errors, PreRunErrors
    <2>4. CASE CheckFlags(p)
      <3>1. PreRunError(inv[p], cfgData[p]) \notin Refusals
        BY ErrorAssumption DEF PreRunError, VersionFlagError, Errors, RunErrors
      <3> QED BY <1>1, <1>2, <2>4, <3>1, ErrorTypes DEF CheckFlags
    <2>5. CASE ProcessConfig(p)
      <3>1. p = q => ConversionError(inv[p], cfgData[p]) \notin Refusals
        BY <2>5, InferredIsAccepted DEF ProcessConfig, Typed, TypeOK, Progress, GeneratedAsInferred
      <3>2. "marshalError" \in Errors
        BY DEF Errors, RunErrors
      <3> QED BY <1>1, <1>2, <2>5, <3>1, <3>2, ErrorTypes DEF ProcessConfig
    <2>6. CASE ResolveOutput(p) BY <1>1, <2>6 DEF ResolveOutput
    <2>7. CASE StartGenerate(p)
      <3>1. GeneratePreRunError(inv[p]) \in {Nil, "errTooManyArguments", "errInvalidFormat"}
        BY DEF GeneratePreRunError
      <3> QED BY <1>1, <1>2, <2>7, <3>1 DEF StartGenerate, Errors, PreRunErrors
    <2>8. CASE FetchFails(p)
      <3>1. p # q
        BY <2>8 DEF FetchFails, Typed, Progress
      <3> QED BY <1>2, <2>8, <3>1 DEF FetchFails, Errors, RunErrors
    <2>9. CASE FetchConfig(p)
      BY <1>1, <1>2, <2>9 DEF FetchConfig, Errors, RunErrors
    <2>10. CASE OpenOutput(p) BY <1>1, <2>10 DEF OpenOutput
    <2>11. CASE OpenOutputFails(p)
      BY <1>2, <2>11 DEF OpenOutputFails, Errors, RunErrors
    <2>12. CASE WriteOutput(p) BY <1>1, <2>12 DEF WriteOutput
    <2>13. CASE WriteOutputFails(p)
      BY <1>2, <2>13 DEF WriteOutputFails, Errors, RunErrors
    <2> QED
      BY <1>3, <2>1, <2>2, <2>3, <2>4, <2>5, <2>6, <2>7, <2>8, <2>9, <2>10,
         <2>11, <2>12, <2>13 DEF Step
  <1>4. ASSUME NEW p \in Proc, Kill(p) PROVE err'[q] \notin Refusals
    BY <1>1, <1>4 DEF Kill
  <1>5. ASSUME NEW f \in EditPaths, Edit(f) PROVE err'[q] \notin Refusals
    BY <1>1, <1>5 DEF Edit
  <1>6. CASE UNCHANGED vars
    BY <1>1, <1>6 DEF vars
  <1> QED
    BY <1>3, <1>4, <1>5, <1>6 DEF Next, Finished

\* For any number of runs, joined by files or pipes: where --format is left out, by
\* generate and by the convert that reads its result, the two agree on the format.
THEOREM GeneratedTextsLoad == Spec => []GeneratedTextLoads
  <1>1. Init => Typed /\ GeneratedAsInferred /\ GeneratedTextLoads
    BY TypedInit, GeneratedInit DEF Init, GeneratedTextLoads
  <1>2. Typed /\ (FormatsInferred => GeneratedAsInferred) /\ GeneratedTextLoads /\ [Next]_vars
            => (Typed /\ (FormatsInferred => GeneratedAsInferred) /\ GeneratedTextLoads)'
    <2>1. [Next]_vars => (FormatsInferred' => FormatsInferred)
      BY DEF Next, Step, StatSource, ReadSource, ReadSourceFails, CheckFlags, ProcessConfig,
             ResolveOutput, OpenOutput, OpenOutputFails, WriteOutput, WriteOutputFails,
             StartGenerate, FetchFails, FetchConfig, Kill, Edit, Finished, vars, FormatsInferred
    <2> QED
      BY <2>1, TypedNext, GeneratedNext, GeneratedLoadsNext
  <1> QED
    BY <1>1, <1>2, PTL DEF Spec

-----------------------------------------------------------------------------
(* What happens to the output.                                              *)

\* A file changes only when a run that has its result opens or writes it, or when
\* another program changes it.
THEOREM OnlyResultsReplaceFiles == Spec => OnlyFinishedConversionsWrite
  <1> DEFINE Replaced ==
        \A f \in FilePath : fs'[f] # fs[f] =>
          \/ edits' # edits
          \/ \E p \in Proc : /\ outPath[p] = f /\ out[p] # Nil
                            /\ pc[p] \in {"open", "write"}
  <1>1. Typed /\ [Next]_vars => [Replaced]_vars
    <2> SUFFICES ASSUME Typed, Next PROVE Replaced
      OBVIOUS
    <2>1. ASSUME UNCHANGED fs PROVE Replaced
      BY <2>1
    <2>2. Nil \notin Doc /\ Stdout \notin FilePath
      BY ConvertAssumption
    <2>3. ASSUME NEW p \in Proc, pc[p] = "write", WriteAll(p) \/ WriteSome(p) PROVE Replaced
      <3>1. out[p] # Nil /\ pc[p] \in {"open", "write"}
        BY <2>2, <2>3 DEF Typed, Progress
      <3>2. \A f \in FilePath : fs'[f] # fs[f] => outPath[p] = f
        BY <2>3 DEF WriteAll, WriteSome, Typed, TypeOK
      <3> QED BY <3>1, <3>2
    <2>4. ASSUME NEW p \in Proc, OpenOutput(p) PROVE Replaced
      <3>1. out[p] # Nil /\ pc[p] \in {"open", "write"}
        BY <2>2, <2>4 DEF OpenOutput, Typed, Progress
      <3>2. \A f \in FilePath : fs'[f] # fs[f] => outPath[p] = f
        BY <2>4 DEF OpenOutput, Typed, TypeOK
      <3> QED BY <3>1, <3>2
    <2>5. ASSUME NEW p \in Proc, Step(p) PROVE Replaced
      BY <2>1, <2>3, <2>4, <2>5
         DEF Step, StatSource, ReadSource, ReadSourceFails, CheckFlags, ProcessConfig,
             ResolveOutput, OpenOutputFails, WriteOutput, WriteOutputFails,
             StartGenerate, FetchFails, FetchConfig
    <2>6. ASSUME NEW p \in Proc, Kill(p) PROVE Replaced
      BY <2>1, <2>3, <2>6 DEF Kill
    <2>7. ASSUME NEW f \in EditPaths, Edit(f) PROVE Replaced
      <3>1. edits \in Nat
        <4>1. MaxEdits \in Nat
          BY ConvertAssumption
        <4> QED BY <4>1 DEF Typed, TypeOK
      <3> QED BY <2>7, <3>1 DEF Edit
    <2> QED
      BY <2>1, <2>5, <2>6, <2>7 DEF Next, Finished, vars
  <1> QED
    BY <1>1, TypedInit, TypedNext, PTL DEF Spec, OnlyFinishedConversionsWrite

\* A run that has not opened its output has written nowhere.
NothingWrittenYet ==
    \A p \in Proc :
        pc[p] \in {"start", "fetch", "read", "check", "convert", "resolve", "open", "panicked"}
          \/ (pc[p] = "failed" /\ err[p] # "writeError") =>
            /\ stdout[p] = Empty
            /\ \A f \in FilePath : p \notin writers[f]

\* A file that only its opener has changed is empty until that run writes it, and so
\* is standard output, which is the run's own.
OpenedIsEmpty ==
    \A p \in Proc : pc[p] = "write" =>
        IF outPath[p] = Stdout THEN stdout[p] = Empty
        ELSE /\ writers[outPath[p]] # {}
             /\ writers[outPath[p]] = {p} => fs[outPath[p]] = Empty

Outputs == NothingWrittenYet /\ OpenedIsEmpty /\ SuccessMeansWhole

\* No run has written at the start.
LEMMA OutputsInit == Init => Outputs
  BY DEF Init, Outputs, NothingWrittenYet, OpenedIsEmpty, SuccessMeansWhole

\* Opening and writing are the only steps that touch the outputs.
LEMMA OutputsNext == Typed /\ Outputs /\ [Next]_vars => Outputs'
  <1> SUFFICES ASSUME Typed, Outputs, [Next]_vars PROVE Outputs'
    OBVIOUS
  <1> USE DEF Outputs, Goto, Fail
  <1>0. Stdout \notin FilePath
    BY ConvertAssumption
  \* Steps that stay away from every output; they leave no run at "write" or "done".
  <1>1. ASSUME NEW p \in Proc, UNCHANGED <<fs, stdout, writers, out>>,
               \A q \in Proc : q # p => /\ pc'[q] = pc[q] /\ err'[q] = err[q]
                                      /\ outPath'[q] = outPath[q],
               pc[p] \in {"start", "fetch", "read", "check", "convert", "resolve", "open"},
               pc'[p] \notin {"write", "done"}
        PROVE  Outputs'
    <2>1. NothingWrittenYet'
      BY <1>1 DEF NothingWrittenYet
    <2>2. OpenedIsEmpty'
      BY <1>1 DEF OpenedIsEmpty
    <2>3. SuccessMeansWhole'
      BY <1>1 DEF SuccessMeansWhole
    <2> QED BY <2>1, <2>2, <2>3
  <1>2. ASSUME NEW p \in Proc, StatSource(p) PROVE Outputs'
    BY <1>1, <1>2 DEF StatSource, Typed, TypeOK
  <1>3. ASSUME NEW p \in Proc, ReadSource(p) \/ ReadSourceFails(p) PROVE Outputs'
    BY <1>1, <1>3 DEF ReadSource, ReadSourceFails, Typed, TypeOK
  <1>4. ASSUME NEW p \in Proc, CheckFlags(p) PROVE Outputs'
    BY <1>1, <1>4 DEF CheckFlags, Typed, TypeOK
  <1>5. ASSUME NEW p \in Proc, OpenOutputFails(p) PROVE Outputs'
    BY <1>1, <1>5 DEF OpenOutputFails, Typed, TypeOK
  <1>6. ASSUME NEW p \in Proc, ProcessConfig(p) PROVE Outputs'
    <2>1. /\ UNCHANGED <<fs, stdout, writers, outPath>>
          /\ pc[p] = "convert" /\ pc'[p] \in {"failed", "resolve"}
          /\ \A q \in Proc : q # p => pc'[q] = pc[q] /\ err'[q] = err[q] /\ out'[q] = out[q]
      BY <1>6 DEF ProcessConfig, Typed, TypeOK
    <2>2. NothingWrittenYet'
      BY <2>1 DEF NothingWrittenYet
    <2>3. OpenedIsEmpty'
      BY <2>1 DEF OpenedIsEmpty
    <2>4. SuccessMeansWhole'
      BY <2>1 DEF SuccessMeansWhole
    <2> QED BY <2>2, <2>3, <2>4
  <1>7. ASSUME NEW p \in Proc, ResolveOutput(p) PROVE Outputs'
    <2>1. /\ UNCHANGED <<fs, stdout, writers, out, err>>
          /\ pc[p] = "resolve"
          /\ \/ pc'[p] \in {"open", "panicked"}
             \/ pc'[p] = "write" /\ outPath'[p] = Stdout
          /\ \A q \in Proc : q # p => pc'[q] = pc[q] /\ outPath'[q] = outPath[q]
      BY <1>7 DEF ResolveOutput, Typed, TypeOK
    <2>2. NothingWrittenYet'
      BY <2>1 DEF NothingWrittenYet
    <2>3. OpenedIsEmpty'
      BY <2>1 DEF OpenedIsEmpty, NothingWrittenYet
    <2>4. SuccessMeansWhole'
      BY <2>1 DEF SuccessMeansWhole
    <2> QED BY <2>2, <2>3, <2>4
  <1>8. ASSUME NEW p \in Proc, OpenOutput(p) PROVE Outputs'
    <2>1. outPath[p] \in FilePath /\ outPath[p] # Stdout
      BY <1>0, <1>8 DEF OpenOutput, Typed, Progress
    <2>2. /\ UNCHANGED <<stdout, out, outPath, err>>
          /\ pc[p] = "open" /\ pc'[p] = "write"
          /\ \A q \in Proc : q # p => pc'[q] = pc[q]
          /\ fs'[outPath[p]] = Empty /\ writers'[outPath[p]] = {p}
          /\ \A f \in FilePath : f # outPath[p] => fs'[f] = fs[f] /\ writers'[f] = writers[f]
      BY <1>8, <2>1 DEF OpenOutput, Typed, TypeOK
    <2>3. NothingWrittenYet'
      BY <2>2 DEF NothingWrittenYet
    <2>4. OpenedIsEmpty'
      BY <2>1, <2>2 DEF OpenedIsEmpty, Typed, Progress
    <2>5. SuccessMeansWhole'
      BY <2>1, <2>2 DEF SuccessMeansWhole, Typed, Progress
    <2> QED BY <2>3, <2>4, <2>5
  \* Another actor's hand in a file ends a run's sole ownership of it.
  <1>9. ASSUME NEW p \in Proc, pc[p] = "write", WriteSome(p),
               pc'[p] \in {"failed", "killed"}, pc'[p] = "failed" => err'[p] = "writeError",
               \A q \in Proc : q # p => pc'[q] = pc[q] /\ err'[q] = err[q],
               UNCHANGED <<out, outPath>>
        PROVE  Outputs'
    <2>1. CASE outPath[p] = Stdout
      <3>1. /\ UNCHANGED <<fs, writers>>
            /\ \A q \in Proc : q # p => stdout'[q] = stdout[q]
        BY <1>0, <1>9, <2>1 DEF WriteSome, Typed, TypeOK
      <3> QED
        BY <1>9, <3>1 DEF NothingWrittenYet, OpenedIsEmpty, SuccessMeansWhole
    <2>2. CASE outPath[p] # Stdout
      <3>1. outPath[p] \in FilePath
        BY <1>9, <2>2 DEF Typed, Progress
      <3>2. /\ UNCHANGED stdout
            /\ writers'[outPath[p]] = writers[outPath[p]] \cup {p}
            /\ \A f \in FilePath : f # outPath[p] => fs'[f] = fs[f] /\ writers'[f] = writers[f]
        BY <1>9, <2>2, <3>1 DEF WriteSome, Typed, TypeOK
      <3>3. NothingWrittenYet'
        BY <1>9, <3>2 DEF NothingWrittenYet
      <3>4. OpenedIsEmpty'
        BY <1>9, <3>1, <3>2 DEF OpenedIsEmpty, Typed, Progress
      <3>5. SuccessMeansWhole'
        BY <1>9, <3>1, <3>2 DEF SuccessMeansWhole, Typed, Progress
      <3> QED BY <3>3, <3>4, <3>5
    <2> QED BY <2>1, <2>2
  <1>10. ASSUME NEW p \in Proc, pc[p] = "write", WriteAll(p), pc'[p] \in {"done", "killed"},
                \A q \in Proc : q # p => pc'[q] = pc[q],
                UNCHANGED <<out, outPath, err>>
         PROVE  Outputs'
    <2>1. CASE outPath[p] = Stdout
      <3>1. /\ UNCHANGED <<fs, writers>>
            /\ stdout'[p] = out[p]
            /\ \A q \in Proc : q # p => stdout'[q] = stdout[q]
        BY <1>0, <1>10, <2>1 DEF WriteAll, Typed, TypeOK
      <3> QED
        BY <1>10, <2>1, <3>1 DEF NothingWrittenYet, OpenedIsEmpty, SuccessMeansWhole
    <2>2. CASE outPath[p] # Stdout
      <3>1. outPath[p] \in FilePath
        BY <1>10, <2>2 DEF Typed, Progress
      <3>2. /\ UNCHANGED stdout
            /\ writers'[outPath[p]] = writers[outPath[p]] \cup {p}
            /\ fs'[outPath[p]] \in Overwritten(fs[outPath[p]], out[p])
            /\ \A f \in FilePath : f # outPath[p] => fs'[f] = fs[f] /\ writers'[f] = writers[f]
        BY <1>10, <2>2, <3>1 DEF WriteAll, Typed, TypeOK
      <3>3. NothingWrittenYet'
        BY <1>10, <3>2 DEF NothingWrittenYet
      <3>4. OpenedIsEmpty'
        BY <1>10, <3>1, <3>2 DEF OpenedIsEmpty, Typed, Progress
      <3>5. fs[outPath[p]] = Empty => fs'[outPath[p]] = out[p]
        <4>1. Absent # Empty
          BY ConvertAssumption
        <4> QED BY <3>2, <4>1 DEF Overwritten
      <3>6. writers'[outPath[p]] = {p} => writers[outPath[p]] = {p}
        BY <1>10, <2>2, <3>2 DEF OpenedIsEmpty
      <3>7. SuccessMeansWhole'
        BY <1>10, <2>2, <3>1, <3>2, <3>5, <3>6
           DEF SuccessMeansWhole, OpenedIsEmpty, Typed, Progress
      <3> QED BY <3>3, <3>4, <3>7
    <2> QED BY <2>1, <2>2
  <1>11. ASSUME NEW p \in Proc, WriteOutput(p) PROVE Outputs'
    BY <1>10, <1>11 DEF WriteOutput, Typed, TypeOK
  <1>12. ASSUME NEW p \in Proc, WriteOutputFails(p) PROVE Outputs'
    BY <1>9, <1>12 DEF WriteOutputFails, Typed, TypeOK
  <1>13. ASSUME NEW p \in Proc, Kill(p) PROVE Outputs'
    <2>1. CASE pc[p] = "write"
      BY <1>9, <1>10, <1>13, <2>1 DEF Kill, Typed, TypeOK
    <2>2. CASE pc[p] # "write"
      BY <1>1, <1>13, <2>2 DEF Kill, Running, Typed, TypeOK
    <2> QED BY <2>1, <2>2
  <1>14. ASSUME NEW f \in EditPaths, Edit(f) PROVE Outputs'
    <2>1. f \in FilePath
      BY ConvertAssumption
    <2>2. /\ UNCHANGED <<stdout, pc, out, outPath, err>>
          /\ writers'[f] = writers[f] \cup {Other}
          /\ \A g \in FilePath : g # f => fs'[g] = fs[g] /\ writers'[g] = writers[g]
      BY <1>14, <2>1 DEF Edit, Typed, TypeOK
    <2>3. NothingWrittenYet'
      BY <2>1, <2>2, OtherAssumption DEF NothingWrittenYet
    <2>4. OpenedIsEmpty'
      BY <2>1, <2>2, OtherAssumption DEF OpenedIsEmpty, Typed, Progress
    <2>5. SuccessMeansWhole'
      BY <2>1, <2>2, OtherAssumption DEF SuccessMeansWhole, Typed, Progress
    <2> QED BY <2>3, <2>4, <2>5
  <1>15. CASE UNCHANGED vars
    BY <1>15 DEF vars, NothingWrittenYet, OpenedIsEmpty, SuccessMeansWhole
  <1>16. ASSUME NEW p \in Proc, StartGenerate(p) \/ FetchFails(p) PROVE Outputs'
    BY <1>1, <1>16 DEF StartGenerate, FetchFails, Typed, TypeOK
  <1>17. ASSUME NEW p \in Proc, FetchConfig(p) PROVE Outputs'
    <2>1. /\ UNCHANGED <<fs, stdout, writers>>
          /\ pc[p] = "fetch"
          /\ \/ pc'[p] = "open"
             \/ pc'[p] = "failed" /\ err'[p] = "openError"
             \/ pc'[p] = "write" /\ outPath'[p] = Stdout
          /\ \A q \in Proc : q # p => /\ pc'[q] = pc[q] /\ outPath'[q] = outPath[q]
                                     /\ err'[q] = err[q] /\ out'[q] = out[q]
      BY <1>17 DEF FetchConfig, Typed, TypeOK
    <2>2. NothingWrittenYet'
      BY <2>1 DEF NothingWrittenYet
    <2>3. OpenedIsEmpty'
      BY <2>1 DEF OpenedIsEmpty, NothingWrittenYet
    <2>4. SuccessMeansWhole'
      BY <2>1 DEF SuccessMeansWhole
    <2> QED BY <2>2, <2>3, <2>4
  <1> QED
    BY <1>2, <1>3, <1>4, <1>5, <1>6, <1>7, <1>8, <1>11, <1>12, <1>13, <1>14, <1>15,
       <1>16, <1>17
       DEF Next, Step, Finished

\* A refused run has truncated and written nothing.
THEOREM RefusalsTouchNothing == Spec => []RefusedRunsTouchNothing
  <1>1. Init => Typed /\ Outputs
    BY TypedInit, OutputsInit
  <1>2. Typed /\ Outputs /\ [Next]_vars => (Typed /\ Outputs)'
    BY TypedNext, OutputsNext
  <1>3. Typed /\ Outputs => RefusedRunsTouchNothing
    BY DEF Outputs, NothingWrittenYet, RefusedRunsTouchNothing
  <1> QED
    BY <1>1, <1>2, <1>3, PTL DEF Spec

\* A run that reports success, and was alone with its output, has left all of the
\* converted configuration in it.
THEOREM SuccessIsWhole == Spec => []SuccessMeansWhole
  <1>1. Init => Typed /\ Outputs
    BY TypedInit, OutputsInit
  <1>2. Typed /\ Outputs /\ [Next]_vars => (Typed /\ Outputs)'
    BY TypedNext, OutputsNext
  <1>3. Outputs => SuccessMeansWhole
    BY DEF Outputs
  <1> QED
    BY <1>1, <1>2, <1>3, PTL DEF Spec

-----------------------------------------------------------------------------
(* Where a conversion's result goes, and where its source came from.        *)

\* What a run has decided, from what it has read: the commands part at the start,
\* and a conversion that has a result met no error and has its path from its flags.
DecidedBy(i, label, doc, bytes, path) ==
    /\ label = "fetch" => i.cmd = "generate"
    /\ label \in {"read", "check", "convert", "resolve"} => i.cmd = "convert"
    /\ i.cmd = "convert" /\ bytes # Nil => doc \in Doc /\ ConversionError(i, doc) = Nil
    /\ i.cmd = "convert" /\ path # Nil => bytes # Nil /\ path = determineOutputPath(i)
    /\ i.cmd # "convert" /\ path # Nil => i.out \notin Dirs /\ path = i.out

Decided == \A p \in Proc : DecidedBy(inv[p], pc[p], cfgData[p], out[p], outPath[p])

\* A pipe is read when its writer has ended, so what was in it then is in it for good.
PipeRead ==
    \A p \in Proc :
        Upstream[p] # NoProc /\ Source(inv[p]) = Stdin /\ cfgData[p] # Nil =>
            /\ pc[Upstream[p]] \in Ended
            /\ stdout[Upstream[p]] = Empty => cfgData[p].ver = NoVersion

\* A step of one run leaves alone what the others know, are, and have printed.
LEMMA OwnStep ==
    ASSUME Typed, NEW p \in Proc, Step(p) \/ Kill(p)
    PROVE  /\ inv' = inv /\ pc[p] \in Running
           /\ \A q \in Proc : q # p =>
                 /\ pc'[q] = pc[q] /\ cfgData'[q] = cfgData[q] /\ stdout'[q] = stdout[q]
                 /\ out'[q] = out[q] /\ outPath'[q] = outPath[q]
  <1> USE DEF Typed, TypeOK, Running, Goto, Fail
  <1>1. CASE StatSource(p)
    BY <1>1 DEF StatSource
  <1>2. CASE ReadSource(p)
    BY <1>2 DEF ReadSource
  <1>3. CASE ReadSourceFails(p)
    BY <1>3 DEF ReadSourceFails
  <1>4. CASE CheckFlags(p)
    BY <1>4 DEF CheckFlags
  <1>5. CASE ProcessConfig(p)
    BY <1>5 DEF ProcessConfig
  <1>6. CASE ResolveOutput(p)
    BY <1>6 DEF ResolveOutput
  <1>7. CASE StartGenerate(p)
    BY <1>7 DEF StartGenerate
  <1>8. CASE FetchConfig(p)
    BY <1>8 DEF FetchConfig
  <1>9. CASE FetchFails(p)
    BY <1>9 DEF FetchFails
  <1>10. CASE OpenOutput(p) \/ OpenOutputFails(p)
    BY <1>10 DEF OpenOutput, OpenOutputFails
  <1>11. CASE WriteOutput(p)
    BY <1>11 DEF WriteOutput, WriteAll
  <1>12. CASE WriteOutputFails(p)
    BY <1>12 DEF WriteOutputFails, WriteSome
  <1>13. CASE Kill(p)
    BY <1>13 DEF Kill, WriteAll, WriteSome
  <1> QED
    BY <1>1, <1>2, <1>3, <1>4, <1>5, <1>6, <1>7, <1>8, <1>9, <1>10, <1>11, <1>12, <1>13 DEF Step

\* What a step decides it decides as the code does.
LEMMA DecidedStep ==
    ASSUME Typed, Decided, NEW p \in Proc, Step(p) \/ Kill(p)
    PROVE  DecidedBy(inv[p], pc'[p], cfgData'[p], out'[p], outPath'[p])
  <1> DEFINE DP == DecidedBy(inv[p], pc'[p], cfgData'[p], out'[p], outPath'[p])
  <1>0. DecidedBy(inv[p], pc[p], cfgData[p], out[p], outPath[p])
    BY DEF Decided
  <1>k. ASSUME UNCHANGED <<cfgData, out, outPath>>,
               pc'[p] \notin {"fetch", "read", "check", "convert", "resolve"}
        PROVE  DP
    BY <1>0, <1>k DEF DecidedBy
  <1>f. ASSUME NEW e, Fail(p, e), UNCHANGED <<cfgData, out, outPath>> PROVE DP
    BY <1>k, <1>f DEF Fail, Goto, Typed, TypeOK
  <1>1. CASE StatSource(p)
    <2>1. pc[p] = "start" /\ inv[p].cmd = "convert" /\ UNCHANGED <<cfgData, out, outPath>>
      BY <1>1 DEF StatSource
    <2>2. pc'[p] \in {"failed", "read"}
      BY <1>1 DEF StatSource, Fail, Goto, Typed, TypeOK
    <2> QED BY <1>0, <2>1, <2>2 DEF DecidedBy
  <1>2. CASE ReadSource(p)
    <2>1. /\ pc[p] = "read" /\ pc'[p] = "check" /\ UNCHANGED <<out, outPath>>
          /\ out[p] = Nil /\ outPath[p] = Nil
      BY <1>2 DEF ReadSource, Goto, Typed, TypeOK, Progress
    <2> QED BY <1>0, <2>1 DEF DecidedBy
  <1>3. CASE ReadSourceFails(p)
    BY <1>3, <1>f DEF ReadSourceFails
  <1>4. CASE CheckFlags(p)
    <2>1. pc[p] = "check" /\ UNCHANGED <<cfgData, out, outPath>>
      BY <1>4 DEF CheckFlags
    <2>2. pc'[p] \in {"failed", "convert"}
      BY <1>4 DEF CheckFlags, Fail, Goto, Typed, TypeOK
    <2> QED BY <1>0, <2>1, <2>2 DEF DecidedBy
  <1>5. CASE ProcessConfig(p)
    <2>1. ASSUME NEW e, Fail(p, e), UNCHANGED out PROVE DP
      BY <1>5, <1>f, <2>1 DEF ProcessConfig
    <2>2. ASSUME ConversionError(inv[p], cfgData[p]) = Nil, Goto(p, "resolve") PROVE DP
      <3>1. /\ pc'[p] = "resolve" /\ cfgData'[p] = cfgData[p] /\ cfgData[p] \in Doc
            /\ inv[p].cmd = "convert" /\ outPath'[p] = Nil
        BY <1>0, <1>5, <2>2 DEF DecidedBy, ProcessConfig, Goto, Typed, TypeOK, Progress
      <3> QED BY <2>2, <3>1 DEF DecidedBy
    <2> QED BY <1>5, <2>1, <2>2 DEF ProcessConfig
  <1>6. CASE ResolveOutput(p)
    <2>1. /\ pc[p] = "resolve" /\ out[p] \in Doc /\ inv[p].cmd = "convert"
          /\ UNCHANGED <<cfgData, out>>
      BY <1>0, <1>6 DEF DecidedBy, ResolveOutput, Typed, Progress
    <2>2. out[p] # Nil
      BY <2>1, ConvertAssumption
    <2>3. /\ pc'[p] \in {"panicked", "write", "open"}
          /\ outPath'[p] # Nil => outPath'[p] = determineOutputPath(inv[p]) \/ outPath'[p] = outPath[p]
      BY <1>6 DEF ResolveOutput, Goto, Typed, TypeOK
    <2> QED BY <1>0, <2>1, <2>2, <2>3 DEF DecidedBy
  <1>7. CASE StartGenerate(p)
    <2>1. inv[p].cmd = "generate" /\ UNCHANGED <<cfgData, out, outPath>>
      BY <1>7 DEF StartGenerate
    <2>2. pc'[p] \in {"failed", "fetch"}
      BY <1>7 DEF StartGenerate, Fail, Goto, Typed, TypeOK
    <2> QED BY <1>0, <2>1, <2>2 DEF DecidedBy
  <1>8. CASE FetchConfig(p)
    <2>1. pc[p] = "fetch" /\ inv[p].cmd = "generate"
      BY <1>0, <1>8 DEF DecidedBy, FetchConfig
    <2>2. /\ pc'[p] \in {"failed", "write", "open"}
          /\ \/ outPath'[p] = outPath[p]
             \/ inv[p].out \notin Dirs /\ outPath'[p] = inv[p].out
      BY <1>8 DEF FetchConfig, Fail, Goto, Typed, TypeOK
    <2> QED BY <1>0, <2>1, <2>2 DEF DecidedBy
  <1>9. CASE FetchFails(p)
    BY <1>9, <1>f DEF FetchFails
  <1>10. CASE OpenOutput(p)
    BY <1>10, <1>k DEF OpenOutput, Goto, Typed, TypeOK
  <1>11. CASE OpenOutputFails(p)
    BY <1>11, <1>f DEF OpenOutputFails
  <1>12. CASE WriteOutput(p)
    BY <1>12, <1>k DEF WriteOutput, Goto, Typed, TypeOK
  <1>13. CASE WriteOutputFails(p)
    BY <1>13, <1>f DEF WriteOutputFails
  <1>14. CASE Kill(p)
    BY <1>14, <1>k DEF Kill, Goto, Typed, TypeOK
  <1> QED
    BY <1>1, <1>2, <1>3, <1>4, <1>5, <1>6, <1>7, <1>8, <1>9, <1>10, <1>11, <1>12, <1>13, <1>14
       DEF Step

LEMMA DecidedNext == Typed /\ Decided /\ [Next]_vars => Decided'
  <1> SUFFICES ASSUME Typed, Decided, [Next]_vars, NEW q \in Proc
               PROVE  DecidedBy(inv'[q], pc'[q], cfgData'[q], out'[q], outPath'[q])
    BY DEF Decided
  <1>1. ASSUME NEW p \in Proc, Step(p) \/ Kill(p)
        PROVE  DecidedBy(inv'[q], pc'[q], cfgData'[q], out'[q], outPath'[q])
    <2>1. CASE q = p
      BY <1>1, <2>1, OwnStep, DecidedStep
    <2>2. CASE q # p
      <3>1. /\ pc'[q] = pc[q] /\ cfgData'[q] = cfgData[q] /\ inv' = inv
            /\ out'[q] = out[q] /\ outPath'[q] = outPath[q]
        BY <1>1, <2>2, OwnStep
      <3> QED BY <3>1 DEF Decided
    <2> QED BY <2>1, <2>2
  <1>2. ASSUME UNCHANGED <<inv, pc, cfgData, out, outPath>>
        PROVE  DecidedBy(inv'[q], pc'[q], cfgData'[q], out'[q], outPath'[q])
    BY <1>2 DEF Decided
  <1>3. ASSUME NEW f \in EditPaths, Edit(f)
        PROVE  DecidedBy(inv'[q], pc'[q], cfgData'[q], out'[q], outPath'[q])
    BY <1>2, <1>3 DEF Edit
  <1> QED
    BY <1>1, <1>2, <1>3 DEF Next, Finished, vars

\* An ended run does not write to its pipe, and a run reads it when it is empty for good.
LEMMA PipeReadNext == Typed /\ Decided /\ PipeRead /\ [Next]_vars => PipeRead'
  <1> SUFFICES ASSUME Typed, Decided, PipeRead, [Next]_vars, NEW q \in Proc,
                      Upstream[q] # NoProc, Source(inv'[q]) = Stdin, cfgData'[q] # Nil
               PROVE  /\ pc'[Upstream[q]] \in Ended
                      /\ stdout'[Upstream[q]] = Empty => cfgData'[q].ver = NoVersion
    BY DEF PipeRead
  <1> DEFINE u == Upstream[q]
  <1>0. u \in Proc
    BY ConvertAssumption
  <1> HIDE DEF u
  <1>1. ASSUME inv' = inv, cfgData'[q] = cfgData[q], stdout'[u] = stdout[u], pc'[u] = pc[u]
        PROVE  pc'[u] \in Ended /\ (stdout'[u] = Empty => cfgData'[q].ver = NoVersion)
    BY <1>1 DEF PipeRead, u
  <1>2. ASSUME NEW p \in Proc, Step(p) \/ Kill(p)
        PROVE  pc'[u] \in Ended /\ (stdout'[u] = Empty => cfgData'[q].ver = NoVersion)
    <2>1. /\ inv' = inv /\ pc[p] \in Running
          /\ \A r \in Proc : r # p => /\ pc'[r] = pc[r] /\ cfgData'[r] = cfgData[r]
                                     /\ stdout'[r] = stdout[r]
      BY <1>2, OwnStep
    <2>2. Running \cap Ended = {}
      BY DEF Running, Ended
    <2>3. CASE cfgData'[q] = cfgData[q]
      <3>1. pc[u] \in Ended
        BY <2>1, <2>3 DEF PipeRead, u
      <3>2. u # p
        BY <2>1, <2>2, <3>1
      <3> QED BY <1>0, <1>1, <2>1, <2>3, <3>2
    <2>4. CASE cfgData'[q] # cfgData[q]
      <3>1. q = p /\ ReadSource(p)
        <4>1. q = p
          BY <2>1, <2>4
        <4>2. ~ReadSource(p) => UNCHANGED cfgData
          BY <1>2 DEF Step, StatSource, ReadSourceFails, CheckFlags, ProcessConfig, ResolveOutput,
             OpenOutput, OpenOutputFails, WriteOutput, WriteOutputFails, StartGenerate,
             FetchFails, FetchConfig, Kill
        <4> QED BY <2>4, <4>1, <4>2
      <3>2. pc[u] \in Ended /\ u # p
        BY <2>1, <2>2, <3>1 DEF ReadSource, PipeClosed, u
      <3>3. pc'[u] = pc[u] /\ stdout'[u] = stdout[u]
        BY <1>0, <2>1, <3>2
      <3>4. SourceNode(p) = stdout[u]
        BY <2>1, <3>1 DEF SourceNode, u
      <3>5. cfgData'[q] \in Readings(stdout[u])
        BY <3>1, <3>4 DEF ReadSource, Typed, TypeOK
      <3>6. ASSUME stdout[u] = Empty PROVE cfgData'[q].ver = NoVersion
        <4>1. Empty \notin Doc
          BY ConvertAssumption
        <4>2. cfgData'[q] \in {EmptyText(EmptyBody), EmptyText(Unparsable)}
          BY <3>5, <3>6, <4>1 DEF Readings
        <4> QED BY <4>2 DEF EmptyText
      <3> QED BY <3>2, <3>3, <3>6
    <2> QED BY <2>3, <2>4
  <1>3. ASSUME NEW f \in EditPaths, Edit(f)
        PROVE  pc'[u] \in Ended /\ (stdout'[u] = Empty => cfgData'[q].ver = NoVersion)
    BY <1>1, <1>3 DEF Edit
  <1>4. ASSUME UNCHANGED vars
        PROVE  pc'[u] \in Ended /\ (stdout'[u] = Empty => cfgData'[q].ver = NoVersion)
    BY <1>1, <1>4 DEF vars
  <1> QED
    BY <1>2, <1>3, <1>4 DEF Next, Finished, u

\* A run that has not started has decided and read nothing.
LEMMA DecidedInit == Init => Decided /\ PipeRead
  BY DEF Init, Decided, DecidedBy, PipeRead

\* The two invariants hold in every state.
LEMMA DecidedInvariant == Spec => [](Typed /\ Decided /\ PipeRead)
  <1>1. Typed /\ Decided /\ PipeRead /\ [Next]_vars => (Typed /\ Decided /\ PipeRead)'
    BY TypedNext, DecidedNext, PipeReadNext
  <1> QED
    BY TypedInit, DecidedInit, <1>1, PTL DEF Spec

\* The file determineOutputPath names in a directory is not the source: its extension
\* is that of the other format, or its base is the name of the directory.
LEMMA NamedFileIsAnother ==
    ASSUME NEW i \in Invocation, i.out \in Dirs, i.format = Unset, SrcFormat(i) \in Format
    PROVE  determineOutputPath(i) # Source(i)
  <1> DEFINE f == FileInDir(i.out, i)
             ext == OutputExt(determineOutputFormat(SrcFormat(i)))
  <1>1. determineOutputPath(i) = f
    BY DEF determineOutputPath
  <1>2. CASE Source(i) = Stdin
    <2>1. "dir" \in DOMAIN f /\ f \in FilePath
      <3>1. ext \in Exts
        BY ConvertAssumption DEF OutputExt
      <3> QED BY <1>2, <3>1, ConvertAssumption DEF FileInDir, FilePath
    <2>2. Stdin \notin FilePath
      BY ConvertAssumption
    <2> QED BY <1>1, <1>2, <2>1, <2>2
  <1>3. CASE Source(i) # Stdin
    <2>1. Source(i) \in FilePath
      BY <1>3 DEF Source, Invocation
    <2>2. CASE Source(i).base = EmptyBase
      <3>1. f.base = i.out
        BY <1>3, <2>2 DEF FileInDir
      <3>2. i.out # EmptyBase
        BY ConvertAssumption
      <3> QED BY <1>1, <2>2, <3>1, <3>2
    <2>3. CASE Source(i).base # EmptyBase
      <3> DEFINE e == Source(i).ext
      <3>1. f.ext = ext
        BY <1>3, <2>3 DEF FileInDir
      <3>2. SrcFormat(i) = ParseFmtString(IF e # "" THEN e ELSE "conf")
        BY <1>3 DEF SrcFormat, SourceExt, getConfFileFormat, FormatFlag, DefaultFormat
      <3>3. CASE SrcFormat(i) = YAML
        <4>1. ext = "conf"
          BY <3>3 DEF determineOutputFormat, OutputExt, YAML, AeroConfig
        <4>2. e # "conf"
          BY <3>2, <3>3 DEF ParseFmtString, YAML, AeroConfig, Invalid
        <4> QED BY <1>1, <3>1, <4>1, <4>2
      <3>4. CASE SrcFormat(i) = AeroConfig
        <4>1. ext = "yaml"
          BY <3>4 DEF determineOutputFormat, OutputExt, YAML, AeroConfig
        <4>2. e # "yaml"
          BY <3>2, <3>4 DEF ParseFmtString, YAML, AeroConfig, Invalid
        <4> QED BY <1>1, <3>1, <4>1, <4>2
      <3> QED BY <3>3, <3>4 DEF Format
    <2> QED BY <2>2, <2>3
  <1> QED
    BY <1>2, <1>3

\* Given a directory and no --format, no run writes over its own source, whichever
\* format the source's name says and whatever directory it is in (determineOutputPath).
THEOREM SourcesSurvive == Spec => []SourceSurvives
  <1>1. Typed /\ Decided => SourceSurvives
    <2> SUFFICES ASSUME Typed, Decided, NEW p \in Proc,
                        outPath[p] # Nil, inv[p].out \in Dirs, inv[p].format = Unset
                 PROVE  outPath[p] # Source(inv[p])
      BY DEF SourceSurvives
    <2>1. inv[p] \in Invocation
      BY DEF Typed, TypeOK
    <2>2. /\ outPath[p] = determineOutputPath(inv[p])
          /\ ConversionError(inv[p], cfgData[p]) = Nil
      BY DEF Decided, DecidedBy
    <2>3. SrcFormat(inv[p]) \in Format
      BY <2>2, SrcFormatType, ErrorAssumption DEF ConversionError, Errors, RunErrors
    <2> QED BY <2>1, <2>2, <2>3, NamedFileIsAnother
  <1> QED
    BY DecidedInvariant, <1>1, PTL

\* At the end of an empty pipe there is no version, and a conversion that was given
\* none and is not forced does not succeed (handleAerospikeVersionValidation).
THEOREM BrokenPipelines == Spec => []BrokenPipelineIsNoticed
  <1>1. Typed /\ Decided /\ PipeRead => BrokenPipelineIsNoticed
    <2> SUFFICES ASSUME Typed, Decided, PipeRead, NEW p \in Proc, inv[p].cmd = "convert",
                        Upstream[p] # NoProc, Source(inv[p]) = Stdin,
                        pc[p] = "done", AsksForVersion(p), stdout[Upstream[p]] = Empty
                 PROVE  FALSE
      BY DEF BrokenPipelineIsNoticed
    <2>1. out[p] # Nil
      BY ConvertAssumption DEF Typed, Progress
    <2>2. cfgData[p] \in Doc /\ ConversionError(inv[p], cfgData[p]) = Nil
      BY <2>1 DEF Decided, DecidedBy
    <2>3. cfgData[p].ver = NoVersion
      BY <2>2, ConvertAssumption DEF PipeRead
    <2>4. MetaVersion(cfgData[p]) = NoVersion
      BY <2>3, ContentsAssumption DEF MetaVersion
    <2>5. ResolvedVersion(inv[p], cfgData[p]) = NoVersion /\ ~inv[p].force
      BY <2>4 DEF ResolvedVersion, AsksForVersion
    <2>6. ConversionError(inv[p], cfgData[p]) \in {"ErrInvalidFormat", "errMissingAerospikeVersion"}
      BY <2>5 DEF ConversionError
    <2> QED BY <2>2, <2>6, ErrorAssumption DEF Errors, RunErrors, PreRunErrors
  <1> QED
    BY DecidedInvariant, <1>1, PTL
-----------------------------------------------------------------------------
(* Runs implement the publication of what they heard.                       *)

\* The bytes a run has are made from the text it read or from what the server said.
Made ==
    \A p \in Proc : out[p] # Nil =>
        IF inv[p].cmd = "convert" THEN out[p] = Converted(inv[p], cfgData[p])
        ELSE \E body \in Body : out[p] = Generated(inv[p], body)

\* Only ProcessConfig and FetchConfig make them, and the text stays what it was.
LEMMA MadeNext == Typed /\ Decided /\ Made /\ [Next]_vars => Made'
  <1> DEFINE MadeAt(q) == out[q] # Nil =>
                            IF inv[q].cmd = "convert" THEN out[q] = Converted(inv[q], cfgData[q])
                            ELSE \E body \in Body : out[q] = Generated(inv[q], body)
  <1> SUFFICES ASSUME Typed, Decided, Made, [Next]_vars, NEW q \in Proc PROVE MadeAt(q)'
    BY DEF Made
  <1>0. MadeAt(q)
    BY DEF Made
  <1>1. ASSUME inv'[q] = inv[q], cfgData'[q] = cfgData[q], out'[q] = out[q] PROVE MadeAt(q)'
    BY <1>0, <1>1 DEF Converted, ResolvedVersion, SrcFormat, SourceExt, Source, Generated,
       GeneratedFormat
  <1>2. ASSUME NEW p \in Proc, Step(p) \/ Kill(p) PROVE MadeAt(q)'
    <2>1. inv' = inv /\ (q # p => out'[q] = out[q] /\ cfgData'[q] = cfgData[q])
      BY <1>2, OwnStep
    <2>2. CASE ReadSource(p)
      <3>1. q = p => out[q] = Nil
        BY <2>2 DEF ReadSource, Typed, Progress
      <3>2. out' = out
        BY <2>2 DEF ReadSource
      <3> QED
        BY <1>1, <2>1, <3>1, <3>2
    <2>3. CASE ProcessConfig(p)
      <3>1. cfgData' = cfgData
        BY <2>3 DEF ProcessConfig
      <3>2. q = p => out'[q] = out[q] \/ out'[q] = Converted(inv[q], cfgData[q])
        BY <2>3 DEF ProcessConfig, Typed, TypeOK
      <3>3. q = p => inv[q].cmd = "convert"
        BY <2>3 DEF ProcessConfig, Decided, DecidedBy
      <3> QED
        BY <1>1, <2>1, <3>1, <3>2, <3>3
    <2>4. CASE FetchConfig(p)
      <3>1. q = p => \E body \in Body : out'[q] = Generated(inv[q], body)
        BY <2>4 DEF FetchConfig, Typed, TypeOK
      <3>2. q = p => inv[q].cmd = "generate"
        BY <2>4 DEF FetchConfig, Decided, DecidedBy
      <3>3. cfgData' = cfgData
        BY <2>4 DEF FetchConfig
      <3> QED
        BY <1>1, <2>1, <3>1, <3>2, <3>3
    <2>5. CASE ~ReadSource(p) /\ ~ProcessConfig(p) /\ ~FetchConfig(p)
      <3>1. UNCHANGED <<out, cfgData>>
        BY <1>2, <2>5 DEF Step, StatSource, ReadSourceFails, CheckFlags, ResolveOutput,
           OpenOutput, OpenOutputFails, WriteOutput, WriteOutputFails, StartGenerate,
           FetchFails, Kill
      <3> QED
        BY <1>1, <2>1, <3>1
    <2> QED
      BY <2>2, <2>3, <2>4, <2>5
  <1>3. ASSUME NEW f \in EditPaths, Edit(f) PROVE MadeAt(q)'
    BY <1>1, <1>3 DEF Edit
  <1>4. ASSUME UNCHANGED vars PROVE MadeAt(q)'
    BY <1>1, <1>4 DEF vars
  <1> QED
    BY <1>2, <1>3, <1>4 DEF Next, Finished

\* The promise is about the same texts and sources.
LEMMA SameTexts ==
    /\ Promise!Doc = Doc
    /\ \A i : Promise!Source(i) = Source(i)
    /\ \A doc : Promise!MetaVersion(doc) = MetaVersion(doc)
  <1>1. Promise!Doc = Doc
    BY DEF Promise!Doc, Doc, Promise!Format, Format, Promise!YAML, YAML, Promise!AeroConfig,
       AeroConfig
  <1>2. ASSUME NEW i PROVE Promise!Source(i) = Source(i)
    BY DEF Promise!Source, Source
  <1>3. ASSUME NEW doc PROVE Promise!MetaVersion(doc) = MetaVersion(doc)
    BY DEF Promise!MetaVersion, MetaVersion
  <1> QED
    BY <1>1, <1>2, <1>3

\* What convertConfig makes without an error is a conversion in the sense of the promise.
LEMMA ConvertedIsConversion ==
    ASSUME NEW i \in Invocation, NEW doc \in Doc, ConversionError(i, doc) = Nil
    PROVE  Promise!IsConversion(i, doc, Converted(i, doc))
  <1>1. /\ SrcFormat(i) \in Format /\ Loads(doc, SrcFormat(i)) /\ ValidationError(i, doc) = Nil
        /\ ResolvedVersion(i, doc) = NoVersion => i.force
    BY SrcFormatType, ErrorAssumption
       DEF ConversionError, Errors, RunErrors, PreRunErrors, Invocation
  <1>2. Converted(i, doc).fmt # doc.fmt \/ doc.body = EmptyBody
    <2>1. \A fmt \in Format : determineOutputFormat(fmt) # fmt
      BY DEF determineOutputFormat, Format, YAML, AeroConfig
    <2>2. Converted(i, doc).fmt = determineOutputFormat(SrcFormat(i))
      BY DEF Converted
    <2>3. doc.fmt = SrcFormat(i) \/ doc.body = EmptyBody
      BY <1>1 DEF Loads
    <2> QED
      BY <1>1, <2>1, <2>2, <2>3
  <1>3. Converted(i, doc).ver = Promise!Recorded(i, doc)
    BY ContentsAssumption, SameTexts DEF Converted, Promise!Recorded, ResolvedVersion, Invocation
  <1>4. ~i.force => /\ Converted(i, doc).ver \in Supported
                    /\ doc.body \in ValidFor[Converted(i, doc).ver]
    <2> SUFFICES ASSUME ~i.force PROVE /\ Converted(i, doc).ver \in Supported
                                       /\ doc.body \in ValidFor[Converted(i, doc).ver]
      OBVIOUS
    <2>1. Converted(i, doc).ver = ResolvedVersion(i, doc)
      BY <1>1 DEF Converted
    <2>2. Validate(doc.body, ResolvedVersion(i, doc)).err = Nil
      BY <1>1 DEF ValidationError
    <2> QED
      BY <2>1, <2>2, ErrorAssumption DEF Validate, Errors, RunErrors
  <1> QED
    BY <1>1, <1>2, <1>3, <1>4 DEF Promise!IsConversion, Converted, Loads

\* What a run has to write is what it may put into its output.
LEMMA MadeIsResult ==
    ASSUME Typed, Decided, Made, NEW p \in Proc, out[p] # Nil
    PROVE  out[p] \in Doc /\ Promise!Result(p, out[p])
  <1>1. out[p] \in Doc /\ inv[p] \in Invocation
    BY DEF Typed, TypeOK
  <1>2. CASE inv[p].cmd = "convert"
    <2>1. cfgData[p] \in Doc /\ ConversionError(inv[p], cfgData[p]) = Nil
      BY <1>2 DEF Decided, DecidedBy
    <2>2. Promise!IsConversion(inv[p], cfgData[p], out[p])
      BY <1>1, <1>2, <2>1, ConvertedIsConversion DEF Made
    <2>3. cfgData[p] # Nil
      BY <2>1, ConvertAssumption
    <2> QED
      BY <1>1, <1>2, <2>2, <2>3 DEF Promise!Result
  <1>3. CASE inv[p].cmd # "convert"
    <2>1. inv[p].cmd = "generate"
      BY <1>1, <1>3 DEF Invocation
    <2>2. PICK body \in Body : out[p] = Generated(inv[p], body)
      BY <1>3 DEF Made
    <2> QED
      BY <1>1, <2>1, <2>2 DEF Promise!Result, Generated
  <1> QED
    BY <1>2, <1>3

\* What the runs' labels say of their handles and fates, and of those after a step of p.
LEMMA Handles ==
    ASSUME TypeOK, NEW p \in Proc, NEW l, pc' = [pc EXCEPT ![p] = l],
           \A q \in Proc : q # p => outPath'[q] = outPath[q]
    PROVE  /\ Handle' = [Handle EXCEPT ![p] = IF l = "write" THEN outPath'[p] ELSE Nil]
           /\ Fate' = [Fate EXCEPT ![p] = IF l \in Running THEN "working"
                                          ELSE IF l = "done" THEN "succeeded" ELSE "failed"]
           /\ Handle[p] = (IF pc[p] = "write" THEN outPath[p] ELSE Nil)
           /\ pc[p] \in Running => Fate[p] = "working"
  <1>1. \A q \in Proc : pc'[q] = IF q = p THEN l ELSE pc[q]
    BY DEF TypeOK
  <1>2. Handle' = [q \in Proc |-> IF pc'[q] = "write" THEN outPath'[q] ELSE Nil]
    BY DEF Handle
  <1>3. Handle' = [Handle EXCEPT ![p] = IF l = "write" THEN outPath'[p] ELSE Nil]
    BY <1>1, <1>2 DEF Handle
  <1>4. Fate' = [q \in Proc |-> IF pc'[q] \in Running THEN "working"
                                ELSE IF pc'[q] = "done" THEN "succeeded" ELSE "failed"]
    BY DEF Fate
  <1>5. Fate' = [Fate EXCEPT ![p] = IF l \in Running THEN "working"
                                    ELSE IF l = "done" THEN "succeeded" ELSE "failed"]
    BY <1>1, <1>4 DEF Fate
  <1>6. Handle[p] = (IF pc[p] = "write" THEN outPath[p] ELSE Nil)
    BY DEF Handle
  <1>7. pc[p] \in Running => Fate[p] = "working"
    BY DEF Fate
  <1> QED
    BY <1>3, <1>5, <1>6, <1>7

\* A step between two labels, neither of which has the output open, is nobody's business.
LEMMA QuietStep ==
    ASSUME TypeOK, NEW p \in Proc, NEW l \in Running \ {"write"}, pc[p] \in Running \ {"write"},
           Goto(p, l), UNCHANGED <<fs, stdout, inv, cfgData>>,
           \A q \in Proc : q # p => outPath'[q] = outPath[q]
    PROVE  UNCHANGED Promise!vars
  <1>1. /\ Handle' = [Handle EXCEPT ![p] = Nil] /\ Handle[p] = Nil
        /\ Fate' = [Fate EXCEPT ![p] = "working"] /\ Fate[p] = "working"
    BY Handles DEF Goto
  <1>2. Handle' = Handle
    BY <1>1 DEF Handle
  <1>3. Fate' = Fate
    BY <1>1 DEF Fate
  <1> QED
    BY <1>2, <1>3 DEF Promise!vars

\* A run that ends without having touched anything quits.
LEMMA EndingStep ==
    ASSUME TypeOK, NEW p \in Proc, NEW l \in Ended \ {"done"}, pc[p] \in Running,
           Goto(p, l), UNCHANGED <<fs, stdout, inv, cfgData>>,
           \A q \in Proc : q # p => outPath'[q] = outPath[q]
    PROVE  Promise!Quit(p)
  <1>1. l \notin Running /\ l # "write" /\ l # "done"
    BY DEF Running, Ended
  <1>2. /\ Handle' = [Handle EXCEPT ![p] = Nil]
        /\ Fate' = [Fate EXCEPT ![p] = "failed"] /\ Fate[p] = "working"
    BY <1>1, Handles DEF Goto
  <1> QED
    BY <1>2 DEF Promise!Quit, Promise!End

\* Reading the source is hearing it.
LEMMA ReadIsHear ==
    ASSUME Typed, NEW p \in Proc, ReadSource(p)
    PROVE  Promise!Hear(p)
  <1>1. /\ pc[p] = "read" /\ pc' = [pc EXCEPT ![p] = "check"]
        /\ UNCHANGED <<fs, stdout, inv, outPath>>
    BY DEF ReadSource, Goto
  <1>2. /\ Handle' = [Handle EXCEPT ![p] = Nil] /\ Handle[p] = Nil
        /\ Fate' = [Fate EXCEPT ![p] = "working"] /\ Fate[p] = "working"
    <2>1. "check" \in Running /\ "read" \in Running /\ "check" # "write"
      BY DEF Running
    <2>2. TypeOK /\ \A q \in Proc : q # p => outPath'[q] = outPath[q]
      BY <1>1 DEF Typed
    <2>3. /\ Handle' = [Handle EXCEPT ![p] = IF "check" = "write" THEN outPath'[p] ELSE Nil]
          /\ Fate' = [Fate EXCEPT ![p] = IF "check" \in Running THEN "working"
                                         ELSE IF "check" = "done" THEN "succeeded" ELSE "failed"]
          /\ Handle[p] = (IF pc[p] = "write" THEN outPath[p] ELSE Nil)
          /\ pc[p] \in Running => Fate[p] = "working"
      BY <1>1, <2>2, Handles
    <2> QED
      BY <1>1, <2>1, <2>3
  <1>3. Handle' = Handle /\ Fate' = Fate
    BY <1>2 DEF Handle, Fate
  <1>4. cfgData[p] = Nil
    BY <1>1 DEF Typed, Progress
  <1>5. Promise!There(p) = SourceNode(p)
    BY SameTexts DEF Promise!There, SourceNode
  <1>6. PICK doc \in Readings(SourceNode(p)) : cfgData' = [cfgData EXCEPT ![p] = doc]
    BY DEF ReadSource
  <1>7. /\ doc \in Doc
        /\ IF SourceNode(p) \in Doc THEN doc = SourceNode(p) ELSE doc.by = "user"
        /\ SourceNode(p) = Empty => doc.ver = NoVersion
    <2>1. Empty \notin Doc
      BY ConvertAssumption
    <2>2. doc \in Doc
      BY ReadingsAreDocs
    <2> QED
      BY <2>1, <2>2 DEF Readings, EmptyText
  <1>8. SourceNode(p) # Absent
    BY DEF ReadSource
  <1>9. Promise!Source(inv[p]) = Stdin /\ Upstream[p] # NoProc => Fate[Upstream[p]] # "working"
    <2> SUFFICES ASSUME Source(inv[p]) = Stdin, Upstream[p] # NoProc
                 PROVE  Fate[Upstream[p]] # "working"
      BY SameTexts
    <2>1. pc[Upstream[p]] \in Ended /\ Upstream[p] \in Proc
      BY ConvertAssumption DEF ReadSource, PipeClosed
    <2>2. pc[Upstream[p]] \notin Running
      BY <2>1 DEF Running, Ended
    <2> QED
      BY <2>1, <2>2 DEF Fate
  <1> QED
    BY <1>1, <1>2, <1>3, <1>4, <1>5, <1>6, <1>7, <1>8, <1>9, SameTexts DEF Promise!Hear

\* Opening a file, or coming to write to standard output, is opening the output.
LEMMA OpenIsOpen ==
    ASSUME Typed, NEW p \in Proc, pc[p] \in Running \ {"write"},
           NEW path \in FilePath \cup {Stdout}, NEW text \in Doc,
           Promise!Result(p, text), Promise!IsTarget(inv[p], path), Goto(p, "write"),
           outPath'[p] = path, \A q \in Proc : q # p => outPath'[q] = outPath[q],
           fs' = IF path = Stdout THEN fs ELSE [fs EXCEPT ![path] = Empty],
           UNCHANGED <<stdout, inv, cfgData>>
    PROVE  Promise!Open(p)
  <1>1. /\ Handle' = [Handle EXCEPT ![p] = path] /\ Handle[p] = Nil
        /\ Fate' = [Fate EXCEPT ![p] = "working"] /\ Fate[p] = "working"
    BY Handles DEF Typed, Goto, Running
  <1>2. Fate' = Fate
    BY <1>1 DEF Fate
  <1>3. \E doc \in Promise!Doc : Promise!Result(p, doc)
    BY SameTexts
  <1> QED
    BY <1>1, <1>2, <1>3 DEF Promise!Open

\* The path determineOutputPath settles on is the output asked for.
LEMMA PathIsTarget ==
    ASSUME NEW i \in Invocation, i.cmd = "convert", NEW doc, ConversionError(i, doc) = Nil
    PROVE  Promise!IsTarget(i, determineOutputPath(i))
  <1>1. SrcFormat(i) \in Format
    BY SrcFormatType, ErrorAssumption DEF ConversionError, Errors, RunErrors
  <1>2. i.out \in Dirs /\ i.format = Unset => determineOutputPath(i) # Source(i)
    BY <1>1, NamedFileIsAnother
  <1>3. i.out \notin Dirs => determineOutputPath(i) = i.out
    BY DEF determineOutputPath
  <1> QED
    BY <1>2, <1>3, SameTexts DEF Promise!IsTarget

\* A write of everything publishes, spoils what somebody else has in the file, or finds
\* the file gone.
LEMMA WriteAllStep ==
    ASSUME Typed, Decided, Made, NEW p \in Proc, pc[p] = "write", WriteAll(p),
           NEW l \in {"done", "killed"}, Goto(p, l), UNCHANGED <<inv, cfgData, outPath>>
    PROVE  Promise!Publish(p) \/ Promise!Spoil(p) \/ Promise!Quit(p)
  <1>1. out[p] \in Doc /\ outPath[p] \in FilePath \cup {Stdout}
    BY DEF Typed, Progress
  <1>2. Promise!Result(p, out[p])
    BY <1>1, MadeIsResult, ConvertAssumption
  <1>3. /\ Handle' = [Handle EXCEPT ![p] = Nil] /\ Handle[p] = outPath[p]
        /\ Fate' = [Fate EXCEPT ![p] = IF l = "done" THEN "succeeded" ELSE "failed"]
        /\ Fate[p] = "working"
    BY Handles DEF Typed, Goto, Running
  <1>4. \/ Promise!End(p, "failed")
        \/ l = "done" /\ Promise!End(p, "succeeded")
    BY <1>3 DEF Promise!End
  <1>5. CASE outPath[p] = Stdout
    <2>1. Promise!Put(p, out[p])
      BY <1>3, <1>5 DEF WriteAll, Promise!Put
    <2>2. Handle[p] \notin FilePath
      BY <1>3, <1>5, ConvertAssumption
    <2> QED
      BY <1>1, <1>2, <1>3, <1>4, <2>1, <2>2, SameTexts DEF Promise!Publish
  <1>6. CASE outPath[p] # Stdout
    <2>1. outPath[p] \in FilePath /\ stdout' = stdout
      BY <1>1, <1>6 DEF WriteAll
    <2>2. PICK node \in Overwritten(fs[outPath[p]], out[p]) :
             fs' = [fs EXCEPT ![outPath[p]] = node]
      BY <1>6 DEF WriteAll
    <2>3. Promise!Put(p, node)
      BY <1>3, <2>1, <2>2 DEF Promise!Put
    <2>4. CASE fs[outPath[p]] = Absent
      <3>1. fs' = fs
        BY <2>1, <2>2, <2>4 DEF Overwritten, Typed, TypeOK
      <3> QED
        BY <1>3, <1>4, <2>1, <2>4, <3>1 DEF Promise!Quit
    <2>5. CASE fs[outPath[p]] # Absent /\ node = out[p]
      BY <1>1, <1>2, <1>3, <1>4, <2>1, <2>3, <2>5, SameTexts DEF Promise!Publish
    <2>6. CASE fs[outPath[p]] # Absent /\ node # out[p]
      <3>1. node = Torn /\ fs[outPath[p]] # Empty
        BY <2>2, <2>6 DEF Overwritten
      <3> QED
        BY <1>3, <1>4, <2>1, <2>3, <2>6, <3>1 DEF Promise!Spoil, Promise!Disturbed
    <2> QED
      BY <2>4, <2>5, <2>6
  <1> QED
    BY <1>5, <1>6

\* An interrupted write spoils the output or has not reached it.
LEMMA WriteSomeStep ==
    ASSUME Typed, Outputs, NEW p \in Proc, pc[p] = "write", WriteSome(p),
           NEW l \in {"failed", "killed"}, Goto(p, l), UNCHANGED <<inv, cfgData, outPath>>
    PROVE  Promise!Spoil(p) \/ Promise!Quit(p)
  <1>1. outPath[p] \in FilePath \cup {Stdout}
    BY DEF Typed, Progress
  <1>2. /\ Handle' = [Handle EXCEPT ![p] = Nil] /\ Handle[p] = outPath[p]
        /\ Fate' = [Fate EXCEPT ![p] = "failed"] /\ Fate[p] = "working"
    BY Handles DEF Typed, Goto, Running
  <1>3. Promise!End(p, "failed")
    BY <1>2 DEF Promise!End
  <1>4. CASE outPath[p] = Stdout
    <2>1. stdout[p] = Empty
      BY <1>4 DEF Outputs, OpenedIsEmpty
    <2>2. PICK node \in {Empty, Torn} : stdout' = [stdout EXCEPT ![p] = node]
      BY <1>4 DEF WriteSome
    <2>3. fs' = fs
      BY <1>4 DEF WriteSome
    <2>4. Handle[p] \notin FilePath
      BY <1>2, <1>4, ConvertAssumption
    <2>5. CASE node = Empty
      <3>1. stdout' = stdout
        BY <2>1, <2>2, <2>5 DEF Typed, TypeOK
      <3> QED
        BY <1>2, <1>3, <2>3, <3>1 DEF Promise!Quit
    <2>6. CASE node = Torn
      <3>1. Promise!Put(p, Torn)
        BY <1>2, <1>4, <2>2, <2>3, <2>6 DEF Promise!Put
      <3> QED
        BY <1>2, <1>3, <2>4, <3>1 DEF Promise!Spoil
    <2> QED
      BY <2>2, <2>5, <2>6
  <1>5. CASE outPath[p] # Stdout
    <2>1. outPath[p] \in FilePath /\ stdout' = stdout
      BY <1>1, <1>5 DEF WriteSome
    <2>2. PICK node \in {fs[outPath[p]], IF fs[outPath[p]] = Absent THEN Absent ELSE Torn} :
             fs' = [fs EXCEPT ![outPath[p]] = node]
      BY <1>5 DEF WriteSome
    <2>3. CASE node = fs[outPath[p]]
      <3>1. fs' = fs
        BY <2>1, <2>2, <2>3 DEF Typed, TypeOK
      <3> QED
        BY <1>2, <1>3, <2>1, <3>1 DEF Promise!Quit
    <2>4. CASE node # fs[outPath[p]]
      <3>1. node = Torn /\ fs[outPath[p]] # Absent
        BY <2>2, <2>4
      <3>2. Promise!Put(p, Torn)
        BY <1>2, <2>1, <2>2, <3>1 DEF Promise!Put
      <3> QED
        BY <1>2, <1>3, <3>1, <3>2 DEF Promise!Spoil
    <2> QED
      BY <2>3, <2>4
  <1> QED
    BY <1>4, <1>5

\* A run on its way keeps to itself, or gives up.
LEMMA InwardStep ==
    ASSUME Typed, NEW p \in Proc,
           StatSource(p) \/ ReadSourceFails(p) \/ CheckFlags(p) \/ ProcessConfig(p)
             \/ StartGenerate(p) \/ FetchFails(p) \/ OpenOutputFails(p)
    PROVE  Promise!Quit(p) \/ UNCHANGED Promise!vars
  <1>1. /\ UNCHANGED <<fs, stdout, inv, cfgData, outPath>>
        /\ pc[p] \in Running \ {"write"}
        /\ \E l \in {"failed", "fetch", "read", "convert", "resolve"} : Goto(p, l)
    BY DEF StatSource, ReadSourceFails, CheckFlags, ProcessConfig, StartGenerate, FetchFails,
       OpenOutputFails, Fail, Running
  <1>2. PICK l \in {"failed", "fetch", "read", "convert", "resolve"} : Goto(p, l)
    BY <1>1
  <1>3. TypeOK /\ \A q \in Proc : q # p => outPath'[q] = outPath[q]
    BY <1>1 DEF Typed
  <1>4. CASE l = "failed"
    <2>1. l \in Ended \ {"done"}
      BY <1>4 DEF Ended
    <2> QED
      BY <1>1, <1>2, <1>3, <2>1, EndingStep
  <1>5. CASE l # "failed"
    <2>1. l \in Running \ {"write"}
      BY <1>5 DEF Running
    <2> QED
      BY <1>1, <1>2, <1>3, <2>1, QuietStep
  <1> QED
    BY <1>4, <1>5

\* determineOutputPath opens nothing, but standard output is open already.
LEMMA ResolveStep ==
    ASSUME Typed, Decided, Made, NEW p \in Proc, ResolveOutput(p)
    PROVE  Promise!Open(p) \/ Promise!Quit(p) \/ UNCHANGED Promise!vars
  <1>1. /\ UNCHANGED <<fs, stdout, inv, cfgData, out>> /\ TypeOK
        /\ pc[p] = "resolve" /\ pc[p] \in Running \ {"write"}
    BY DEF ResolveOutput, Running, Typed
  <1>2. CASE inv[p].out = Unstatable
    <2>1. "panicked" \in Ended \ {"done"} /\ Goto(p, "panicked") /\ outPath' = outPath
      BY <1>2 DEF ResolveOutput, Ended
    <2> QED
      BY <1>1, <2>1, EndingStep
  <1>3. CASE inv[p].out # Unstatable
    <2> DEFINE path == determineOutputPath(inv[p])
    <2>1. /\ outPath' = [outPath EXCEPT ![p] = path]
          /\ Goto(p, IF outPath'[p] = Stdout THEN "write" ELSE "open")
      BY <1>3 DEF ResolveOutput
    <2>2. outPath'[p] = path /\ \A q \in Proc : q # p => outPath'[q] = outPath[q]
      BY <2>1 DEF Typed, TypeOK
    <2>3. CASE path # Stdout
      <3>1. "open" \in Running \ {"write"} /\ Goto(p, "open")
        BY <2>1, <2>2, <2>3 DEF Running
      <3> HIDE DEF path
      <3> QED
        BY <1>1, <2>2, <3>1, QuietStep
    <2>4. CASE path = Stdout
      <3>1. out[p] # Nil /\ inv[p].cmd = "convert" /\ inv[p] \in Invocation
        BY <1>1, ConvertAssumption DEF Typed, TypeOK, Progress, Decided, DecidedBy
      <3>2. out[p] \in Doc /\ Promise!Result(p, out[p])
        BY <3>1, MadeIsResult
      <3>3. ConversionError(inv[p], cfgData[p]) = Nil
        BY <3>1 DEF Decided, DecidedBy
      <3>4. Promise!IsTarget(inv[p], path)
        BY <3>1, <3>3, PathIsTarget
      <3>5. Goto(p, "write") /\ outPath'[p] = Stdout
        BY <2>1, <2>2, <2>4
      <3>6. Promise!IsTarget(inv[p], Stdout)
        BY <2>4, <3>4
      <3> HIDE DEF path
      <3> QED
        BY <1>1, <2>2, <3>2, <3>5, <3>6, OpenIsOpen
    <2> QED
      BY <2>3, <2>4
  <1> QED
    BY <1>2, <1>3

\* What generate fetches is a result; its standard output is then open.
LEMMA FetchStep ==
    ASSUME Typed, Decided, NEW p \in Proc, FetchConfig(p)
    PROVE  Promise!Open(p) \/ Promise!Quit(p) \/ UNCHANGED Promise!vars
  <1>1. /\ UNCHANGED <<fs, stdout, inv, cfgData>> /\ TypeOK
        /\ pc[p] = "fetch" /\ pc[p] \in Running \ {"write"}
    BY DEF FetchConfig, Running, Typed
  <1>2. CASE inv[p].out \in Dirs \cup {Unstatable}
    <2>1. "failed" \in Ended \ {"done"} /\ Goto(p, "failed") /\ outPath' = outPath
      BY <1>2 DEF FetchConfig, Fail, Ended
    <2> QED
      BY <1>1, <2>1, EndingStep
  <1>3. CASE inv[p].out \notin Dirs \cup {Unstatable}
    <2>1. /\ outPath' = [outPath EXCEPT ![p] = inv[p].out]
          /\ Goto(p, IF inv[p].out = Stdout THEN "write" ELSE "open")
      BY <1>3 DEF FetchConfig
    <2>2. outPath'[p] = inv[p].out /\ \A q \in Proc : q # p => outPath'[q] = outPath[q]
      BY <2>1 DEF Typed, TypeOK
    <2>3. CASE inv[p].out # Stdout
      <3>1. "open" \in Running \ {"write"} /\ Goto(p, "open")
        BY <2>1, <2>3 DEF Running
      <3> QED
        BY <1>1, <2>2, <3>1, QuietStep
    <2>4. CASE inv[p].out = Stdout
      <3>1. inv[p].cmd = "generate" /\ inv[p] \in Invocation
        BY <1>1 DEF Decided, DecidedBy, TypeOK
      <3>2. PICK body \in Body : out' = [out EXCEPT ![p] = Generated(inv[p], body)]
        BY DEF FetchConfig
      <3>3. Generated(inv[p], body) \in Doc
        BY <3>1, GeneratedType DEF FetchConfig
      <3>4. Promise!Result(p, Generated(inv[p], body))
        BY <3>1 DEF Promise!Result, Generated
      <3>5. Promise!IsTarget(inv[p], Stdout) /\ Goto(p, "write") /\ outPath'[p] = Stdout
        BY <1>3, <2>1, <2>2, <2>4 DEF Promise!IsTarget
      <3> QED
        BY <1>1, <2>2, <3>3, <3>4, <3>5, OpenIsOpen
    <2> QED
      BY <2>3, <2>4
  <1> QED
    BY <1>2, <1>3

\* The file that os.OpenFile truncates is the output asked for.
LEMMA OpenStep ==
    ASSUME Typed, Decided, Made, NEW p \in Proc, OpenOutput(p)
    PROVE  Promise!Open(p)
  <1>1. /\ UNCHANGED <<stdout, inv, cfgData, outPath>> /\ TypeOK
        /\ pc[p] = "open" /\ pc[p] \in Running \ {"write"} /\ Goto(p, "write")
        /\ fs' = [fs EXCEPT ![outPath[p]] = Empty]
    BY DEF OpenOutput, Running, Typed
  <1>2. outPath[p] \in FilePath /\ outPath[p] # Stdout /\ outPath[p] # Nil /\ out[p] # Nil
        /\ inv[p] \in Invocation
    BY <1>1, ConvertAssumption DEF Typed, Progress, TypeOK
  <1>3. out[p] \in Doc /\ Promise!Result(p, out[p])
    BY <1>2, MadeIsResult
  <1>4. Promise!IsTarget(inv[p], outPath[p])
    <2>1. CASE inv[p].cmd = "convert"
      <3>1. /\ outPath[p] = determineOutputPath(inv[p])
            /\ ConversionError(inv[p], cfgData[p]) = Nil
        BY <1>2, <2>1 DEF Decided, DecidedBy
      <3> QED
        BY <1>2, <2>1, <3>1, PathIsTarget
    <2>2. CASE inv[p].cmd # "convert"
      BY <1>2, <2>2 DEF Decided, DecidedBy, Promise!IsTarget
    <2> QED
      BY <2>1, <2>2
  <1> QED
    BY <1>1, <1>2, <1>3, <1>4, OpenIsOpen

\* Whatever a run does is a step of the publication, or nothing to it.
LEMMA RunStep ==
    ASSUME Typed, Decided, Made, Outputs, NEW p \in Proc, Step(p) \/ Kill(p)
    PROVE  Promise!Next \/ UNCHANGED Promise!vars
  <1> SUFFICES \/ Promise!Hear(p) \/ Promise!Open(p) \/ Promise!Publish(p)
               \/ Promise!Spoil(p) \/ Promise!Quit(p) \/ UNCHANGED Promise!vars
    BY DEF Promise!Next
  <1>1. CASE StatSource(p) \/ ReadSourceFails(p) \/ CheckFlags(p) \/ ProcessConfig(p)
               \/ StartGenerate(p) \/ FetchFails(p) \/ OpenOutputFails(p)
    BY <1>1, InwardStep
  <1>2. CASE ReadSource(p)
    BY <1>2, ReadIsHear
  <1>3. CASE ResolveOutput(p)
    BY <1>3, ResolveStep
  <1>4. CASE FetchConfig(p)
    BY <1>4, FetchStep
  <1>5. CASE OpenOutput(p)
    BY <1>5, OpenStep
  <1>6. CASE WriteOutput(p)
    <2>1. /\ pc[p] = "write" /\ WriteAll(p) /\ Goto(p, "done")
          /\ UNCHANGED <<inv, cfgData, outPath>>
      BY <1>6 DEF WriteOutput
    <2> QED
      BY <2>1, WriteAllStep
  <1>7. CASE WriteOutputFails(p)
    <2>1. /\ pc[p] = "write" /\ WriteSome(p) /\ Goto(p, "failed")
          /\ UNCHANGED <<inv, cfgData, outPath>>
      BY <1>7 DEF WriteOutputFails, Fail
    <2> QED
      BY <2>1, WriteSomeStep
  <1>8. CASE Kill(p)
    <2>1. /\ pc[p] \in Running /\ Goto(p, "killed") /\ UNCHANGED <<inv, cfgData, outPath>>
          /\ "killed" \in Ended \ {"done"}
      BY <1>8 DEF Kill, Ended
    <2>2. CASE pc[p] = "write"
      <3>1. WriteSome(p) \/ WriteAll(p)
        BY <1>8, <2>2 DEF Kill
      <3> QED
        BY <2>1, <2>2, <3>1, WriteSomeStep, WriteAllStep
    <2>3. CASE pc[p] # "write"
      <3>1. UNCHANGED <<fs, stdout>> /\ TypeOK
            /\ \A q \in Proc : q # p => outPath'[q] = outPath[q]
        BY <1>8, <2>1, <2>3 DEF Kill, Typed
      <3> QED
        BY <2>1, <3>1, EndingStep
    <2> QED
      BY <2>2, <2>3
  <1> QED
    BY <1>1, <1>2, <1>3, <1>4, <1>5, <1>6, <1>7, <1>8 DEF Step

\* Other programs do what they may.
LEMMA EditStep ==
    ASSUME Typed, NEW f \in EditPaths, Edit(f)
    PROVE  Promise!Edit(f) /\ f \in FilePath
  <1>1. f \in FilePath
    BY ConvertAssumption
  <1>2. PICK node \in EditNodes : fs' = [fs EXCEPT ![f] = node]
    BY DEF Edit
  <1>3. fs'[f] = node
    BY <1>1, <1>2 DEF Typed, TypeOK
  <1>4. Promise!Users(node)
    BY ProvenanceAssumption, SameTexts DEF Promise!Users
  <1>5. UNCHANGED <<Handle, Fate>>
    BY DEF Edit, Handle, Fate
  <1>6. UNCHANGED <<stdout, inv, cfgData>>
    BY DEF Edit
  <1> QED
    BY <1>1, <1>2, <1>3, <1>4, <1>5, <1>6 DEF Promise!Edit

\* The sessions start as the publication does.
LEMMA PublicationInit == Init => Promise!Init
  <1> SUFFICES ASSUME Init PROVE Promise!Init OBVIOUS
  <1>1. \A f \in FilePath : Promise!Users(fs[f])
    BY ProvenanceAssumption, SameTexts DEF Init, Promise!Users
  <1>2. \A p \in Proc : Promise!Users(inv[p].stdin)
    BY ProvenanceAssumption, SameTexts DEF Init, Promise!Users
  <1>3. Handle = [p \in Proc |-> Nil]
    BY DEF Init, Handle
  <1>4. Fate = [p \in Proc |-> "working"]
    BY DEF Init, Fate, Running
  <1> QED
    BY <1>1, <1>2, <1>3, <1>4 DEF Init, Promise!Init

\* For any number of runs, over any files and pipes, with other programs changing the
\* files and runs failing or killed anywhere: what they do comes to runs that hear
\* their source at one moment and put a conversion of it, whole and at one moment,
\* into the output they opened for it (convert.go and generate.go as a whole).
THEOREM PublicationIsImplemented == Spec => ImplementsPublication
  <1>1. Init => Typed /\ Decided /\ Made /\ Outputs
    BY TypedInit, DecidedInit, OutputsInit DEF Init, Made
  <1>2. Typed /\ Decided /\ Made /\ Outputs /\ [Next]_vars
            => (Typed /\ Decided /\ Made /\ Outputs)'
    BY TypedNext, DecidedNext, MadeNext, OutputsNext
  <1>3. Typed /\ Decided /\ Made /\ Outputs /\ [Next]_vars => [Promise!Next]_Promise!vars
    <2> SUFFICES ASSUME Typed, Decided, Made, Outputs, [Next]_vars
                 PROVE  Promise!Next \/ UNCHANGED Promise!vars
      OBVIOUS
    <2>1. ASSUME NEW f \in EditPaths, Edit(f) PROVE Promise!Next
      BY <2>1, EditStep DEF Promise!Next
    <2>2. ASSUME UNCHANGED vars PROVE UNCHANGED Promise!vars
      BY <2>2 DEF vars, Promise!vars, Handle, Fate
    <2> QED
      BY <2>1, <2>2, RunStep DEF Next, Finished
  <1> QED
    BY PublicationInit, <1>1, <1>2, <1>3, PTL DEF Spec, ImplementsPublication, Promise!Spec

=============================================================================
