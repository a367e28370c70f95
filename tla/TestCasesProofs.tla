--------------------------- MODULE TestCasesProofs ---------------------------
(***************************************************************************)
(* Theorems about TestCases, for any number of runs, cases and sources:    *)
(* type correctness, with what it says of files and directories; that runs *)
(* which do not overwrite keep each other's cases; that a case with its    *)
(* versions.json whole has both tests, which pass; that only a run cut off *)
(* leaves a directory the suite cannot read; that a run which comes to its *)
(* end leaves its case whole; and that obfuscated names are told apart,    *)
(* however many lines there are.                                           *)
(***************************************************************************)
EXTENDS TestCases, TLAPS, FiniteSetTheorems

-----------------------------------------------------------------------------
(* What the steps compute.                                                  *)

\* What a run reads is a text.
LEMMA ReadingsAreDocs ==
    ASSUME NEW node, NEW doc \in Readings(node)
    PROVE  doc \in Doc
  <1>1. EmptyText(EmptyBody) \in Doc /\ EmptyText(Unparsable) \in Doc
    BY ContentsAssumption DEF EmptyText, Doc, Format
  <1> QED
    BY <1>1 DEF Readings

\* What becomes of a configuration is a configuration with the lines that are left of it.
LEMMA ProcessedIsBody ==
    ASSUME NEW b \in Body, NEW o \in BOOLEAN
    PROVE  /\ Processed[o][b] \in Body
           /\ Declarations[Processed[o][b]] = processFileData(Declarations[b], o)
  <1> DEFINE P(c) == Declarations[c] = processFileData(Declarations[b], o)
  <1>1. Processed[o][b] = CHOOSE c \in Body : P(c)
    BY DEF Processed
  <1>2. \E c \in Body : P(c)
    BY DeclarationsAssumption
  <1> HIDE DEF P
  <1>3. Processed[o][b] \in Body /\ P(Processed[o][b])
    BY <1>1, <1>2
  <1> QED
    BY <1>3 DEF P

\* A copy of a text is a text.
LEMMA CopiedType ==
    ASSUME NEW p \in Run, cmd \in [Run -> Command], NEW doc \in Doc
    PROVE  Copied(p, doc) \in Doc
  <1>1. Obfuscates(p, doc) \in BOOLEAN
    BY DEF Obfuscates
  <1>2. doc.body # Unparsable => Processed[Obfuscates(p, doc)][doc.body] \in Body
    BY <1>1, ProcessedIsBody DEF Doc
  <1> QED
    BY <1>2 DEF Copied, Doc

\* A conversion that meets no error yields a text.
LEMMA ConvertedType ==
    ASSUME NEW p \in Run, cmd \in [Run -> Command], cmd[p].source # NoSource,
           NEW doc \in Doc, ConversionError(ChildArgs(p), doc) = Nil
    PROVE  Converted(ChildArgs(p), doc) \in Doc
  <1>1. SrcFormat(ChildArgs(p)) \in Format \cup {Invalid}
    BY DEF SrcFormat, getConfFileFormat, ParseFmtString, Format
  <1>2. determineOutputFormat(SrcFormat(ChildArgs(p))) \in Format \cup {Invalid}
    BY DEF determineOutputFormat, Format
  <1>3. SrcFormat(ChildArgs(p)) # Invalid
    BY ErrorAssumption DEF ConversionError
  <1>4. determineOutputFormat(SrcFormat(ChildArgs(p))) \in Format
    BY <1>1, <1>3 DEF determineOutputFormat, Format, YAML, AeroConfig
  <1>5. ResolvedVersion(ChildArgs(p), doc) \in Version \cup {NoVersion}
    BY ContentsAssumption DEF ResolvedVersion, MetaVersion, ChildArgs, Command, Doc
  <1>6. ChildArgs(p).force = FALSE
    BY DEF ChildArgs
  <1> QED
    BY <1>4, <1>5, <1>6 DEF Converted, Doc

\* Every file a run writes is one of its case's.
LEMMA TargetType ==
    ASSUME NEW p \in Run, cmd \in [Run -> Command], cmd[p].source # NoSource,
           pc[p] \in Written
    PROVE  Target(p) \in FilePath /\ Target(p).dir = CaseOf(p) /\ CaseOf(p) \in Case
  <1>1. cmd[p].source \in [dir : Case \cup {Outside}, base : Case, ext : {"yaml", "conf", "txt"}]
    BY DEF Command
  <1>2. CASE pc[p] = "copy"
    BY <1>1, <1>2 DEF Target, CopiedSrcPath, ConfigFile, CaseOf, FilePath
  <1>3. CASE pc[p] = "result"
    <2>1. ResultPath(p).ext \in {"yaml", "conf"}
      BY DEF ResultPath, ConfigFile, OutputExt
    <2> QED
      BY <1>1, <1>3, <2>1 DEF Target, ResultPath, ConfigFile, CaseOf, FilePath
  <1>4. CASE pc[p] \in JsonName
    <2>1. Target(p) = JsonFile(CaseOf(p), pc[p])
      BY <1>4 DEF Target, JsonName
    <2> QED
      BY <1>1, <1>4, <2>1 DEF JsonFile, CaseOf, FilePath
  <1> QED
    BY <1>2, <1>3, <1>4 DEF Written, JsonName

\* What it writes there is a text, a test or a version.
LEMMA DataType ==
    ASSUME NEW p \in Run, cmd \in [Run -> Command], cmd[p].source # NoSource,
           pc[p] \in Written, pc[p] \in {"copy", "result"} => text[p] \in Doc
    PROVE  Data(p) \in Doc \cup TestData \cup Versions
  <1>1. CaseOf(p) \in Case /\ cmd[p].ver \in Version
    BY DEF Command, CaseOf
  <1>2. ConfigFile(CaseOf(p), "yaml") \in FilePath /\ ConfigFile(CaseOf(p), "conf") \in FilePath
    BY <1>1 DEF ConfigFile, FilePath
  <1>3. Test(p, "yaml") \in TestData /\ Test(p, "asconfig") \in TestData
    BY <1>1, <1>2 DEF Test, TestData
  <1>4. [testedVersion |-> cmd[p].ver] \in Versions
    BY <1>1 DEF Versions
  <1>5. CASE pc[p] \in {"copy", "result"}
    BY <1>5 DEF Data
  <1>6. CASE pc[p] = "yaml-tests"
    BY <1>3, <1>6 DEF Data
  <1>7. CASE pc[p] = "conf-tests"
    BY <1>3, <1>7 DEF Data
  <1>8. CASE pc[p] = "versions"
    BY <1>4, <1>8 DEF Data
  <1> QED
    BY <1>5, <1>6, <1>7, <1>8 DEF Written

-----------------------------------------------------------------------------
(* Type correctness.                                                        *)

\* What is known of a run from the label it is at.
Progress ==
    \A p \in Run :
        /\ cmd[p].source = NoSource => pc[p] \in {"setup", "refused"}
        /\ file[p] # "none" => pc[p] \in Written \cup {"remove"}
        /\ file[p] = "linked" /\ pc[p] \in Written => fs[Target(p)] # Absent
        /\ pc[p] \in {"copy", "result"} => text[p] \in Doc

Typed == TypeOK /\ Progress

\* No run has passed a step yet.
LEMMA TypedInit == Init => Typed
  <1> SUFFICES ASSUME Init PROVE Typed OBVIOUS
  <1>1. cmd \in [Run -> Command]
    BY TestCasesAssumption DEF Init
  <1>2. fs \in [FilePath -> Node]
    BY TestCasesAssumption DEF Init
  <1>3. \A f \in FilePath : f.dir \in Case \cup {Outside}
    BY DEF FilePath
  <1>4. dirs \in SUBSET Case
    BY <1>3 DEF Init
  <1>5. \A f \in FilePath : fs[f] # Absent => f.dir \in dirs \cup {Outside}
    BY DEF Init
  <1>6. \A p \in Run : pc[p] = "setup" /\ file[p] = "none"
    BY DEF Init
  <1>7. TypeOK
    BY <1>1, <1>2, <1>4, <1>5, <1>6 DEF Init, TypeOK, Handle
  <1>8. Progress
    BY <1>6 DEF Progress
  <1> QED
    BY <1>7, <1>8 DEF Typed

\* Where a run writes depends on its label and its command line only.
LEMMA TargetStays ==
    ASSUME NEW p \in Run, cmd' = cmd, pc'[p] = pc[p]
    PROVE  Target(p)' = Target(p)
  BY DEF Target, CopiedSrcPath, ResultPath, ChildArgs, CaseOf

\* A run that is about to write has a case, and something to write there.
LEMMA WriterType ==
    ASSUME Typed, NEW p \in Run, pc[p] \in Written
    PROVE  /\ cmd[p].source # NoSource
           /\ Target(p) \in FilePath /\ Target(p).dir = CaseOf(p) /\ CaseOf(p) \in Case
           /\ Data(p) \in Node \ {Absent}
           /\ file[p] = "linked" => CaseOf(p) \in dirs /\ fs[Target(p)] # Absent
  <1>1. cmd[p].source # NoSource /\ cmd \in [Run -> Command]
    BY DEF Typed, TypeOK, Progress, Written
  <1>2. pc[p] \in {"copy", "result"} => text[p] \in Doc
    BY DEF Typed, Progress
  <1>3. Data(p) \in Node \ {Absent}
    BY <1>1, <1>2, DataType, TestCasesAssumption DEF Node
  <1> QED
    BY <1>1, <1>3, TargetType DEF Typed, TypeOK, Progress

\* Only a run's own steps move it, and only while it is at a step.
LEMMA TypedNext == Typed /\ [Next]_vars => Typed'
  <1> SUFFICES ASSUME Typed, [Next]_vars PROVE Typed'
    OBVIOUS
  <1>0. /\ cmd \in [Run -> Command]
        /\ Absent \in Node /\ Empty \in Node /\ Torn \in Node
        /\ Doc \cup TestData \cup Versions \subseteq Node \ {Absent, Empty, Torn}
        /\ Absent # Empty /\ Absent # Torn
        /\ Outside \notin Case
    BY TestCasesAssumption DEF Typed, TypeOK, Node
  <1> DEFINE Label == {"setup"} \cup Running \cup Ended
             Elsewhere(p) == \A q \in Run : q # p => /\ pc'[q] = pc[q] /\ file'[q] = file[q]
                                                    /\ text'[q] = text[q]
  <1>1. ASSUME NEW p \in Run, NEW l \in Label, Goto(p, l), UNCHANGED <<fs, cmd, owner>>,
               dirs \subseteq dirs', dirs' \in SUBSET Case,
               UNCHANGED text \/ \E doc \in Doc \cup {Nil} : text' = [text EXCEPT ![p] = doc],
               file' = file \/ file' = [file EXCEPT ![p] = "none"],
               l \notin {"setup", "refused"} => cmd[p].source # NoSource,
               file'[p] = "none",
               l \in {"copy", "result"} => text'[p] \in Doc
        PROVE  Typed'
    <2>1. Elsewhere(p)
      BY <1>1 DEF Goto, Typed, TypeOK
    <2>2. pc'[p] = l /\ pc' \in [Run -> Label]
      BY <1>1 DEF Goto, Typed, TypeOK
    <2>3. text' \in [Run -> Doc \cup {Nil}] /\ file' \in [Run -> Handle]
      BY <1>1 DEF Typed, TypeOK, Handle
    <2>4. TypeOK'
      BY <1>1, <2>1, <2>2, <2>3 DEF Typed, TypeOK, CaseOf
    <2>5. Progress'
      BY <1>1, <2>1, <2>2, TargetStays DEF Typed, Progress
    <2> QED BY <2>4, <2>5 DEF Typed
  <1>2. ASSUME NEW p \in Run, Setup(p) PROVE Typed'
    <2>1. file[p] = "none"
      BY <1>2 DEF Setup, Typed, TypeOK, Progress, Written, Handle
    <2>2. PICK l \in {"refused", "mkdir", "remove"} :
             Goto(p, l) /\ (l # "refused" => cmd[p].source # NoSource)
      BY <1>2 DEF Setup
    <2> QED
      BY <1>1, <1>2, <2>1, <2>2 DEF Setup, Running, Ended, Typed, TypeOK
  <1>3. ASSUME NEW p \in Run, RemoveFile(p) PROVE Typed'
    <2>1. PICK f \in FilePath : /\ f.dir = CaseOf(p) /\ fs[f] # Absent
                                /\ fs' = [fs EXCEPT ![f] = Absent]
                                /\ owner' = [owner EXCEPT ![f] = Nobody]
                                /\ file' = [Unlinked(f) EXCEPT ![p] = "linked"]
      BY <1>3 DEF RemoveFile
    <2>2. \A q \in Run : q # p => \/ file'[q] = file[q] /\ (pc[q] \in Written /\ file[q] = "linked" => Target(q) # f)
                                  \/ file'[q] = "unlinked" /\ file[q] = "linked" /\ pc[q] \in Written
      BY <2>1 DEF Unlinked
    <2>3. file'[p] = "linked" /\ file' \in [Run -> Handle]
      BY <2>1 DEF Unlinked, Typed, TypeOK, Handle
    <2>4. fs' \in [FilePath -> Node] /\ owner' \in [FilePath -> Run \cup {Nobody}]
      BY <1>0, <2>1 DEF Typed, TypeOK
    <2>5. \A g \in FilePath : fs'[g] # Absent => fs[g] # Absent
      BY <2>1 DEF Typed, TypeOK
    <2>6. CaseOf(p) \in dirs /\ pc[p] = "remove"
      BY <1>3 DEF RemoveFile
    <2>7. TypeOK'
      BY <1>3, <2>2, <2>3, <2>4, <2>5, <2>6 DEF RemoveFile, Typed, TypeOK, CaseOf
    <2>8. ASSUME NEW q \in Run, file'[q] = "linked", pc[q] \in Written PROVE fs'[Target(q)] # Absent
      <3>1. q # p
        BY <2>6, <2>8 DEF Written
      <3>2. Target(q) \in FilePath /\ Target(q) # f /\ file[q] = "linked"
        BY <1>0, <2>2, <2>8, <3>1, TargetType DEF Typed, Progress, Written
      <3> QED
        BY <2>1, <2>8, <3>2 DEF Typed, TypeOK, Progress
    <2>9. Progress'
      BY <1>3, <2>2, <2>6, <2>8, TargetStays DEF RemoveFile, Typed, Progress
    <2> QED BY <2>7, <2>9 DEF Typed
  <1>4. ASSUME NEW p \in Run, RemoveDir(p) PROVE Typed'
    <2>1. \A f \in FilePath : f.dir = CaseOf(p) => fs[f] = Absent
      BY <1>4 DEF RemoveDir
    <2>2. /\ file'[p] = "none" /\ pc'[p] = "mkdir" /\ UNCHANGED <<fs, cmd, text, owner>>
          /\ pc' \in [Run -> Label] /\ file' \in [Run -> Handle]
          /\ dirs' = dirs \ {CaseOf(p)}
          /\ cmd[p].source # NoSource
      BY <1>4 DEF RemoveDir, Goto, Typed, TypeOK, Progress, Handle, Running
    <2>3. \A q \in Run : q # p =>
             /\ pc'[q] = pc[q]
             /\ \/ file'[q] = file[q] /\ (pc[q] = "remove" /\ file[q] = "linked" => CaseOf(q) # CaseOf(p))
                \/ file'[q] = "unlinked" /\ file[q] = "linked"
      BY <1>4 DEF RemoveDir, Goto, Typed, TypeOK
    <2>4. ASSUME NEW q \in Run, file'[q] = "linked" PROVE CaseOf(q) \in dirs'
      <3>1. q # p /\ file[q] = "linked" /\ CaseOf(q) \in dirs
        BY <2>2, <2>3, <2>4 DEF Typed, TypeOK
      <3>2. CASE pc[q] = "remove"
        BY <2>2, <2>3, <2>4, <3>1, <3>2
      <3>3. CASE pc[q] \in Written
        <4>1. fs[Target(q)] # Absent /\ cmd[q].source # NoSource
          BY <3>1, <3>3 DEF Typed, Progress, Written
        <4>2. Target(q) \in FilePath /\ Target(q).dir = CaseOf(q)
          BY <1>0, <3>3, <4>1, TargetType
        <4> QED
          BY <2>1, <2>2, <3>1, <4>1, <4>2
      <3> QED
        BY <3>1, <3>2, <3>3 DEF Typed, Progress
    <2>5. \A f \in FilePath : fs'[f] # Absent => f.dir \in dirs' \cup {Outside}
      BY <2>1, <2>2 DEF Typed, TypeOK
    <2>6. TypeOK'
      BY <2>2, <2>4, <2>5 DEF Typed, TypeOK, CaseOf
    <2>7. Progress'
      BY <2>2, <2>3, TargetStays DEF Typed, Progress, Written
    <2> QED BY <2>6, <2>7 DEF Typed
  <1>5. ASSUME NEW p \in Run, Mkdir(p) PROVE Typed'
    <2>1. cmd[p].source # NoSource /\ file[p] = "none"
      BY <1>5 DEF Mkdir, Typed, TypeOK, Progress, Written, Handle
    <2>2. CaseOf(p) \in Case
      BY <1>0, <2>1 DEF Command, CaseOf
    <2> QED
      BY <1>1, <1>5, <2>1, <2>2 DEF Mkdir, Running, Typed, TypeOK
  <1>6. ASSUME NEW p \in Run, ReadSource(p) PROVE Typed'
    <2>1. cmd[p].source # NoSource /\ file[p] = "none"
      BY <1>6 DEF ReadSource, Typed, TypeOK, Progress, Written, Handle
    <2>2. PICK doc \in Doc : text' = [text EXCEPT ![p] = doc]
      BY <1>0, <1>6, CopiedType, ReadingsAreDocs DEF ReadSource
    <2>3. text'[p] \in Doc
      BY <2>2 DEF Typed, TypeOK
    <2> QED
      BY <1>1, <1>6, <2>1, <2>2, <2>3 DEF ReadSource, Running, Written, Typed, TypeOK
  <1>7. ASSUME NEW p \in Run, ConvertCopy(p) PROVE Typed'
    <2>1. cmd[p].source # NoSource /\ file[p] = "none"
      BY <1>7 DEF ConvertCopy, Typed, TypeOK, Progress, Written, Handle
    <2>2. PICK doc \in Readings(fs[Source(ChildArgs(p))]) :
             /\ ConversionError(ChildArgs(p), doc) = Nil
             /\ text' = [text EXCEPT ![p] = Converted(ChildArgs(p), doc)]
      BY <1>7 DEF ConvertCopy
    <2>3. Converted(ChildArgs(p), doc) \in Doc
      BY <1>0, <2>1, <2>2, ConvertedType, ReadingsAreDocs
    <2>4. text'[p] \in Doc
      BY <2>2, <2>3 DEF Typed, TypeOK
    <2> QED
      BY <1>1, <1>7, <2>1, <2>2, <2>3, <2>4 DEF ConvertCopy, Running, Written, Typed, TypeOK
  \* A step that writes to p's file, or to none.
  <1>8. ASSUME NEW p \in Run, UNCHANGED <<dirs, cmd>>, Elsewhere(p), cmd[p].source # NoSource,
               pc' \in [Run -> Label], file' \in [Run -> Handle],
               text' \in [Run -> Doc \cup {Nil}],
               \/ UNCHANGED <<fs, owner>>
               \/ /\ Target(p) \in FilePath /\ Target(p).dir \in dirs
                  /\ \E node \in Node \ {Absent} : fs' = [fs EXCEPT ![Target(p)] = node]
                  /\ owner' = [owner EXCEPT ![Target(p)] = p],
               file'[p] # "none" => pc'[p] \in Written,
               file'[p] = "linked" => CaseOf(p) \in dirs /\ fs'[Target(p)'] # Absent,
               pc'[p] \in {"copy", "result"} => text'[p] \in Doc
        PROVE  Typed'
    <2>1. fs' \in [FilePath -> Node] /\ owner' \in [FilePath -> Run \cup {Nobody}]
      BY <1>8 DEF Typed, TypeOK
    <2>2. \A f \in FilePath : fs'[f] # Absent => fs[f] # Absent \/ f.dir \in dirs
      BY <1>8 DEF Typed, TypeOK
    <2>3. \A f \in FilePath : fs[f] # Absent => fs'[f] # Absent
      BY <1>8 DEF Typed, TypeOK
    <2>4. TypeOK'
      BY <1>8, <2>1, <2>2 DEF Typed, TypeOK, CaseOf
    <2>5. ASSUME NEW q \in Run, q # p, file'[q] = "linked", pc'[q] \in Written
          PROVE  fs'[Target(q)'] # Absent
      <3>1. fs[Target(q)] # Absent /\ cmd[q].source # NoSource /\ pc[q] \in Written
        BY <1>8, <2>5 DEF Typed, Progress, Written
      <3>2. Target(q) \in FilePath /\ Target(q)' = Target(q)
        BY <1>0, <1>8, <2>5, <3>1, TargetType, TargetStays
      <3> QED BY <2>3, <3>1, <3>2
    <2>6. Progress'
      BY <1>8, <2>5 DEF Typed, Progress
    <2> QED BY <2>4, <2>6 DEF Typed
  <1>10. ASSUME NEW p \in Run, CreateFile(p) PROVE Typed'
    <2>1. pc[p] \in Written /\ UNCHANGED <<dirs, cmd, pc, text>> /\ CaseOf(p) \in dirs
      BY <1>10 DEF CreateFile
    <2>2. /\ fs' = [fs EXCEPT ![Target(p)] = Empty]
          /\ owner' = [owner EXCEPT ![Target(p)] = p]
          /\ file' = [file EXCEPT ![p] = "linked"]
      BY <1>10 DEF CreateFile
    <2>3. file'[p] = "linked" /\ file' \in [Run -> Handle] /\ Elsewhere(p)
      BY <2>1, <2>2 DEF Typed, TypeOK, Handle
    <2>4. Target(p)' = Target(p) /\ fs'[Target(p)] # Absent
      BY <1>0, WriterType, <2>1, <2>2, TargetStays DEF Typed, TypeOK
    <2>5. pc' \in [Run -> Label] /\ text' \in [Run -> Doc \cup {Nil}]
      BY <2>1 DEF Typed, TypeOK
    <2>6. pc'[p] \in {"copy", "result"} => text'[p] \in Doc
      BY <2>1 DEF Typed, Progress
    <2>7. Target(p) \in FilePath /\ Target(p).dir \in dirs /\ cmd[p].source # NoSource
      BY <1>0, WriterType, <2>1
    <2>8. \E node \in Node \ {Absent} : fs' = [fs EXCEPT ![Target(p)] = node]
      <3>1. Empty \in Node \ {Absent}
        BY TestCasesAssumption DEF Node
      <3> QED
        BY <2>2, <3>1, Zenon
    <2>9. file'[p] # "none" => pc'[p] \in Written
      BY <2>1
    <2>10. file'[p] = "linked" => CaseOf(p) \in dirs /\ fs'[Target(p)'] # Absent
      BY <2>1, <2>4
    <2>11. UNCHANGED <<dirs, cmd>>
      BY <2>1
    <2> HIDE DEF Elsewhere
    <2> QED
      BY <1>8, <2>2, <2>3, <2>5, <2>6, <2>7, <2>8, <2>9, <2>10, <2>11, Zenon
  \* What Write does is such a step.
  <1>11. ASSUME NEW p \in Run, pc[p] \in Written, NEW nodes, Write(p, nodes),
                nodes \subseteq Node \ {Absent} \/ (file[p] # "linked")
         PROVE  \/ UNCHANGED <<fs, owner>>
                \/ /\ Target(p) \in FilePath /\ Target(p).dir \in dirs
                   /\ \E node \in Node \ {Absent} : fs' = [fs EXCEPT ![Target(p)] = node]
                   /\ owner' = [owner EXCEPT ![Target(p)] = p]
    BY WriterType, <1>11 DEF Write
  <1>12. ASSUME NEW p \in Run, WriteFile(p) PROVE Typed'
    <2>1. pc[p] \in Written /\ Write(p, Overwritten(fs[Target(p)], Data(p)))
      BY <1>12 DEF WriteFile
    <2>2. Overwritten(fs[Target(p)], Data(p)) \subseteq Node \ {Absent}
      BY <1>0, WriterType, <2>1 DEF Overwritten
    <2>3. /\ pc' = [pc EXCEPT ![p] = Following(pc[p])] /\ file' = [file EXCEPT ![p] = "none"]
          /\ text' = [text EXCEPT ![p] = IF pc[p] = "copy" THEN @ ELSE Nil]
          /\ UNCHANGED <<dirs, cmd>>
      BY <1>12 DEF WriteFile, Goto
    <2>4. Following(pc[p]) \in Label /\ Following(pc[p]) \notin {"copy", "result"}
      BY <2>1 DEF Following, Written, Running, Ended
    <2>5. pc' \in [Run -> Label] /\ pc'[p] \notin {"copy", "result"}
      BY <2>3, <2>4 DEF Typed, TypeOK
    <2>6. /\ file' \in [Run -> Handle] /\ file'[p] = "none" /\ Elsewhere(p)
          /\ text' \in [Run -> Doc \cup {Nil}]
      BY <2>3 DEF Typed, TypeOK, Handle
    <2> QED
      BY <1>8, WriterType, <1>11, <2>1, <2>2, <2>3, <2>5, <2>6
  <1>13. ASSUME NEW p \in Run, Cut(p) PROVE Typed'
    <2>1. /\ pc' = [pc EXCEPT ![p] = "cut"] /\ file' = [file EXCEPT ![p] = "none"]
          /\ text' = [text EXCEPT ![p] = Nil]
          /\ UNCHANGED <<dirs, cmd>>
      BY <1>13 DEF Cut, Goto
    <2>2. cmd[p].source # NoSource
      BY <1>13 DEF Cut, Running, Written, Typed, Progress
    <2>3. /\ pc' \in [Run -> Label] /\ pc'[p] = "cut"
          /\ file' \in [Run -> Handle] /\ file'[p] = "none" /\ Elsewhere(p)
          /\ text' \in [Run -> Doc \cup {Nil}]
      BY <2>1 DEF Typed, TypeOK, Handle, Ended
    <2>4. CASE pc[p] \in Written /\ file[p] # "none"
      <3>1. Write(p, {fs[Target(p)], Torn})
        BY <1>13, <2>4 DEF Cut
      <3>2. {fs[Target(p)], Torn} \subseteq Node \ {Absent} \/ file[p] # "linked"
        BY <1>0, WriterType, <2>4 DEF Typed, TypeOK
      <3> QED
        BY <1>8, <1>11, <2>1, <2>2, <2>3, <2>4, <3>1, <3>2
    <2>5. CASE ~(pc[p] \in Written /\ file[p] # "none")
      <3>1. UNCHANGED <<fs, owner>>
        BY <1>13, <2>5 DEF Cut
      <3> QED
        BY <1>8, <2>1, <2>2, <2>3, <3>1
    <2> QED BY <2>4, <2>5
  <1>14. CASE UNCHANGED vars
    BY <1>14, TargetStays DEF vars, Typed, TypeOK, Progress, CaseOf
  <1> QED
    BY <1>2, <1>3, <1>4, <1>5, <1>6, <1>7, <1>10, <1>12, <1>13, <1>14 DEF Next, Finished

\* The files, the runs and what they have open stay within their types; no file is
\* in a directory that does not exist (testgen.go, every step of a run).
THEOREM TypeCorrect == Spec => []TypeOK
  <1>1. Typed => TypeOK
    BY DEF Typed
  <1> QED
    BY TypedInit, TypedNext, <1>1, PTL DEF Spec

-----------------------------------------------------------------------------
(* Cases are kept.                                                          *)

\* Where no run overwrites, only the run that made a directory is ever at a step
\* between making it and its end, and whatever is in there it has written itself.
Making == {"read", "convert"} \cup Written

Quiet(c) == \A p \in RunsOn(c) : ~cmd[p].overwrite

OneOwner(c) ==
    \A f, g \in FilePath :
        f.dir = c /\ g.dir = c /\ fs[f] # Absent /\ fs[g] # Absent => owner[f] = owner[g]

Owns(p, c) ==
    c \in dirs /\ \A f \in FilePath : f.dir = c /\ fs[f] # Absent => owner[f] = p

Kept(c) ==
    /\ OneOwner(c)
    /\ \A p \in RunsOn(c) : pc[p] # "remove"
    /\ \A p \in RunsOn(c) : pc[p] \in Making => Owns(p, c)
    /\ \A p, q \in RunsOn(c) : pc[p] \in Making /\ pc[q] \in Making => p = q

AllKept == \A c \in Case : Quiet(c) => Kept(c)

Step(p) ==
    \/ Setup(p) \/ RemoveFile(p) \/ RemoveDir(p) \/ Mkdir(p) \/ ReadSource(p)
    \/ ConvertCopy(p) \/ CreateFile(p) \/ WriteFile(p) \/ Cut(p)

\* No step of a run reaches into another case, or moves another run.
LEMMA StepFrame ==
    ASSUME Typed, NEW p \in Run, Step(p)
    PROVE  /\ cmd' = cmd
           /\ \A q \in Run : q # p => pc'[q] = pc[q]
           /\ dirs \ {CaseOf(p)} \subseteq dirs'
           /\ \A f \in FilePath : f.dir # CaseOf(p) => fs'[f] = fs[f] /\ owner'[f] = owner[f]
           /\ cmd[p].source = NoSource => UNCHANGED <<fs, dirs, owner>>
  <1>1. CASE Setup(p)
    BY <1>1 DEF Setup, Goto, Typed, TypeOK
  <1>2. CASE RemoveFile(p)
    BY <1>2 DEF RemoveFile, Typed, TypeOK, Progress
  <1>3. CASE RemoveDir(p)
    BY <1>3 DEF RemoveDir, Goto, Typed, TypeOK, Progress
  <1>4. CASE Mkdir(p)
    BY <1>4 DEF Mkdir, Goto, Typed, TypeOK, Progress
  <1>5. CASE ReadSource(p) \/ ConvertCopy(p)
    BY <1>5 DEF ReadSource, ConvertCopy, Goto, Typed, TypeOK
  <1>6. CASE CreateFile(p)
    BY <1>6, WriterType DEF CreateFile, Typed, TypeOK
  <1>7. CASE WriteFile(p)
    BY <1>7, WriterType DEF WriteFile, Write, Goto, Typed, TypeOK
  <1>8. CASE Cut(p)
    BY <1>8, WriterType DEF Cut, Write, Goto, Typed, TypeOK
  <1> QED
    BY <1>1, <1>2, <1>3, <1>4, <1>5, <1>6, <1>7, <1>8 DEF Step

\* What a run that is making a case leaves in its files is its own.
LEMMA StepOwns ==
    ASSUME Typed, NEW p \in Run, Step(p), pc[p] \in Making
    PROVE  /\ UNCHANGED dirs
           /\ pc'[p] # "remove"
           /\ \A f \in FilePath : \/ fs'[f] = fs[f] /\ owner'[f] = owner[f]
                                  \/ owner'[f] = p
  <1>1. CASE ReadSource(p) \/ ConvertCopy(p)
    BY <1>1 DEF ReadSource, ConvertCopy, Goto, Typed, TypeOK
  <1>2. CASE CreateFile(p)
    BY <1>2 DEF CreateFile, Written, Typed, TypeOK
  <1>3. CASE WriteFile(p)
    <2>1. pc'[p] = Following(pc[p]) /\ pc[p] \in Written /\ UNCHANGED dirs
      BY <1>3 DEF WriteFile, Goto, Typed, TypeOK
    <2>2. Following(pc[p]) # "remove"
      BY <2>1 DEF Following, Written
    <2> QED
      BY <1>3, <2>1, <2>2 DEF WriteFile, Write, Typed, TypeOK
  <1>4. CASE Cut(p)
    BY <1>4 DEF Cut, Write, Goto, Typed, TypeOK
  <1> QED
    BY <1>1, <1>2, <1>3, <1>4
       DEF Step, Making, Written, Setup, RemoveFile, RemoveDir, Mkdir

\* At the start all runs are before their first step, and no file has an owner.
LEMMA KeptInit == Init => AllKept
  BY DEF Init, AllKept, Kept, OneOwner, Making, Written, RunsOn

LEMMA KeptNext == Typed /\ AllKept /\ [Next]_vars => AllKept'
  <1> SUFFICES ASSUME Typed, AllKept, [Next]_vars, NEW c \in Case, Quiet(c)' PROVE Kept(c)'
    BY DEF AllKept
  <1>1. CASE UNCHANGED vars
    BY <1>1 DEF vars, AllKept, Quiet, Kept, OneOwner, Owns, RunsOn, CaseOf
  <1>2. ASSUME NEW p \in Run, Step(p) PROVE Kept(c)'
    <2>1. RunsOn(c)' = RunsOn(c) /\ Kept(c)
      BY <1>2, StepFrame DEF AllKept, Quiet, RunsOn, CaseOf
    <2>2. CASE p \notin RunsOn(c)
      <3>1. \A f \in FilePath : f.dir = c => fs'[f] = fs[f] /\ owner'[f] = owner[f]
        BY <1>2, <2>2, StepFrame DEF RunsOn
      <3>2. c \in dirs => c \in dirs'
        BY <1>2, <2>2, StepFrame DEF RunsOn
      <3>3. \A q \in RunsOn(c) : pc'[q] = pc[q]
        BY <1>2, <2>2, StepFrame DEF RunsOn
      <3> QED
        BY <2>1, <3>1, <3>2, <3>3 DEF Kept, OneOwner, Owns
    <2>3. CASE p \in RunsOn(c) /\ pc[p] \in Making
      <3>1. Owns(p, c) /\ \A q \in RunsOn(c) : pc[q] \in Making => q = p
        BY <2>1, <2>3 DEF Kept
      <3>2. Owns(p, c)'
        BY <1>2, <2>3, <3>1, StepOwns DEF Owns
      <3>3. \A q \in RunsOn(c) : q # p => pc'[q] = pc[q]
        BY <1>2, StepFrame DEF RunsOn
      <3>4. pc'[p] # "remove"
        BY <1>2, <2>3, StepOwns
      <3> QED
        BY <2>1, <3>1, <3>2, <3>3, <3>4 DEF Kept, OneOwner, Owns
    <2>4. CASE p \in RunsOn(c) /\ Mkdir(p)
      <3>1. c \notin dirs /\ c \in dirs' /\ UNCHANGED <<fs, owner>> /\ pc'[p] = "read"
        BY <2>4 DEF Mkdir, RunsOn, Goto, Typed, TypeOK
      <3>2. \A f \in FilePath : f.dir = c => fs[f] = Absent
        BY <3>1, TestCasesAssumption DEF Typed, TypeOK
      <3>3. \A q \in RunsOn(c) : pc[q] \notin Making
        BY <2>1, <3>1 DEF Kept, Owns
      <3>4. \A q \in RunsOn(c) : q # p => pc'[q] = pc[q]
        BY <1>2, StepFrame DEF RunsOn
      <3> QED
        BY <2>1, <3>1, <3>2, <3>3, <3>4 DEF Kept, OneOwner, Owns
    <2>5. CASE p \in RunsOn(c) /\ pc[p] \notin Making /\ ~Mkdir(p)
      <3>1. pc[p] # "remove"
        BY <2>1, <2>5 DEF Kept
      <3>2. Setup(p) \/ Cut(p)
        BY <1>2, <2>5, <3>1 DEF Step, Making, RemoveFile, RemoveDir, ReadSource, ConvertCopy,
                                CreateFile, WriteFile
      <3>3. ~cmd[p].overwrite
        BY <1>2, <2>1, <2>5, StepFrame DEF Quiet
      <3>4. UNCHANGED <<fs, owner, dirs>> /\ pc'[p] \in {"refused", "mkdir", "cut"}
        BY <2>5, <3>2, <3>3 DEF Setup, Cut, Goto, Making, Typed, TypeOK
      <3>5. \A q \in RunsOn(c) : q # p => pc'[q] = pc[q]
        BY <1>2, StepFrame DEF RunsOn
      <3> QED
        BY <2>1, <3>4, <3>5 DEF Kept, OneOwner, Owns, Making, Written
    <2> QED BY <2>2, <2>3, <2>4, <2>5
  <1> QED
    BY <1>1, <1>2 DEF Next, Finished, Step

\* Where no run overwrites, a case directory belongs to the run that made it, or is as
\* it was found: os.Mkdir, and not the stat before it, decides (setupTestEnvironment).
THEOREM CasesStayKept == Spec => []CasesAreKept
  <1>1. AllKept => CasesAreKept
    BY DEF AllKept, Kept, Quiet, OneOwner, CasesAreKept
  <1> QED
    BY TypedInit, TypedNext, KeptInit, KeptNext, <1>1, PTL DEF Spec

-----------------------------------------------------------------------------
(* Described cases pass, and a suite that nothing was cut off in loads.       *)

\* Test t on the texts src and exp; Passes(t) is this of the files it names.
PassesOn(t, src, exp) ==
    LET i == [args |-> <<t.source>>, ver |-> t.ver, force |-> FALSE, format |-> t.format]
    IN /\ src \in Doc /\ exp \in Doc
       /\ PreRunError(i, src) = Nil /\ ConversionError(i, src) = Nil
       /\ Loads(exp, Converted(i, src).fmt)
       /\ Converted(i, src).body = exp.body

\* Both tests of p's case are about files there, which pass them.
BothPass(p) ==
    \A format \in {"yaml", "asconfig"} : Passes(Test(p, format))

\* What a run that is making its case has done: the steps behind it have left what
\* they wrote there, and versions.json, which comes last, is not whole.
CopyLeft(p) ==
    /\ cmd[p].source.ext \in {"yaml", "conf"}
    /\ fs[CopiedSrcPath(p)] \in Doc
    /\ fs[CopiedSrcPath(p)].ver = NoVersion
    /\ PreRunError(ChildArgs(p), fs[CopiedSrcPath(p)]) = Nil
    /\ ConversionError(ChildArgs(p), fs[CopiedSrcPath(p)]) = Nil

Stage(p) ==
    /\ file[p] # "unlinked"
    /\ pc[p] \in Written /\ file[p] = "linked" => fs[Target(p)] = Empty
    /\ fs[JsonFile(CaseOf(p), "versions")] \in {Absent, Empty}
    /\ pc[p] = "copy" => text[p].ver = NoVersion
    /\ pc[p] = "convert" => /\ fs[CopiedSrcPath(p)] \in Doc
                            /\ fs[CopiedSrcPath(p)].ver = NoVersion
    /\ pc[p] = "result" => /\ CopyLeft(p)
                           /\ text[p] = Converted(ChildArgs(p), fs[CopiedSrcPath(p)])
    /\ pc[p] \in JsonName => BothPass(p)
    /\ pc[p] \in {"conf-tests", "versions"} =>
           fs[JsonFile(CaseOf(p), "yaml-tests")] = Test(p, "yaml")
    /\ pc[p] = "versions" => fs[JsonFile(CaseOf(p), "conf-tests")] = Test(p, "asconfig")

\* What has an owner was written by a run of the case that got into its directory.
Entered == Making \cup {"done", "cut"}

Attributed(c) ==
    \A f \in FilePath : f.dir = c /\ owner[f] # Nobody =>
        owner[f] \in RunsOn(c) /\ pc[owner[f]] \in Entered

\* What DescribedCasePasses says of c, and that its tests are about its own files.
Described(c) ==
    LET versions == JsonFile(c, "versions")
    IN owner[versions] # Nobody /\ fs[versions] \in Versions =>
          \A name \in {"yaml-tests", "conf-tests"} :
              LET t == fs[JsonFile(c, name)]
              IN /\ t \in TestData
                 /\ t.ver = fs[versions].testedVersion
                 /\ Passes(t)
                 /\ t.source.dir = c /\ t.expected.dir = c

\* The tests take c in, unless a run is at it or was cut off.
Loadable(c) ==
    c \in dirs /\ (\A p \in RunsOn(c) : pc[p] \notin Making \cup {"remove", "cut"}) =>
        \A name \in {"yaml-tests", "conf-tests"} : fs[JsonFile(c, name)] \in TestData

Sound(c) ==
    /\ \A p \in RunsOn(c) : pc[p] \in Making => c \in dirs /\ Stage(p)
    /\ Attributed(c)
    /\ Described(c)
    /\ Loadable(c)

AllSound == \A c \in Case : Undisturbed(c) => Sound(c)
\* A test passes or not by the two files it names.
LEMMA PassesByFiles ==
    ASSUME NEW t
    PROVE  /\ Passes(t) <=> PassesOn(t, fs[t.source], fs[t.expected])
           /\ Passes(t)' <=> PassesOn(t, fs'[t.source], fs'[t.expected])
  BY DEF Passes, PassesOn

\* What the tool's own errors are not.
LEMMA VersionIsSupported ==
    ASSUME NEW i, NEW doc \in Doc, doc.ver = NoVersion, ~i.force, i.ver \in Version,
           PreRunError(i, doc) = Nil
    PROVE  i.ver \in Supported /\ i.ver \notin Malformed /\ i.ver # Unset
  <1>1. MetaVersion(doc) = NoVersion
    BY ContentsAssumption DEF MetaVersion
  <1>2. VersionFlagError(i, doc) = Nil
    BY DEF PreRunError
  <1>3. i.ver # Unset
    BY ContentsAssumption
  <1>4. Nil # "errInvalidAerospikeVersion" /\ Nil # "errUnsupportedAerospikeVersion"
    BY ErrorAssumption
  <1>5. i.ver \notin Malformed
    BY <1>1, <1>2, <1>3, <1>4 DEF VersionFlagError
  <1>6. i.ver \in Supported
    BY <1>1, <1>2, <1>3, <1>4, <1>5 DEF VersionFlagError
  <1> QED
    BY <1>3, <1>5, <1>6

\* A conversion that meets no error.
LEMMA ConversionMeans ==
    ASSUME NEW i, NEW doc, ~i.force, ConversionError(i, doc) = Nil
    PROVE  /\ SrcFormat(i) # Invalid
           /\ Loads(doc, SrcFormat(i))
           /\ Validate(doc.body, ResolvedVersion(i, doc)).err = Nil
  <1>1. SrcFormat(i) # Invalid
    BY ErrorAssumption DEF ConversionError
  <1>2. Loads(doc, SrcFormat(i))
    BY <1>1, ErrorAssumption DEF ConversionError
  <1>3. ValidationError(i, doc) = Nil
    BY <1>1, <1>2, ErrorAssumption DEF ConversionError
  <1> QED
    BY <1>1, <1>2, <1>3 DEF ValidationError

\* And conversely.
LEMMA ConversionSucceeds ==
    ASSUME NEW i, NEW doc, SrcFormat(i) # Invalid, ResolvedVersion(i, doc) # NoVersion,
           Loads(doc, SrcFormat(i)),
           Validate(doc.body, ResolvedVersion(i, doc)) = [verrs |-> FALSE, err |-> Nil]
    PROVE  ConversionError(i, doc) = Nil
  <1>1. ValidationError(i, doc) = Nil
    BY DEF ValidationError
  <1> QED
    BY <1>1 DEF ConversionError

\* A configuration without version metadata that is converted one way with a version
\* is converted back with it: the result is in the other format, and as valid.
LEMMA ThereAndBack ==
    ASSUME NEW i, NEW j, NEW fmt \in Format, NEW doc \in Doc, doc.ver = NoVersion,
           ~i.force, ~j.force, i.ver \in Version, j.ver = i.ver,
           SrcFormat(i) = fmt, SrcFormat(j) = determineOutputFormat(fmt),
           j.format \in {"yaml", "asconfig"},
           PreRunError(i, doc) = Nil, ConversionError(i, doc) = Nil
    PROVE  LET res == Converted(i, doc)
           IN /\ res \in Doc
              /\ Loads(res, Converted(i, doc).fmt) /\ Converted(i, doc).body = res.body
              /\ PreRunError(j, res) = Nil /\ ConversionError(j, res) = Nil
              /\ Loads(doc, Converted(j, res).fmt) /\ Converted(j, res).body = doc.body
  <1> DEFINE res == Converted(i, doc)
  <1>1. i.ver \in Supported /\ i.ver \notin Malformed /\ i.ver # Unset
    BY VersionIsSupported
  <1>2. i.ver # NoVersion /\ i.ver # Blank /\ i.ver # Garbled
    BY <1>1, ContentsAssumption
  <1>3. ResolvedVersion(i, doc) = i.ver /\ ResolvedVersion(j, res) = i.ver
    BY <1>1 DEF ResolvedVersion
  <1>4. /\ Loads(doc, fmt)
        /\ Validate(doc.body, i.ver).err = Nil
    BY <1>3, ConversionMeans
  <1>5. Validate(doc.body, i.ver) = [verrs |-> FALSE, err |-> Nil]
    BY <1>4, ErrorAssumption DEF Validate
  <1>6. res = [fmt |-> determineOutputFormat(fmt), body |-> doc.body, ver |-> i.ver,
               by |-> "checked"]
    BY <1>2, <1>3 DEF Converted
  <1>7. determineOutputFormat(fmt) \in Format /\ determineOutputFormat(fmt) # Invalid
        /\ determineOutputFormat(determineOutputFormat(fmt)) = fmt
    BY DEF determineOutputFormat, Format, YAML, AeroConfig, Invalid
  <1>8. res \in Doc
    BY <1>6, <1>7 DEF Doc
  <1>9. doc.body # Unparsable
    BY <1>4 DEF Loads
  <1>10. Loads(res, res.fmt)
    BY <1>6, <1>9 DEF Loads
  <1>11. MetaVersion(res) # NoVersion
    BY <1>2, <1>6 DEF MetaVersion
  <1>12. FormatFlag(j.format) \in {"yaml", "asconfig"}
    BY ErrorAssumption DEF FormatFlag
  <1>13. ParseFmtString(FormatFlag(j.format)) # Invalid
    BY <1>12 DEF ParseFmtString, YAML, AeroConfig, Invalid
  <1>14. PreRunError(j, res) = Nil
    BY <1>11, <1>13 DEF PreRunError, VersionFlagError
  <1>15. Validate(res.body, ResolvedVersion(j, res)) = [verrs |-> FALSE, err |-> Nil]
    BY <1>3, <1>5, <1>6
  <1>16. Loads(res, SrcFormat(j))
    BY <1>6, <1>10
  <1>17. ConversionError(j, res) = Nil
    BY <1>2, <1>3, <1>7, <1>15, <1>16, ConversionSucceeds
  <1>18. Converted(j, res).fmt = fmt /\ Converted(j, res).body = doc.body
    BY <1>6, <1>7 DEF Converted
  <1> QED
    BY <1>4, <1>6, <1>8, <1>10, <1>14, <1>17, <1>18

\* A format that is given decides, whatever the file is called.
LEMMA GivenFormat ==
    ASSUME NEW i
    PROVE  /\ i.format = "yaml" => SrcFormat(i) = YAML
           /\ i.format = "asconfig" => SrcFormat(i) = AeroConfig
  BY ErrorAssumption DEF SrcFormat, getConfFileFormat, FormatFlag, ParseFmtString

\* The two tests that a run describes pass on its copy and what convert makes of it.
LEMMA BothTestsPass ==
    ASSUME NEW p \in Run, cmd \in [Run -> Command], cmd[p].source # NoSource,
           cmd[p].source.ext \in {"yaml", "conf"}, NEW doc \in Doc, doc.ver = NoVersion,
           PreRunError(ChildArgs(p), doc) = Nil, ConversionError(ChildArgs(p), doc) = Nil
    PROVE  LET res == Converted(ChildArgs(p), doc)
           IN /\ cmd[p].source.ext = "yaml" => /\ PassesOn(Test(p, "yaml"), doc, res)
                                               /\ PassesOn(Test(p, "asconfig"), res, doc)
              /\ cmd[p].source.ext = "conf" => /\ PassesOn(Test(p, "asconfig"), doc, res)
                                               /\ PassesOn(Test(p, "yaml"), res, doc)
  <1> DEFINE Args(t) == [args |-> <<t.source>>, ver |-> t.ver, force |-> FALSE,
                         format |-> t.format]
             res == Converted(ChildArgs(p), doc)
  <1>1. cmd[p].ver \in Version
    BY DEF Command
  <1>2. CASE cmd[p].source.ext = "yaml"
    <2> DEFINE j == Args(Test(p, "asconfig"))
    <2>1. ChildArgs(p) = Args(Test(p, "yaml"))
      BY <1>2 DEF ChildArgs, Test, CopiedSrcPath
    <2>2. ChildArgs(p).format = "yaml" /\ ChildArgs(p).force = FALSE
          /\ ChildArgs(p).ver = cmd[p].ver
      BY <1>2 DEF ChildArgs
    <2>3. j.format = "asconfig" /\ j.force = FALSE /\ j.ver = cmd[p].ver
      BY DEF Test
    <2>4. SrcFormat(ChildArgs(p)) = YAML /\ SrcFormat(j) = AeroConfig
      BY <2>2, <2>3, GivenFormat
    <2>5. YAML \in Format /\ AeroConfig = determineOutputFormat(YAML)
      BY DEF Format, determineOutputFormat, YAML, AeroConfig
    <2> HIDE DEF j
    <2>6. /\ res \in Doc
          /\ Loads(res, Converted(ChildArgs(p), doc).fmt)
          /\ Converted(ChildArgs(p), doc).body = res.body
          /\ PreRunError(j, res) = Nil /\ ConversionError(j, res) = Nil
          /\ Loads(doc, Converted(j, res).fmt) /\ Converted(j, res).body = doc.body
      BY <1>1, <2>2, <2>3, <2>4, <2>5, ThereAndBack
    <2>7. PassesOn(Test(p, "yaml"), doc, res)
      BY <2>1, <2>6 DEF PassesOn
    <2>8. PassesOn(Test(p, "asconfig"), res, doc)
      BY <2>6 DEF PassesOn, j
    <2> QED
      BY <1>2, <2>7, <2>8
  <1>3. CASE cmd[p].source.ext = "conf"
    <2> DEFINE j == Args(Test(p, "yaml"))
    <2>1. ChildArgs(p) = Args(Test(p, "asconfig"))
      BY <1>3 DEF ChildArgs, Test, CopiedSrcPath
    <2>2. ChildArgs(p).format = "asconfig" /\ ChildArgs(p).force = FALSE
          /\ ChildArgs(p).ver = cmd[p].ver
      BY <1>3 DEF ChildArgs
    <2>3. j.format = "yaml" /\ j.force = FALSE /\ j.ver = cmd[p].ver
      BY DEF Test
    <2>4. SrcFormat(ChildArgs(p)) = AeroConfig /\ SrcFormat(j) = YAML
      BY <2>2, <2>3, GivenFormat
    <2>5. AeroConfig \in Format /\ YAML = determineOutputFormat(AeroConfig)
      BY DEF Format, determineOutputFormat, YAML, AeroConfig
    <2> HIDE DEF j
    <2>6. /\ res \in Doc
          /\ Loads(res, Converted(ChildArgs(p), doc).fmt)
          /\ Converted(ChildArgs(p), doc).body = res.body
          /\ PreRunError(j, res) = Nil /\ ConversionError(j, res) = Nil
          /\ Loads(doc, Converted(j, res).fmt) /\ Converted(j, res).body = doc.body
      BY <1>1, <2>2, <2>3, <2>4, <2>5, ThereAndBack
    <2>7. PassesOn(Test(p, "asconfig"), doc, res)
      BY <2>1, <2>6 DEF PassesOn
    <2>8. PassesOn(Test(p, "yaml"), res, doc)
      BY <2>6 DEF PassesOn, j
    <2> QED
      BY <1>3, <2>7, <2>8
  <1> QED
    BY <1>2, <1>3
\* The files of p's case, and the tests about them.
LEMMA CasePaths ==
    ASSUME NEW p \in Run, cmd \in [Run -> Command], cmd[p].source # NoSource
    PROVE  /\ CaseOf(p) \in Case
           /\ \A e \in {"yaml", "conf"} : /\ ConfigFile(CaseOf(p), e) \in FilePath
                                          /\ ConfigFile(CaseOf(p), e).dir = CaseOf(p)
           /\ CopiedSrcPath(p) \in FilePath /\ CopiedSrcPath(p).dir = CaseOf(p)
           /\ CopiedSrcPath(p).ext # "json"
           /\ \A name \in JsonName : /\ JsonFile(CaseOf(p), name) \in FilePath
                                     /\ JsonFile(CaseOf(p), name).dir = CaseOf(p)
           /\ \A format \in {"yaml", "asconfig"} :
                 /\ Test(p, format) \in TestData
                 /\ Test(p, format).ver = cmd[p].ver
                 /\ Test(p, format).source.dir = CaseOf(p)
                 /\ Test(p, format).expected.dir = CaseOf(p)
  <1>1. cmd[p].source \in [dir : Case \cup {Outside}, base : Case, ext : {"yaml", "conf", "txt"}]
        /\ cmd[p].ver \in Version
    BY DEF Command
  <1>2. CaseOf(p) \in Case
    BY <1>1 DEF CaseOf
  <1>3. \A e \in {"yaml", "conf"} : /\ ConfigFile(CaseOf(p), e) \in FilePath
                                    /\ ConfigFile(CaseOf(p), e).dir = CaseOf(p)
    BY <1>2 DEF ConfigFile, FilePath
  <1>4. /\ CopiedSrcPath(p) \in FilePath /\ CopiedSrcPath(p).dir = CaseOf(p)
        /\ CopiedSrcPath(p).ext # "json"
    BY <1>1, <1>2 DEF CopiedSrcPath, ConfigFile, FilePath
  <1>5. \A name \in JsonName : /\ JsonFile(CaseOf(p), name) \in FilePath
                               /\ JsonFile(CaseOf(p), name).dir = CaseOf(p)
    BY <1>2 DEF JsonFile, FilePath
  <1>6. \A format \in {"yaml", "asconfig"} :
           /\ Test(p, format) \in TestData
           /\ Test(p, format).ver = cmd[p].ver
           /\ Test(p, format).source.dir = CaseOf(p)
           /\ Test(p, format).expected.dir = CaseOf(p)
    BY <1>1, <1>3 DEF Test, TestData
  <1> QED
    BY <1>2, <1>3, <1>4, <1>5, <1>6

\* The tests of a case pass as before while its files stay.
LEMMA BothPassStays ==
    ASSUME NEW p \in Run, cmd \in [Run -> Command], cmd[p].source # NoSource, cmd' = cmd,
           \A f \in FilePath : f.dir = CaseOf(p) /\ f.ext # "json" => fs'[f] = fs[f],
           BothPass(p)
    PROVE  BothPass(p)'
  <1> SUFFICES ASSUME NEW format \in {"yaml", "asconfig"} PROVE Passes(Test(p, format))'
    BY DEF BothPass
  <1> DEFINE yamlPath == ConfigFile(CaseOf(p), "yaml")
             confPath == ConfigFile(CaseOf(p), "conf")
  <1>1. fs'[yamlPath] = fs[yamlPath] /\ fs'[confPath] = fs[confPath]
    <2>1. yamlPath.ext # "json" /\ confPath.ext # "json"
      BY DEF ConfigFile
    <2> QED
      BY <2>1, CasePaths
  <1>2. Test(p, format)' = Test(p, format)
    BY DEF Test, CaseOf
  <1>3. fs'[Test(p, format).source] = fs[Test(p, format).source]
        /\ fs'[Test(p, format).expected] = fs[Test(p, format).expected]
    BY <1>1 DEF Test
  <1>4. PassesOn(Test(p, format), fs[Test(p, format).source], fs[Test(p, format).expected])
    BY PassesByFiles DEF BothPass
  <1>5. Passes(Test(p, format))' <=> PassesOn(Test(p, format)', fs'[Test(p, format)'.source],
                                              fs'[Test(p, format)'.expected])
    BY DEF Passes, PassesOn
  <1> QED
    BY <1>2, <1>3, <1>4, <1>5

\* A run's stage is left alone by whatever leaves it and its case alone.
LEMMA StageStays ==
    ASSUME NEW p \in Run, cmd \in [Run -> Command], cmd[p].source # NoSource, cmd' = cmd,
           pc'[p] = pc[p], text'[p] = text[p], file'[p] = file[p], pc[p] \in Making,
           \A f \in FilePath : f.dir = CaseOf(p) => fs'[f] = fs[f],
           Stage(p)
    PROVE  Stage(p)'
  <1>1. /\ CaseOf(p)' = CaseOf(p) /\ CopiedSrcPath(p)' = CopiedSrcPath(p)
        /\ ChildArgs(p)' = ChildArgs(p) /\ Test(p, "yaml")' = Test(p, "yaml")
        /\ Test(p, "asconfig")' = Test(p, "asconfig")
        /\ Target(p)' = Target(p)
    BY TargetStays DEF CaseOf, CopiedSrcPath, ChildArgs, Test
  <1>2. /\ fs'[CopiedSrcPath(p)] = fs[CopiedSrcPath(p)]
        /\ \A name \in JsonName : fs'[JsonFile(CaseOf(p), name)] = fs[JsonFile(CaseOf(p), name)]
    BY CasePaths
  <1>3. pc[p] \in Written => fs'[Target(p)] = fs[Target(p)]
    BY TargetType
  <1>4. BothPass(p) => BothPass(p)'
    BY BothPassStays
  <1>5. CopyLeft(p) => CopyLeft(p)'
    BY <1>1, <1>2 DEF CopyLeft
  <1> QED
    BY <1>1, <1>2, <1>3, <1>4, <1>5 DEF Stage, JsonName
\* Only the removal of its file changes what another run has open.
LEMMA Bystander ==
    ASSUME Typed, NEW p \in Run, pc[p] \in Making, NEW q \in Run, q # p, Step(q),
           CaseOf(q) # CaseOf(p) \/ ~RemoveFile(q)
    PROVE  file'[p] = file[p] /\ text'[p] = text[p]
  <1>0. pc[p] # "remove"
    BY DEF Making, Written
  <1>1. CASE RemoveFile(q)
    <2>1. PICK f \in FilePath : /\ f.dir = CaseOf(q)
                                /\ file' = [Unlinked(f) EXCEPT ![q] = "linked"]
      BY <1>1 DEF RemoveFile
    <2>2. pc[p] \in Written => Target(p) # f
      BY <1>1, <2>1, WriterType
    <2>3. file'[p] = file[p]
      BY <2>1, <2>2 DEF Unlinked
    <2> QED
      BY <1>1, <2>3 DEF RemoveFile
  <1>2. CASE RemoveDir(q)
    BY <1>0, <1>2 DEF RemoveDir, Typed, TypeOK
  <1>3. CASE Setup(q) \/ Mkdir(q) \/ ReadSource(q) \/ ConvertCopy(q)
    BY <1>3 DEF Setup, Mkdir, ReadSource, ConvertCopy, Typed, TypeOK
  <1>4. CASE CreateFile(q)
    BY <1>4 DEF CreateFile, Typed, TypeOK
  <1>5. CASE WriteFile(q)
    BY <1>5 DEF WriteFile, Typed, TypeOK
  <1>6. CASE Cut(q)
    BY <1>6 DEF Cut, Typed, TypeOK
  <1> QED
    BY <1>1, <1>2, <1>3, <1>4, <1>5, <1>6 DEF Step

\* While a run makes an undisturbed case, no other run does anything there.
LEMMA OthersStandBy ==
    ASSUME Typed, AllKept, NEW c \in Case, Undisturbed(c), NEW p \in RunsOn(c),
           pc[p] \in Making, c \in dirs, NEW q \in Run, q # p, Step(q)
    PROVE  /\ cmd' = cmd /\ pc'[p] = pc[p] /\ text'[p] = text[p] /\ file'[p] = file[p]
           /\ \A f \in FilePath : f.dir = c => fs'[f] = fs[f] /\ owner'[f] = owner[f]
           /\ c \in dirs'
           /\ q \in RunsOn(c) => pc'[q] \in {"refused", "cut"}
  <1>0. p \in Run /\ CaseOf(p) = c /\ cmd' = cmd /\ pc'[p] = pc[p]
    BY StepFrame DEF RunsOn
  <1>1. CASE q \notin RunsOn(c)
    <2>1. CASE CaseOf(q) = c
      <3>1. cmd[q].source = NoSource
        BY <1>1, <2>1 DEF RunsOn
      <3>2. UNCHANGED <<fs, dirs, owner>>
        BY <3>1, StepFrame
      <3>3. pc[q] = "setup" \/ pc[q] = "refused"
        BY <3>1 DEF Typed, Progress
      <3>4. ~RemoveFile(q)
        BY <3>3 DEF RemoveFile
      <3>5. file'[p] = file[p] /\ text'[p] = text[p]
        BY <1>0, <3>4, Bystander
      <3> QED
        BY <1>0, <1>1, <3>2, <3>5
    <2>2. CASE CaseOf(q) # c
      <3>1. file'[p] = file[p] /\ text'[p] = text[p]
        BY <1>0, <2>2, Bystander
      <3> QED
        BY <1>0, <1>1, <2>2, <3>1, StepFrame
    <2> QED BY <2>1, <2>2
  <1>2. CASE q \in RunsOn(c)
    <2>1. Quiet(c)
      BY <1>2 DEF Undisturbed, Quiet
    <2>2. Kept(c) /\ ~cmd[q].overwrite
      BY <1>2, <2>1 DEF AllKept, Quiet
    <2>3. pc[q] \notin Making /\ pc[q] # "remove"
      BY <1>2, <2>2 DEF Kept
    <2>4. CaseOf(q) \in dirs /\ cmd[q].source # NoSource
      BY <1>2 DEF RunsOn
    <2>5. Setup(q) \/ Cut(q)
      BY <2>3, <2>4 DEF Step, Making, RemoveFile, RemoveDir, Mkdir, ReadSource, ConvertCopy,
                        CreateFile, WriteFile
    <2>6. UNCHANGED <<fs, owner, dirs>> /\ pc'[q] \in {"refused", "cut"}
      BY <2>2, <2>3, <2>4, <2>5 DEF Setup, Cut, Goto, Making, Typed, TypeOK
    <2>7. ~RemoveFile(q)
      BY <2>3 DEF RemoveFile
    <2>8. file'[p] = file[p] /\ text'[p] = text[p]
      BY <1>0, <2>7, Bystander
    <2> QED
      BY <1>0, <2>6, <2>8
  <1> QED BY <1>1, <1>2

\* Nothing starts a run on a case of another.
LEMMA RunsOnStays ==
    ASSUME Typed, NEW p \in Run, Step(p), NEW c \in Case
    PROVE  RunsOn(c)' = RunsOn(c) /\ (Undisturbed(c)' <=> Undisturbed(c))
  BY StepFrame DEF RunsOn, Undisturbed, CaseOf

\* A run that has just made its directory finds nothing in it.
LEMMA FreshStage ==
    ASSUME Typed, NEW p \in Run, cmd[p].source # NoSource, Mkdir(p)
    PROVE  CaseOf(p) \in dirs' /\ Stage(p)'
  <1>1. cmd \in [Run -> Command] /\ pc'[p] = "read" /\ UNCHANGED <<fs, cmd, file>>
        /\ CaseOf(p) \in dirs' /\ CaseOf(p) \notin dirs
    BY DEF Mkdir, Goto, Typed, TypeOK
  <1>2. JsonFile(CaseOf(p), "versions") \in FilePath /\ JsonFile(CaseOf(p), "versions").dir = CaseOf(p)
        /\ CaseOf(p) \in Case
    BY <1>1, CasePaths DEF JsonName
  <1>3. fs[JsonFile(CaseOf(p), "versions")] = Absent
    BY <1>1, <1>2, TestCasesAssumption DEF Typed, TypeOK
  <1>4. file[p] = "none"
    BY DEF Mkdir, Typed, TypeOK, Progress, Written, Handle
  <1>5. CaseOf(p)' = CaseOf(p)
    BY <1>1 DEF CaseOf
  <1>6. pc'[p] \notin Written /\ pc'[p] \notin JsonName /\ pc'[p] \notin {"copy", "convert", "result"}
    BY <1>1 DEF Written, JsonName
  <1> QED
    BY <1>1, <1>3, <1>4, <1>5, <1>6 DEF Stage, JsonName
\* The result is put beside the copy.
LEMMA ResultIsBeside ==
    ASSUME NEW p \in Run, cmd[p].source.ext \in {"yaml", "conf"}
    PROVE  /\ cmd[p].source.ext = "yaml" => /\ CopiedSrcPath(p) = ConfigFile(CaseOf(p), "yaml")
                                            /\ ResultPath(p) = ConfigFile(CaseOf(p), "conf")
           /\ cmd[p].source.ext = "conf" => /\ CopiedSrcPath(p) = ConfigFile(CaseOf(p), "conf")
                                            /\ ResultPath(p) = ConfigFile(CaseOf(p), "yaml")
           /\ ResultPath(p) # CopiedSrcPath(p)
  <1>1. CASE cmd[p].source.ext = "yaml"
    <2>1. SrcFormat(ChildArgs(p)) = YAML
      BY <1>1, GivenFormat DEF ChildArgs
    <2>2. OutputExt(determineOutputFormat(YAML)) = "conf"
      BY DEF OutputExt, determineOutputFormat, YAML, AeroConfig
    <2> QED
      BY <1>1, <2>1, <2>2 DEF ResultPath, CopiedSrcPath, ConfigFile
  <1>2. CASE cmd[p].source.ext = "conf"
    <2>1. SrcFormat(ChildArgs(p)) = AeroConfig
      BY <1>2, GivenFormat DEF ChildArgs
    <2>2. OutputExt(determineOutputFormat(AeroConfig)) = "yaml"
      BY DEF OutputExt, determineOutputFormat, YAML, AeroConfig
    <2> QED
      BY <1>2, <2>1, <2>2 DEF ResultPath, CopiedSrcPath, ConfigFile
  <1> QED BY <1>1, <1>2

\* What it has open is empty until it is written, and then holds just that.
LEMMA WholeWrite ==
    ASSUME Typed, NEW p \in Run, Stage(p), WriteFile(p)
    PROVE  /\ fs' = [fs EXCEPT ![Target(p)] = Data(p)]
           /\ owner' = [owner EXCEPT ![Target(p)] = p]
           /\ fs'[Target(p)] = Data(p)
           /\ pc'[p] = Following(pc[p]) /\ file'[p] = "none" /\ UNCHANGED <<cmd, dirs>>
  <1>1. pc[p] \in Written /\ file[p] # "none" /\ Write(p, Overwritten(fs[Target(p)], Data(p)))
    BY DEF WriteFile
  <1>2. file[p] = "linked"
    BY <1>1 DEF Stage, Typed, TypeOK, Handle
  <1>3. fs[Target(p)] = Empty
    BY <1>1, <1>2 DEF Stage
  <1>4. fs' = [fs EXCEPT ![Target(p)] = Data(p)] /\ owner' = [owner EXCEPT ![Target(p)] = p]
    BY <1>1, <1>2, <1>3 DEF Write, Overwritten
  <1>5. Target(p) \in FilePath
    BY <1>1, WriterType
  <1>6. fs'[Target(p)] = Data(p)
    BY <1>4, <1>5 DEF Typed, TypeOK
  <1> QED
    BY <1>4, <1>6 DEF WriteFile, Goto, Typed, TypeOK

\* A run that goes on making its case has done what the label it gets to says.
LEMMA OwnStage ==
    ASSUME Typed, NEW p \in Run, Step(p), pc[p] \in Making, Stage(p), pc'[p] \in Making
    PROVE  Stage(p)'
  <1> DEFINE c        == CaseOf(p)
             versions == JsonFile(c, "versions")
             copied   == CopiedSrcPath(p)
  <1>0. cmd[p].source # NoSource /\ cmd \in [Run -> Command] /\ cmd' = cmd
    BY StepFrame DEF Typed, TypeOK, Progress, Making, Written
  <1>1. /\ CaseOf(p)' = CaseOf(p) /\ CopiedSrcPath(p)' = copied
        /\ ChildArgs(p)' = ChildArgs(p) /\ Test(p, "yaml")' = Test(p, "yaml")
        /\ Test(p, "asconfig")' = Test(p, "asconfig")
    BY <1>0 DEF CaseOf, CopiedSrcPath, ChildArgs, Test
  <1>2. /\ copied \in FilePath /\ copied.ext # "json"
        /\ \A name \in JsonName : JsonFile(c, name) \in FilePath
    BY <1>0, CasePaths
  <1>3. /\ \A name \in JsonName : JsonFile(c, name).ext = "json"
        /\ \A m, n \in JsonName : JsonFile(c, m) = JsonFile(c, n) => m = n
    BY DEF JsonFile
  <1>4. fs \in [FilePath -> Node] /\ text \in [Run -> Doc \cup {Nil}]
    BY DEF Typed, TypeOK
  <1>5. ASSUME ReadSource(p) PROVE Stage(p)'
    <2>1. pc'[p] = "copy" /\ pc[p] = "read" /\ UNCHANGED <<fs, file>>
      BY <1>5 DEF ReadSource, Goto, Typed, TypeOK
    <2>2. PICK doc \in Readings(fs[cmd[p].source]) : text' = [text EXCEPT ![p] = Copied(p, doc)]
      BY <1>5 DEF ReadSource
    <2>3. doc \in Doc
      BY <2>2, ReadingsAreDocs
    <2>4. text'[p].ver = NoVersion
      BY <1>4, <2>2, <2>3 DEF Copied, Doc
    <2>5. file[p] = "none"
      BY <2>1 DEF Typed, TypeOK, Progress, Written, Handle
    <2> QED
      BY <1>1, <2>1, <2>4, <2>5 DEF Stage, JsonName
  <1>6. ASSUME ConvertCopy(p) PROVE Stage(p)'
    <2>1. pc'[p] = "result" /\ pc[p] = "convert" /\ UNCHANGED <<fs, file>>
      BY <1>6 DEF ConvertCopy, Goto, Typed, TypeOK
    <2>2. Source(ChildArgs(p)) = copied
      BY DEF Source, ChildArgs
    <2>3. fs[copied] \in Doc /\ fs[copied].ver = NoVersion
      BY <2>1 DEF Stage
    <2>4. Readings(fs[copied]) = {fs[copied]}
      BY <2>3 DEF Readings
    <2>5. /\ PreRunError(ChildArgs(p), fs[copied]) = Nil
          /\ ConversionError(ChildArgs(p), fs[copied]) = Nil
          /\ text' = [text EXCEPT ![p] = Converted(ChildArgs(p), fs[copied])]
          /\ cmd[p].source.ext \in {"yaml", "conf"}
      BY <1>6, <2>2, <2>4 DEF ConvertCopy
    <2>6. CopyLeft(p)'
      BY <1>0, <1>1, <2>1, <2>3, <2>5 DEF CopyLeft
    <2>7. text'[p] = Converted(ChildArgs(p), fs[copied])
      BY <1>4, <2>5
    <2>8. file[p] = "none"
      BY <2>1 DEF Typed, TypeOK, Progress, Written, Handle
    <2> QED
      BY <1>1, <2>1, <2>6, <2>7, <2>8 DEF Stage, JsonName
  <1>7. ASSUME CreateFile(p) PROVE Stage(p)'
    <2>1. /\ pc[p] \in Written /\ pc' = pc /\ text' = text /\ file'[p] = "linked"
          /\ fs' = [fs EXCEPT ![Target(p)] = Empty]
      BY <1>7 DEF CreateFile, Typed, TypeOK
    <2>2. Target(p)' = Target(p) /\ Target(p) \in FilePath
      BY <1>0, <2>1, TargetStays, WriterType
    <2>3. \A f \in FilePath : fs'[f] = IF f = Target(p) THEN Empty ELSE fs[f]
      BY <1>4, <2>1, <2>2
    <2>4. fs'[versions] \in {Absent, Empty}
      BY <1>2, <2>3 DEF Stage, JsonName
    <2>5. CASE pc[p] = "copy"
      BY <1>1, <2>1, <2>2, <2>3, <2>4, <2>5 DEF Stage, JsonName
    <2>6. CASE pc[p] = "result"
      <3>1. CopyLeft(p) /\ text[p] = Converted(ChildArgs(p), fs[copied])
        BY <2>6 DEF Stage
      <3>2. Target(p) = ResultPath(p) /\ ResultPath(p) # copied
        BY <2>6, <3>1, ResultIsBeside DEF Target, CopyLeft
      <3>3. fs'[copied] = fs[copied]
        BY <1>2, <2>3, <3>2
      <3>4. CopyLeft(p)'
        BY <1>0, <1>1, <3>1, <3>3 DEF CopyLeft
      <3> QED
        BY <1>1, <2>1, <2>2, <2>3, <2>4, <2>6, <3>1, <3>3, <3>4 DEF Stage, JsonName
    <2>7. CASE pc[p] \in JsonName
      <3>1. Target(p) = JsonFile(c, pc[p])
        BY <2>7 DEF Target, JsonName
      <3>2. \A f \in FilePath : f.ext # "json" => fs'[f] = fs[f]
        BY <1>3, <2>3, <2>7, <3>1
      <3>3. BothPass(p)'
        BY <1>0, <2>7, <3>2, BothPassStays DEF Stage
      <3>4. \A name \in JsonName : name # pc[p] => fs'[JsonFile(c, name)] = fs[JsonFile(c, name)]
        BY <1>2, <1>3, <2>3, <2>7, <3>1
      <3>5. pc[p] \in {"conf-tests", "versions"} => fs'[JsonFile(c, "yaml-tests")] = Test(p, "yaml")
        BY <3>4 DEF Stage, JsonName
      <3>6. pc[p] = "versions" => fs'[JsonFile(c, "conf-tests")] = Test(p, "asconfig")
        BY <3>4 DEF Stage, JsonName
      <3> QED
        BY <1>1, <2>1, <2>2, <2>3, <2>4, <2>7, <3>3, <3>5, <3>6 DEF Stage, JsonName
    <2> QED
      BY <2>1, <2>5, <2>6, <2>7 DEF Written, JsonName
  <1>8. ASSUME WriteFile(p) PROVE Stage(p)'
    <2>1. pc[p] \in Written /\ Target(p) \in FilePath
      BY <1>8, WriterType DEF WriteFile
    <2>2. /\ \A f \in FilePath : fs'[f] = IF f = Target(p) THEN Data(p) ELSE fs[f]
          /\ fs'[Target(p)] = Data(p)
          /\ pc'[p] = Following(pc[p]) /\ file'[p] = "none"
      BY <1>4, <1>8, <2>1, WholeWrite
    <2>3. CASE pc[p] = "copy"
      <3>1. Target(p) = copied /\ Data(p) = text[p] /\ pc'[p] = "convert"
        BY <2>2, <2>3 DEF Target, Data, Following
      <3>2. text[p] \in Doc /\ text[p].ver = NoVersion
        BY <2>3 DEF Typed, Progress, Stage
      <3>3. fs'[versions] = fs[versions]
        BY <1>2, <1>3, <2>2, <3>1 DEF JsonName
      <3> QED
        BY <1>1, <2>2, <3>1, <3>2, <3>3 DEF Stage, JsonName, Written
    <2>4. CASE pc[p] = "result"
      <3>1. CopyLeft(p) /\ text[p] = Converted(ChildArgs(p), fs[copied])
        BY <2>4 DEF Stage
      <3>2. Target(p) = ResultPath(p) /\ ResultPath(p) # copied /\ Data(p) = text[p]
            /\ pc'[p] = "yaml-tests"
        BY <2>2, <2>4, <3>1, ResultIsBeside DEF Target, CopyLeft, Data, Following
      <3>3. fs'[copied] = fs[copied] /\ fs'[ResultPath(p)] = Converted(ChildArgs(p), fs[copied])
        BY <1>2, <2>2, <3>1, <3>2
      <3>4. /\ cmd[p].source.ext = "yaml" =>
                  /\ PassesOn(Test(p, "yaml"), fs'[copied], fs'[ResultPath(p)])
                  /\ PassesOn(Test(p, "asconfig"), fs'[ResultPath(p)], fs'[copied])
            /\ cmd[p].source.ext = "conf" =>
                  /\ PassesOn(Test(p, "asconfig"), fs'[copied], fs'[ResultPath(p)])
                  /\ PassesOn(Test(p, "yaml"), fs'[ResultPath(p)], fs'[copied])
        BY <1>0, <3>1, <3>3, BothTestsPass DEF CopyLeft
      <3>5. \A format \in {"yaml", "asconfig"} :
               PassesOn(Test(p, format), fs'[Test(p, format).source], fs'[Test(p, format).expected])
        BY <3>1, <3>4, ResultIsBeside DEF Test, CopyLeft
      <3>6. ASSUME NEW format \in {"yaml", "asconfig"} PROVE Passes(Test(p, format))'
        <4>1. Passes(Test(p, format))' <=> PassesOn(Test(p, format)', fs'[Test(p, format)'.source],
                                                    fs'[Test(p, format)'.expected])
          BY DEF Passes, PassesOn
        <4>2. Test(p, format)' = Test(p, format)
          BY <1>1
        <4> QED
          BY <3>5, <4>1, <4>2
      <3>7. BothPass(p)'
        BY <3>6 DEF BothPass
      <3>8. ResultPath(p).ext # "json"
        BY <3>1, ResultIsBeside DEF CopyLeft, ConfigFile
      <3>9. fs'[versions] = fs[versions]
        BY <1>2, <1>3, <2>2, <3>2, <3>8 DEF JsonName
      <3> QED
        BY <1>1, <2>2, <3>2, <3>7, <3>9 DEF Stage, JsonName
    <2>5. CASE pc[p] \in JsonName
      <3>1. Target(p) = JsonFile(c, pc[p])
        BY <2>5 DEF Target, JsonName
      <3>2. \A f \in FilePath : f.ext # "json" => fs'[f] = fs[f]
        BY <1>3, <2>2, <2>5, <3>1
      <3>3. BothPass(p)'
        BY <1>0, <2>5, <3>2, BothPassStays DEF Stage
      <3>4. \A name \in JsonName : name # pc[p] => fs'[JsonFile(c, name)] = fs[JsonFile(c, name)]
        BY <1>2, <1>3, <2>2, <2>5, <3>1
      <3>5. pc[p] # "versions"
        BY <2>2 DEF Following, Making, Written
      <3>6. fs'[versions] = fs[versions]
        BY <3>4, <3>5 DEF JsonName
      <3>7. CASE pc[p] = "yaml-tests"
        <4>1. pc'[p] = "conf-tests" /\ Data(p) = Test(p, "yaml")
          BY <2>2, <3>7 DEF Following, Data
        <4>2. fs'[JsonFile(c, "yaml-tests")] = Test(p, "yaml")
          BY <2>2, <3>1, <3>7, <4>1
        <4> QED
          BY <1>1, <2>2, <3>3, <3>6, <4>1, <4>2 DEF Stage, JsonName
      <3>8. CASE pc[p] = "conf-tests"
        <4>1. pc'[p] = "versions" /\ Data(p) = Test(p, "asconfig")
          BY <2>2, <3>8 DEF Following, Data
        <4>2. fs'[JsonFile(c, "conf-tests")] = Test(p, "asconfig")
          BY <2>2, <3>1, <3>8, <4>1
        <4>3. fs'[JsonFile(c, "yaml-tests")] = Test(p, "yaml")
          BY <3>4, <3>8 DEF Stage, JsonName
        <4> QED
          BY <1>1, <2>2, <3>3, <3>6, <4>1, <4>2, <4>3 DEF Stage, JsonName
      <3> QED
        BY <2>5, <3>5, <3>7, <3>8 DEF JsonName
    <2> QED
      BY <2>1, <2>3, <2>4, <2>5 DEF Written, JsonName
  <1>9. ~Cut(p)
    BY DEF Cut, Goto, Making, Written, Typed, TypeOK
  <1> QED
    BY <1>5, <1>6, <1>7, <1>8, <1>9
       DEF Step, Making, Written, Setup, RemoveFile, RemoveDir, Mkdir
\* No directory appears but the one that a run makes for its case.
LEMMA DirFrame ==
    ASSUME Typed, NEW p \in Run, Step(p), ~Mkdir(p)
    PROVE  dirs' \subseteq dirs
  BY DEF Step, Setup, RemoveFile, RemoveDir, ReadSource, ConvertCopy, CreateFile, WriteFile, Cut

\* Where a run gets to while it makes its case.
LEMMA MakingGoesOn ==
    ASSUME Typed, NEW p \in Run, Step(p)
    PROVE  /\ pc[p] \in {"setup"} \cup Running
           /\ pc[p] \in Entered => pc[p] \in Making
           /\ pc[p] \in Making => pc'[p] \in Making \cup {"done", "cut"}
           /\ pc[p] \in Making /\ pc'[p] = "done" => WriteFile(p) /\ pc[p] = "versions"
           /\ pc[p] \in Making /\ pc'[p] = "cut" => Cut(p)
  <1>1. pc[p] \in {"setup"} \cup Running
    BY DEF Step, Setup, RemoveFile, RemoveDir, Mkdir, ReadSource, ConvertCopy, CreateFile,
           WriteFile, Cut, Running
  <1>2. pc[p] \in Entered => pc[p] \in Making
    BY <1>1 DEF Entered, Running, Written
  <1>3. CASE WriteFile(p)
    <2>1. pc[p] \in Written /\ pc'[p] = Following(pc[p])
      BY <1>3 DEF WriteFile, Goto, Typed, TypeOK
    <2>2. Following(pc[p]) \in Making \cup {"done"} /\ (Following(pc[p]) = "done" => pc[p] = "versions")
      BY <2>1 DEF Following, Making, Written
    <2>3. "done" \notin Making /\ "cut" \notin Making
      BY DEF Making, Written
    <2> QED
      BY <1>1, <1>2, <1>3, <2>1, <2>2, <2>3
  <1>4. CASE ReadSource(p) \/ ConvertCopy(p) \/ CreateFile(p)
    BY <1>1, <1>2, <1>4 DEF ReadSource, ConvertCopy, CreateFile, Goto, Typed, TypeOK, Making, Written
  <1>5. CASE Cut(p)
    BY <1>1, <1>2, <1>5 DEF Cut, Goto, Typed, TypeOK, Making, Written
  <1>6. CASE Setup(p) \/ RemoveFile(p) \/ RemoveDir(p) \/ Mkdir(p)
    BY <1>1, <1>2, <1>6 DEF Setup, RemoveFile, RemoveDir, Mkdir, Making, Written
  <1> QED
    BY <1>3, <1>4, <1>5, <1>6 DEF Step

\* What is described of a case depends on its files only.
LEMMA DescribedStays ==
    ASSUME NEW c \in Case, Described(c),
           \A f \in FilePath : f.dir = c => fs'[f] = fs[f] /\ owner'[f] = owner[f]
    PROVE  Described(c)'
  <1> DEFINE versions == JsonFile(c, "versions")
  <1>1. \A name \in JsonName : JsonFile(c, name) \in FilePath /\ JsonFile(c, name).dir = c
    BY DEF JsonFile, FilePath
  <1>2. \A name \in JsonName : fs'[JsonFile(c, name)] = fs[JsonFile(c, name)]
    BY <1>1
  <1>3. owner'[versions] = owner[versions] /\ fs'[versions] = fs[versions]
    BY <1>1 DEF JsonName
  <1> SUFFICES ASSUME owner[versions] # Nobody, fs[versions] \in Versions,
                      NEW name \in {"yaml-tests", "conf-tests"},
                      NEW t, t = fs[JsonFile(c, name)]
               PROVE  /\ t \in TestData
                      /\ t.ver = fs[versions].testedVersion
                      /\ Passes(fs[JsonFile(c, name)])'
                      /\ t.source.dir = c /\ t.expected.dir = c
    BY <1>2, <1>3 DEF Described, JsonName
  <1>4. /\ t \in TestData /\ t.ver = fs[versions].testedVersion
        /\ Passes(fs[JsonFile(c, name)])
        /\ t.source.dir = c /\ t.expected.dir = c
    BY DEF Described
  <1>5. PassesOn(t, fs[t.source], fs[t.expected])
    BY <1>4 DEF Passes, PassesOn
  <1>6. t.source \in FilePath /\ t.expected \in FilePath
    BY <1>4 DEF TestData
  <1>7. PassesOn(t, fs'[t.source], fs'[t.expected])
    BY <1>4, <1>5, <1>6
  <1>8. fs'[JsonFile(c, name)] = t
    BY <1>2 DEF JsonName
  <1>9. Passes(fs[JsonFile(c, name)])'
    BY <1>7, <1>8 DEF Passes, PassesOn
  <1> QED
    BY <1>4, <1>9

\* At the start no run has written anything, and every case that is there can be read.
LEMMA SoundInit == Init => AllSound
  <1> SUFFICES ASSUME Init, NEW c \in Case PROVE Sound(c)
    BY DEF AllSound
  <1>1. \A p \in Run : pc[p] = "setup"
    BY DEF Init
  <1>2. \A f \in FilePath : owner[f] = Nobody
    BY DEF Init
  <1>3. JsonFile(c, "versions") \in FilePath
    BY DEF JsonFile, FilePath, JsonName
  <1>4. ASSUME c \in dirs, NEW name \in {"yaml-tests", "conf-tests"}
        PROVE  fs[JsonFile(c, name)] \in TestData
    <2>1. PICK f \in FilePath : f.dir = c /\ fs[f] # Absent
      BY <1>4 DEF Init
    <2>2. fs \in InitialFiles
      BY DEF Init
    <2> QED
      BY <2>1, <2>2, InitialCasesAssumption DEF JsonFile
  <1>5. Loadable(c)
    BY <1>4 DEF Loadable
  <1>6. Attributed(c) /\ Described(c)
    BY <1>2, <1>3 DEF Attributed, Described
  <1> QED
    BY <1>1, <1>5, <1>6 DEF Sound, Making, Written, RunsOn

\* A step that leaves c alone, and the runs on it.
LEMMA SoundStays ==
    ASSUME Typed, NEW c \in Case, Sound(c), cmd' = cmd, c \in dirs' <=> c \in dirs,
           \A q \in RunsOn(c) : /\ pc'[q] = pc[q]
                                /\ pc[q] \in Making => text'[q] = text[q] /\ file'[q] = file[q],
           \A f \in FilePath : f.dir = c => fs'[f] = fs[f] /\ owner'[f] = owner[f]
    PROVE  Sound(c)'
  <1>1. RunsOn(c)' = RunsOn(c)
    BY DEF RunsOn, CaseOf
  <1>2. ASSUME NEW q \in RunsOn(c), pc[q] \in Making PROVE c \in dirs' /\ Stage(q)'
    <2>1. q \in Run /\ CaseOf(q) = c /\ cmd[q].source # NoSource /\ cmd \in [Run -> Command]
      BY DEF RunsOn, Typed, TypeOK
    <2> QED
      BY <1>2, <2>1, StageStays DEF Sound
  <1>3. Attributed(c)'
    BY <1>1 DEF Sound, Attributed, Entered
  <1>4. Described(c)'
    BY DescribedStays DEF Sound
  <1>5. \A name \in {"yaml-tests", "conf-tests"} : fs'[JsonFile(c, name)] = fs[JsonFile(c, name)]
    BY DEF JsonFile, FilePath, JsonName
  <1>6. Loadable(c)'
    BY <1>1, <1>5 DEF Sound, Loadable
  <1> QED
    BY <1>1, <1>2, <1>3, <1>4, <1>6 DEF Sound
\* A run of a case acts while another is making it: it is turned away.
LEMMA SoundTurnedAway ==
    ASSUME Typed, AllKept, NEW c \in Case, Undisturbed(c), Sound(c),
           NEW p \in RunsOn(c), Step(p), NEW q \in RunsOn(c), q # p, pc[q] \in Making
    PROVE  Sound(c)'
  <1>1. c \in dirs /\ p \in Run /\ q \in Run
    BY DEF Sound, RunsOn
  <1>2. /\ cmd' = cmd /\ c \in dirs' /\ pc'[p] \in {"refused", "cut"} /\ pc'[q] = pc[q]
        /\ \A f \in FilePath : f.dir = c => fs'[f] = fs[f] /\ owner'[f] = owner[f]
    BY <1>1, OthersStandBy
  <1>3. RunsOn(c)' = RunsOn(c)
    BY <1>1, RunsOnStays
  <1>4. \A r \in RunsOn(c) : r # p => pc'[r] = pc[r]
    BY <1>1, StepFrame DEF RunsOn
  <1>5. ASSUME NEW r \in RunsOn(c), pc'[r] \in Making PROVE Stage(r)'
    <2>1. r # p /\ r \in Run /\ pc[r] \in Making
      BY <1>2, <1>4, <1>5 DEF Making, Written, RunsOn
    <2>2. CaseOf(r) = c /\ cmd[r].source # NoSource /\ cmd \in [Run -> Command] /\ Stage(r)
      BY <2>1 DEF RunsOn, Typed, TypeOK, Sound
    <2>3. pc'[r] = pc[r] /\ text'[r] = text[r] /\ file'[r] = file[r]
      BY <1>1, <2>1, OthersStandBy
    <2> QED
      BY <1>2, <2>1, <2>2, <2>3, StageStays
  <1>6. Attributed(c)'
    <2> SUFFICES ASSUME NEW f \in FilePath, f.dir = c, owner'[f] # Nobody
                 PROVE  owner'[f] \in RunsOn(c) /\ pc'[owner'[f]] \in Entered
      BY <1>3 DEF Attributed
    <2>1. owner'[f] = owner[f] /\ owner[f] \in RunsOn(c) /\ pc[owner[f]] \in Entered
      BY <1>2 DEF Sound, Attributed
    <2>2. CASE owner[f] = p
      BY <1>1, <2>1, <2>2, MakingGoesOn DEF Entered
    <2>3. CASE owner[f] # p
      BY <1>4, <2>1, <2>3 DEF Entered
    <2> QED BY <2>2, <2>3
  <1>7. Described(c)'
    BY <1>2, DescribedStays DEF Sound
  <1>8. Loadable(c)'
    BY <1>2, <1>3 DEF Loadable
  <1> QED
    BY <1>2, <1>3, <1>5, <1>6, <1>7, <1>8 DEF Sound

\* Otherwise the other runs of the case are not at it.
OthersIdle(c, p) == \A q \in RunsOn(c) : q # p => pc[q] \notin Making

\* A run looks whether its case is there, makes its directory, or fails before that.
LEMMA SoundBefore ==
    ASSUME Typed, AllKept, NEW c \in Case, Undisturbed(c), Sound(c),
           NEW p \in RunsOn(c), Step(p), OthersIdle(c, p),
           pc[p] \notin Making \cup {"remove"}
    PROVE  Sound(c)'
  <1>0. p \in Run /\ CaseOf(p) = c /\ cmd[p].source # NoSource /\ cmd' = cmd
    BY StepFrame DEF RunsOn
  <1>1. Setup(p) \/ Mkdir(p) \/ Cut(p)
    BY DEF Step, Making, RemoveFile, RemoveDir, ReadSource, ConvertCopy, CreateFile, WriteFile
  <1>2. UNCHANGED <<fs, owner>>
    BY <1>1 DEF Setup, Mkdir, Cut, Making
  <1>3. RunsOn(c)' = RunsOn(c)
    BY <1>0, RunsOnStays
  <1>4. \A r \in RunsOn(c) : r # p => pc'[r] = pc[r]
    BY <1>0, StepFrame DEF RunsOn
  <1>5. Described(c)'
    BY <1>2, DescribedStays DEF Sound
  <1>6. Attributed(c)'
    BY <1>0, <1>2, <1>3, <1>4, MakingGoesOn DEF Sound, Attributed, Entered
  <1>7. CASE Mkdir(p)
    <2>1. pc'[p] = "read" /\ Stage(p)' /\ c \in dirs'
      BY <1>0, <1>7, FreshStage DEF Mkdir, Goto, Typed, TypeOK
    <2>2. Loadable(c)'
      BY <1>3, <2>1 DEF Loadable, Making
    <2>3. \A r \in RunsOn(c) : pc'[r] \in Making => r = p
      BY <1>4 DEF OthersIdle
    <2> QED
      BY <1>3, <1>5, <1>6, <2>1, <2>2, <2>3 DEF Sound
  <1>8. CASE Setup(p) \/ Cut(p)
    <2>1. dirs' = dirs /\ pc'[p] \in {"refused", "mkdir", "remove", "cut"}
      BY <1>0, <1>8 DEF Setup, Cut, Goto, Typed, TypeOK
    <2>2. \A r \in RunsOn(c) : pc'[r] \notin Making
      BY <1>4, <2>1 DEF OthersIdle, Making, Written
    <2>3. Loadable(c)'
      <3>1. \A r \in RunsOn(c) : pc'[r] \notin Making \cup {"remove", "cut"}
                                   => pc[r] \notin Making \cup {"remove", "cut"}
        BY <1>0, <1>4, MakingGoesOn DEF Running, Written
      <3> QED
        BY <1>2, <1>3, <2>1, <3>1 DEF Sound, Loadable
    <2> QED
      BY <1>3, <1>5, <1>6, <2>2, <2>3 DEF Sound
  <1> QED BY <1>1, <1>7, <1>8

\* An earlier case is removed by the only run there is on it; nothing in it is a run's.
LEMMA SoundRemoval ==
    ASSUME Typed, AllKept, NEW c \in Case, Undisturbed(c), Sound(c),
           NEW p \in RunsOn(c), Step(p), pc[p] = "remove"
    PROVE  Sound(c)'
  <1>0. p \in Run /\ CaseOf(p) = c /\ cmd[p].source # NoSource /\ cmd' = cmd
    BY StepFrame DEF RunsOn
  <1>1. ~Quiet(c)
    BY DEF AllKept, Kept
  <1>2. RunsOn(c) = {p}
    BY <1>1 DEF Quiet, Undisturbed
  <1>3. RunsOn(c)' = {p}
    BY <1>0, <1>2, RunsOnStays
  <1>4. \A f \in FilePath : f.dir = c => owner[f] = Nobody
    BY <1>2 DEF Sound, Attributed, Entered, Making, Written
  <1>5. RemoveFile(p) \/ RemoveDir(p) \/ Cut(p)
    BY DEF Step, Setup, Mkdir, ReadSource, ConvertCopy, CreateFile, WriteFile, Written
  <1>6. owner' = owner \/ \E f \in FilePath : owner' = [owner EXCEPT ![f] = Nobody]
    BY <1>5 DEF RemoveFile, RemoveDir, Cut, Written
  <1>7. \A f \in FilePath : f.dir = c => owner'[f] = Nobody
    BY <1>4, <1>6 DEF Typed, TypeOK
  <1>8. JsonFile(c, "versions") \in FilePath /\ JsonFile(c, "versions").dir = c
    BY DEF JsonFile, FilePath, JsonName
  <1>9. Attributed(c)'
    BY <1>7 DEF Attributed
  <1>10. owner'[JsonFile(c, "versions")] = Nobody
    BY <1>7, <1>8
  <1>11. Described(c)'
    BY <1>10 DEF Described
  <1>12. pc'[p] \in {"remove", "cut"} \/ (pc'[p] = "mkdir" /\ c \notin dirs')
    BY <1>0, <1>5 DEF RemoveFile, RemoveDir, Cut, Goto, Typed, TypeOK
  <1>13. Loadable(c)'
    BY <1>3, <1>12 DEF Loadable
  <1> QED
    BY <1>3, <1>9, <1>11, <1>12, <1>13 DEF Sound, Making, Written

\* With its last write a run has described its case.
LEMMA LastWrite ==
    ASSUME Typed, NEW p \in Run, cmd[p].source # NoSource, Stage(p), WriteFile(p),
           pc[p] = "versions"
    PROVE  /\ fs'[JsonFile(CaseOf(p), "yaml-tests")] = Test(p, "yaml")
           /\ fs'[JsonFile(CaseOf(p), "conf-tests")] = Test(p, "asconfig")
           /\ fs'[JsonFile(CaseOf(p), "versions")] = [testedVersion |-> cmd[p].ver]
           /\ Passes(Test(p, "yaml"))' /\ Passes(Test(p, "asconfig"))'
           /\ Test(p, "yaml")' = Test(p, "yaml") /\ Test(p, "asconfig")' = Test(p, "asconfig")
  <1> DEFINE c        == CaseOf(p)
             versions == JsonFile(c, "versions")
  <1>0. cmd \in [Run -> Command] /\ cmd' = cmd
    BY DEF Typed, TypeOK, WriteFile
  <1>1. /\ \A name \in JsonName : JsonFile(c, name) \in FilePath
        /\ \A m, n \in JsonName : JsonFile(c, m) = JsonFile(c, n) => m = n
    BY <1>0, CasePaths DEF JsonFile
  <1>2. /\ Target(p) = versions /\ Data(p) = [testedVersion |-> cmd[p].ver]
        /\ fs' = [fs EXCEPT ![versions] = Data(p)] /\ fs'[versions] = Data(p)
    BY WholeWrite DEF Target, Data
  <1>3. /\ fs[JsonFile(c, "yaml-tests")] = Test(p, "yaml")
        /\ fs[JsonFile(c, "conf-tests")] = Test(p, "asconfig")
        /\ BothPass(p)
    BY DEF Stage, JsonName
  <1>4. \A f \in FilePath : f # versions => fs'[f] = fs[f]
    BY <1>1, <1>2 DEF Typed, TypeOK, JsonName
  <1>5. /\ fs'[JsonFile(c, "yaml-tests")] = Test(p, "yaml")
        /\ fs'[JsonFile(c, "conf-tests")] = Test(p, "asconfig")
    BY <1>1, <1>3, <1>4 DEF JsonName
  <1>6. versions.ext = "json"
    BY DEF JsonFile
  <1>7. BothPass(p)'
    BY <1>0, <1>3, <1>4, <1>6, BothPassStays
  <1>8. Test(p, "yaml")' = Test(p, "yaml") /\ Test(p, "asconfig")' = Test(p, "asconfig")
    BY <1>0 DEF Test, CaseOf
  <1>9. Passes(Test(p, "yaml"))' /\ Passes(Test(p, "asconfig"))'
    BY <1>7 DEF BothPass
  <1> QED
    BY <1>2, <1>5, <1>8, <1>9

\* A run makes its case.
LEMMA SoundMaking ==
    ASSUME Typed, AllKept, NEW c \in Case, Undisturbed(c), Sound(c),
           NEW p \in RunsOn(c), Step(p), OthersIdle(c, p), pc[p] \in Making
    PROVE  Sound(c)'
  <1> DEFINE versions == JsonFile(c, "versions")
  <1>0. /\ p \in Run /\ CaseOf(p) = c /\ cmd[p].source # NoSource /\ cmd' = cmd
        /\ cmd \in [Run -> Command] /\ Stage(p) /\ c \in dirs
    BY StepFrame DEF RunsOn, Typed, TypeOK, Sound
  <1>1. RunsOn(c)' = RunsOn(c)
    BY <1>0, RunsOnStays
  <1>2. \A r \in RunsOn(c) : r # p => pc'[r] = pc[r]
    BY <1>0, StepFrame DEF RunsOn
  <1>3. c \in dirs'
    BY <1>0, StepOwns
  <1>4. pc'[p] \in Making \cup {"done", "cut"}
    BY <1>0, MakingGoesOn
  <1>5. Attributed(c)'
    <2> SUFFICES ASSUME NEW f \in FilePath, f.dir = c, owner'[f] # Nobody
                 PROVE  owner'[f] \in RunsOn(c) /\ pc'[owner'[f]] \in Entered
      BY <1>1 DEF Attributed
    <2>1. CASE owner'[f] = p
      BY <1>4, <2>1 DEF Entered
    <2>2. CASE owner'[f] # p
      <3>1. owner'[f] = owner[f]
        BY <1>0, <2>2, StepOwns
      <3>2. owner[f] \in RunsOn(c) /\ pc[owner[f]] \in Entered
        BY <3>1 DEF Sound, Attributed
      <3> QED
        BY <1>2, <2>2, <3>1, <3>2 DEF Entered
    <2> QED BY <2>1, <2>2
  <1>6. /\ \A name \in JsonName : JsonFile(c, name) \in FilePath
        /\ \A m, n \in JsonName : JsonFile(c, m) = JsonFile(c, n) => m = n
    BY DEF JsonFile, FilePath
  <1>7. \A r \in RunsOn(c) : pc'[r] \in Making => r = p
    BY <1>2 DEF OthersIdle
  <1>8. {Absent, Empty, Torn} \cap Versions = {}
    BY TestCasesAssumption
  <1>9. CASE pc'[p] \in Making
    <2>1. Stage(p)'
      BY <1>0, <1>9, OwnStage
    <2>2. CaseOf(p)' = c
      BY <1>0 DEF CaseOf
    <2>3. fs'[versions] \in {Absent, Empty}
      BY <2>1, <2>2 DEF Stage
    <2>4. Described(c)'
      BY <1>8, <2>3 DEF Described
    <2>5. Loadable(c)'
      BY <1>1, <1>9 DEF Loadable
    <2> QED
      BY <1>1, <1>3, <1>5, <1>7, <2>1, <2>4, <2>5 DEF Sound
  <1>10. CASE pc'[p] = "done"
    <2>1. WriteFile(p) /\ pc[p] = "versions"
      BY <1>0, <1>10, MakingGoesOn
    <2>2. /\ fs'[JsonFile(c, "yaml-tests")] = Test(p, "yaml")
          /\ fs'[JsonFile(c, "conf-tests")] = Test(p, "asconfig")
          /\ fs'[versions] = [testedVersion |-> cmd[p].ver]
          /\ Passes(Test(p, "yaml"))' /\ Passes(Test(p, "asconfig"))'
          /\ Test(p, "yaml")' = Test(p, "yaml") /\ Test(p, "asconfig")' = Test(p, "asconfig")
      BY <1>0, <2>1, LastWrite
    <2>9. \A format \in {"yaml", "asconfig"} :
             /\ Test(p, format) \in TestData /\ Test(p, format).ver = cmd[p].ver
             /\ Test(p, format).source.dir = c /\ Test(p, format).expected.dir = c
      BY <1>0, CasePaths
    <2>10. Passes(fs[JsonFile(c, "yaml-tests")])' /\ Passes(fs[JsonFile(c, "conf-tests")])'
      BY <2>2 DEF Passes
    <2>11. fs'[versions].testedVersion = cmd[p].ver
      BY <2>2
    <2>12. Described(c)'
      BY <2>2, <2>9, <2>10, <2>11 DEF Described
    <2>13. Loadable(c)'
      BY <2>2, <2>9 DEF Loadable
    <2> QED
      BY <1>1, <1>5, <1>7, <1>10, <2>12, <2>13 DEF Sound, Making, Written
  <1>11. CASE pc'[p] = "cut"
    <2>1. Cut(p)
      BY <1>0, <1>11, MakingGoesOn
    <2>2. fs[versions] \in {Absent, Empty}
      BY <1>0 DEF Stage
    <2>3. fs' = fs \/ fs' = [fs EXCEPT ![Target(p)] = fs[Target(p)]]
                   \/ fs' = [fs EXCEPT ![Target(p)] = Torn]
      BY <2>1 DEF Cut, Write
    <2>4. fs'[versions] \in {Absent, Empty, Torn}
      BY <1>6, <2>2, <2>3 DEF Typed, TypeOK, JsonName
    <2>5. Described(c)'
      BY <1>8, <2>4 DEF Described
    <2>6. Loadable(c)'
      BY <1>1, <1>11 DEF Loadable
    <2> QED
      BY <1>1, <1>5, <1>7, <1>11, <2>5, <2>6 DEF Sound, Making, Written
  <1> QED
    BY <1>4, <1>9, <1>10, <1>11

LEMMA SoundNext == Typed /\ AllKept /\ AllSound /\ [Next]_vars => AllSound'
  <1> SUFFICES ASSUME Typed, AllKept, AllSound, [Next]_vars, NEW c \in Case, Undisturbed(c)'
               PROVE  Sound(c)'
    BY DEF AllSound
  <1>1. CASE UNCHANGED vars
    <2>1. Undisturbed(c) /\ Sound(c)
      BY <1>1 DEF vars, Undisturbed, RunsOn, CaseOf, AllSound
    <2> QED
      BY <1>1, <2>1, SoundStays DEF vars, RunsOn
  <1>2. ASSUME NEW p \in Run, Step(p) PROVE Sound(c)'
    <2>1. Undisturbed(c) /\ Sound(c)
      BY <1>2, RunsOnStays DEF AllSound
    <2>2. CASE p \notin RunsOn(c)
      <3>1. cmd' = cmd /\ \A q \in RunsOn(c) : q # p /\ q \in Run /\ pc'[q] = pc[q]
        BY <1>2, <2>2, StepFrame DEF RunsOn
      <3>2. \A f \in FilePath : f.dir = c => fs'[f] = fs[f] /\ owner'[f] = owner[f]
        BY <1>2, <2>2, StepFrame DEF RunsOn
      <3>3. \A q \in RunsOn(c) : pc[q] \in Making => text'[q] = text[q] /\ file'[q] = file[q]
        BY <1>2, <2>1, <2>2, OthersStandBy DEF Sound, RunsOn
      <3>4. c \in dirs' <=> c \in dirs
        <4>1. CASE cmd[p].source = NoSource
          BY <1>2, <4>1, StepFrame
        <4>2. CASE CaseOf(p) # c
          <5>1. Mkdir(p) => dirs' = dirs \cup {CaseOf(p)}
            BY DEF Mkdir
          <5> QED
            BY <1>2, <4>2, <5>1, DirFrame, StepFrame
        <4> QED BY <2>2, <4>1, <4>2 DEF RunsOn
      <3> QED
        BY <2>1, <3>1, <3>2, <3>3, <3>4, SoundStays
    <2>3. CASE p \in RunsOn(c) /\ \E q \in RunsOn(c) : q # p /\ pc[q] \in Making
      BY <1>2, <2>1, <2>3, SoundTurnedAway
    <2>4. CASE p \in RunsOn(c) /\ OthersIdle(c, p)
      BY <1>2, <2>1, <2>4, SoundBefore, SoundRemoval, SoundMaking
    <2> QED BY <2>2, <2>3, <2>4 DEF OthersIdle
  <1> QED
    BY <1>1, <1>2 DEF Next, Finished, Step

LEMMA SoundInvariant == Spec => [](Typed /\ AllSound)
  BY TypedInit, TypedNext, KeptInit, KeptNext, SoundInit, SoundNext, PTL DEF Spec

\* Where nothing is removed while others may write, a versions.json that a run has
\* written whole means that both tests are described, and that the program as it was
\* then passes them, whatever runs there are and however they end (generateTestFiles
\* writes it last; the result is converted back with the version it was made for).
THEOREM DescribedCasesPass == Spec => []DescribedCasePasses
  <1>1. AllSound => DescribedCasePasses
    <2> SUFFICES ASSUME AllSound, NEW c \in Case, Undisturbed(c),
                        owner[JsonFile(c, "versions")] # Nobody,
                        fs[JsonFile(c, "versions")] \in Versions,
                        NEW name \in {"yaml-tests", "conf-tests"}
                 PROVE  /\ fs[JsonFile(c, name)] \in TestData
                        /\ fs[JsonFile(c, name)].ver = fs[JsonFile(c, "versions")].testedVersion
                        /\ Passes(fs[JsonFile(c, name)])
      BY DEF DescribedCasePasses
    <2> QED
      BY DEF AllSound, Sound, Described
  <1> QED
    BY SoundInvariant, <1>1, PTL

\* Unless a run is underway or was cut off, every case directory can be taken in by
\* the integration tests, which give up on all of them at the first they cannot read
\* (getExtraTests, testgen.go: a run that is refused leaves no directory behind).
THEOREM SuiteLoads == Spec => []SuiteLoadsUnlessCut
  <1>1. Typed /\ AllSound => SuiteLoadsUnlessCut
    <2> SUFFICES ASSUME Typed, AllSound, \A c \in Case : Undisturbed(c),
                        \A p \in Run : pc[p] \in {"setup", "done", "refused"},
                        NEW c \in dirs, NEW name \in {"yaml-tests", "conf-tests"}
                 PROVE  fs[JsonFile(c, name)] \in TestData
      BY DEF SuiteLoadsUnlessCut, ExtraTests
    <2>1. c \in Case
      BY DEF Typed, TypeOK
    <2>2. Loadable(c)
      BY <2>1 DEF AllSound, Sound
    <2>3. \A p \in RunsOn(c) : pc[p] \notin Making \cup {"remove", "cut"}
      BY DEF RunsOn, Making, Written
    <2> QED
      BY <2>2, <2>3 DEF Loadable
  <1> QED
    BY SoundInvariant, <1>1, PTL

-----------------------------------------------------------------------------
(* A run that succeeds leaves its case.                                      *)

\* What a run that is done has described: both tests, which pass, and the version.
Whole(p) ==
    LET c == CaseOf(p)
    IN /\ fs[JsonFile(c, "yaml-tests")] = Test(p, "yaml")
       /\ fs[JsonFile(c, "conf-tests")] = Test(p, "asconfig")
       /\ fs[JsonFile(c, "versions")] = [testedVersion |-> cmd[p].ver]
       /\ Passes(Test(p, "yaml")) /\ Passes(Test(p, "asconfig"))

Successes(c) ==
    \A p \in RunsOn(c) :
        /\ pc[p] \in Making \cup {"done"} => Owns(p, c)
        /\ pc[p] = "done" => Whole(p)

AllSucceed == \A c \in Case : Undisturbed(c) => Successes(c)

\* A case stays whole while its files stay.
LEMMA WholeStays ==
    ASSUME Typed, NEW p \in Run, cmd[p].source # NoSource, cmd' = cmd,
           \A f \in FilePath : f.dir = CaseOf(p) => fs'[f] = fs[f],
           Whole(p)
    PROVE  Whole(p)'
  <1>1. cmd \in [Run -> Command]
    BY DEF Typed, TypeOK
  <1>2. \A name \in JsonName : fs'[JsonFile(CaseOf(p), name)] = fs[JsonFile(CaseOf(p), name)]
    BY <1>1, CasePaths
  <1>3. BothPass(p)
    BY DEF Whole, BothPass
  <1>4. BothPass(p)'
    BY <1>1, <1>3, BothPassStays
  <1>5. /\ CaseOf(p)' = CaseOf(p) /\ Test(p, "yaml")' = Test(p, "yaml")
        /\ Test(p, "asconfig")' = Test(p, "asconfig")
    BY DEF CaseOf, Test
  <1>6. Passes(Test(p, "yaml"))' /\ Passes(Test(p, "asconfig"))'
    BY <1>4 DEF BothPass
  <1> QED
    BY <1>2, <1>5, <1>6 DEF Whole, JsonName

\* What the runs of a case have left stays while its files do and they stay where they are.
LEMMA SuccessesStay ==
    ASSUME Typed, NEW c \in Case, Successes(c), cmd' = cmd, c \in dirs => c \in dirs',
           \A f \in FilePath : f.dir = c => fs'[f] = fs[f] /\ owner'[f] = owner[f],
           NEW q \in RunsOn(c), pc'[q] = pc[q]
    PROVE  /\ pc'[q] \in Making \cup {"done"} => Owns(q, c)'
           /\ pc'[q] = "done" => Whole(q)'
  <1>1. q \in Run /\ cmd[q].source # NoSource /\ CaseOf(q) = c
    BY DEF RunsOn
  <1>2. pc'[q] \in Making \cup {"done"} => Owns(q, c)'
    BY DEF Successes, Owns
  <1>3. pc'[q] = "done" => Whole(q)'
    BY <1>1, WholeStays DEF Successes
  <1> QED
    BY <1>2, <1>3

\* While a run makes an undisturbed case, no other run of it is making or has made it.
LEMMA OneMaker ==
    ASSUME Typed, AllKept, NEW c \in Case, Undisturbed(c), Sound(c), Successes(c),
           NEW p \in RunsOn(c), pc[p] \in Making,
           NEW q \in RunsOn(c), q # p
    PROVE  pc[q] \notin Making \cup {"done"}
  <1>1. Kept(c)
    BY DEF Undisturbed, Quiet, AllKept
  <1>2. pc[q] \notin Making
    BY <1>1 DEF Kept
  <1>3. ASSUME pc[q] = "done" PROVE FALSE
    <2>1. fs[JsonFile(c, "versions")] = [testedVersion |-> cmd[q].ver]
      BY <1>3 DEF Successes, Whole, RunsOn
    <2>2. fs[JsonFile(c, "versions")] \in {Absent, Empty}
      BY DEF Sound, Stage, RunsOn
    <2>3. cmd[q].ver \in Version
      BY DEF RunsOn, Typed, TypeOK, Command
    <2> QED
      BY <2>1, <2>2, <2>3, TestCasesAssumption DEF Versions
  <1> QED
    BY <1>2, <1>3

LEMMA SuccessesNext == Typed /\ AllKept /\ AllSound /\ AllSucceed /\ [Next]_vars => AllSucceed'
  <1> SUFFICES ASSUME Typed, AllKept, AllSound, AllSucceed, [Next]_vars,
                      NEW c \in Case, Undisturbed(c)'
               PROVE  Successes(c)'
    BY DEF AllSucceed
  <1>1. CASE UNCHANGED vars
    <2>1. Undisturbed(c) /\ Successes(c) /\ RunsOn(c)' = RunsOn(c)
      BY <1>1 DEF vars, Undisturbed, RunsOn, CaseOf, AllSucceed
    <2> QED
      BY <1>1, <2>1, SuccessesStay DEF vars, Successes
  <1>2. ASSUME NEW p \in Run, Step(p) PROVE Successes(c)'
    <2>1. /\ Undisturbed(c) /\ Successes(c) /\ Sound(c) /\ RunsOn(c)' = RunsOn(c) /\ cmd' = cmd
      BY <1>2, RunsOnStays, StepFrame DEF AllSucceed, AllSound
    <2>2. \A q \in RunsOn(c) : q # p => pc'[q] = pc[q]
      BY <1>2, StepFrame DEF RunsOn
    <2>3. CASE p \notin RunsOn(c)
      <3>1. \A f \in FilePath : f.dir = c => fs'[f] = fs[f] /\ owner'[f] = owner[f]
        BY <1>2, <2>3, StepFrame DEF RunsOn
      <3>2. c \in dirs => c \in dirs'
        BY <1>2, <2>3, StepFrame DEF RunsOn
      <3>3. \A q \in RunsOn(c) : pc'[q] = pc[q]
        BY <2>2, <2>3
      <3> QED
        BY <2>1, <3>1, <3>2, <3>3, SuccessesStay DEF Successes
    <2>4. CASE p \in RunsOn(c) /\ pc[p] \in Making
      <3>1. \A q \in RunsOn(c) : q # p => pc'[q] \notin Making \cup {"done"}
        BY <2>1, <2>2, <2>4, OneMaker
      <3>2. CaseOf(p) = c /\ cmd[p].source # NoSource /\ Stage(p)
        BY <2>1, <2>4 DEF RunsOn, Sound
      <3>3. Owns(p, c)'
        <4>1. Owns(p, c)
          BY <2>1, <2>4 DEF Successes
        <4> QED
          BY <1>2, <2>4, <4>1, StepOwns DEF Owns
      <3>4. ASSUME pc'[p] = "done" PROVE Whole(p)'
        <4>1. WriteFile(p) /\ pc[p] = "versions"
          BY <1>2, <2>4, <3>4, MakingGoesOn
        <4>2. CaseOf(p)' = CaseOf(p) /\ cmd'[p] = cmd[p]
          BY <2>1 DEF CaseOf
        <4> QED
          BY <3>2, <4>1, <4>2, LastWrite DEF Whole
      <3> QED
        BY <2>1, <3>1, <3>3, <3>4 DEF Successes
    <2>5. CASE p \in RunsOn(c) /\ pc[p] = "remove"
      <3>1. RunsOn(c) = {p}
        <4>1. ~Quiet(c)
          BY <2>5 DEF AllKept, Kept
        <4> QED
          BY <2>1, <2>5, <4>1 DEF Quiet, Undisturbed
      <3>2. RemoveFile(p) \/ RemoveDir(p) \/ Cut(p)
        BY <1>2, <2>5 DEF Step, Setup, Mkdir, ReadSource, ConvertCopy, CreateFile, WriteFile,
                          Written
      <3>3. pc'[p] \in {"remove", "mkdir", "cut"}
        BY <2>5, <3>2 DEF RemoveFile, RemoveDir, Cut, Goto, Typed, TypeOK
      <3> QED
        BY <2>1, <3>1, <3>3 DEF Successes, Making, Written
    <2>6. CASE p \in RunsOn(c) /\ pc[p] \notin Making \cup {"remove"}
      <3>1. Setup(p) \/ Mkdir(p) \/ Cut(p)
        BY <1>2, <2>6 DEF Step, Making, RemoveFile, RemoveDir, ReadSource, ConvertCopy,
                          CreateFile, WriteFile
      <3>2. UNCHANGED <<fs, owner>>
        BY <2>6, <3>1 DEF Setup, Mkdir, Cut, Making
      <3>3. CaseOf(p) = c /\ cmd[p].source # NoSource
        BY <2>6 DEF RunsOn
      <3>4. CASE Mkdir(p)
        <4>1. c \notin dirs /\ c \in dirs' /\ pc'[p] = "read"
          BY <3>3, <3>4 DEF Mkdir, Goto, Typed, TypeOK
        <4>2. \A q \in RunsOn(c) : q # p => pc'[q] \notin Making \cup {"done"}
          BY <2>1, <2>2, <4>1 DEF Successes, Owns
        <4>3. \A f \in FilePath : f.dir = c => fs[f] = Absent
          BY <4>1, TestCasesAssumption DEF Typed, TypeOK
        <4>4. Owns(p, c)'
          BY <3>2, <4>1, <4>3 DEF Owns
        <4> QED
          BY <2>1, <4>1, <4>2, <4>4 DEF Successes
      <3>5. CASE Setup(p) \/ Cut(p)
        <4>1. dirs' = dirs /\ pc'[p] \in {"refused", "mkdir", "remove", "cut"}
          BY <3>3, <3>5 DEF Setup, Cut, Goto, Typed, TypeOK
        <4>2. pc'[p] \notin Making \cup {"done"}
          BY <4>1 DEF Making, Written
        <4>3. \A q \in RunsOn(c) : q # p =>
                 /\ pc'[q] \in Making \cup {"done"} => Owns(q, c)'
                 /\ pc'[q] = "done" => Whole(q)'
          BY <2>1, <2>2, <3>2, <4>1, SuccessesStay
        <4> QED
          BY <2>1, <4>2, <4>3 DEF Successes
      <3> QED BY <3>1, <3>4, <3>5
    <2> QED BY <2>3, <2>4, <2>5, <2>6
  <1> QED
    BY <1>1, <1>2 DEF Next, Finished, Step

\* A run that comes to its end has left its case whole and its own, whatever other runs
\* did meanwhile and since, and whatever was there before, as long as none of them
\* removes the case again (generateTestFiles, after os.RemoveAll and os.Mkdir).
THEOREM SuccessLeaves == Spec => []SuccessLeavesACase
  <1>1. Init => AllSucceed
    BY DEF Init, AllSucceed, Successes, Making, Written, RunsOn
  <1>2. Typed /\ AllSucceed => SuccessLeavesACase
    <2> SUFFICES ASSUME Typed, AllSucceed, NEW p \in Run, pc[p] = "done", Undisturbed(CaseOf(p))
                 PROVE  Owns(p, CaseOf(p)) /\ Whole(p)
      BY DEF SuccessLeavesACase, Owns, Whole
    <2>1. cmd[p].source # NoSource
      BY DEF Typed, Progress
    <2>2. CaseOf(p) \in Case /\ p \in RunsOn(CaseOf(p))
      BY <2>1, CasePaths DEF Typed, TypeOK, RunsOn
    <2> QED
      BY <2>2 DEF AllSucceed, Successes
  <1> QED
    BY TypedInit, TypedNext, KeptInit, KeptNext, SoundInit, SoundNext, SuccessesNext,
       <1>1, <1>2, PTL DEF Spec

-----------------------------------------------------------------------------
(* The names of an obfuscated copy.                                         *)

\* A set of numbers with zero and the successor of each of its members has them all:
\* were there one above it, what is below that one could be shifted by one into less.
LEMMA SetInduction ==
    ASSUME NEW S \in SUBSET Nat, 0 \in S, \A n \in S : n + 1 \in S
    PROVE  S = Nat
  <1> SUFFICES ASSUME NEW x \in Nat, x \notin S
               PROVE  FALSE
    OBVIOUS
  <1> DEFINE A == {n \in 0..x : n \in S}
             shift == [n \in A |-> n + 1]
  <1>1. IsFiniteSet(A)
    <2>1. IsFiniteSet(0..x)
      BY FS_Interval
    <2>2. A \in SUBSET (0..x)
      OBVIOUS
    <2> QED
      BY <2>1, <2>2, FS_Subset
  <1>2. 0 \in A
    OBVIOUS
  <1>3. IsFiniteSet(A \ {0}) /\ Cardinality(A \ {0}) = Cardinality(A) - 1
    BY <1>1, <1>2, FS_RemoveElement
  <1>4. shift \in Injection(A, A \ {0})
    <2>1. \A n \in A : n + 1 \in A \ {0}
      OBVIOUS
    <2>2. shift \in [A -> A \ {0}]
      BY <2>1
    <2>3. \A m, n \in A : shift[m] = shift[n] => m = n
      OBVIOUS
    <2> QED
      BY <2>2, <2>3 DEF Injection, IsInjective
  <1>5. Cardinality(A) <= Cardinality(A \ {0})
    BY <1>3, <1>4, FS_Injection
  <1>6. Cardinality(A) \in Nat
    BY <1>1, FS_CardinalityType
  <1> HIDE DEF A
  <1> QED
    BY <1>3, <1>5, <1>6

\* From the first number of an interval to the next ones.
LEMMA UpwardInduction ==
    ASSUME NEW a \in Nat, NEW b \in Nat, NEW S, a \in S,
           \A i \in a..b - 1 : i \in S => i + 1 \in S
    PROVE  \A i \in a..b : i \in S
  <1> DEFINE R == {n \in Nat : a + n <= b => a + n \in S}
  <1>1. 0 \in R
    OBVIOUS
  <1>2. \A n \in R : n + 1 \in R
    <2> SUFFICES ASSUME NEW n \in R, a + (n + 1) <= b
                 PROVE  a + (n + 1) \in S
      OBVIOUS
    <2>1. a + n \in a..b - 1 /\ a + n \in S
      OBVIOUS
    <2> QED
      BY <2>1
  <1>3. R \in SUBSET Nat
    OBVIOUS
  <1> HIDE DEF R
  <1>4. R = Nat
    BY <1>1, <1>2, <1>3, SetInduction, Zenon
  <1> SUFFICES ASSUME NEW i \in a..b
               PROVE  i \in S
    OBVIOUS
  <1>5. i - a \in R
    BY <1>4
  <1> QED
    BY <1>5 DEF R

\* What PatternsOn is defined by, up to a number of patterns.
IsPatternRun(f, t, l, patterns, m) ==
    f = [i \in 0..m |->
            IF i = 0 THEN [names |-> t.names, seen |-> t.seen, line |-> l]
            ELSE obfuscateLine(f[i - 1], patterns[i])]

\* There is such a function, whatever the number.
LEMMA PatternRunsExist ==
    ASSUME NEW t, NEW l, NEW patterns, NEW m \in Nat
    PROVE  \E f : IsPatternRun(f, t, l, patterns, m)
  <1> DEFINE start == [names |-> t.names, seen |-> t.seen, line |-> l]
             S == {k \in Nat : \E f : IsPatternRun(f, t, l, patterns, k)}
  <1>1. 0 \in S
    <2> DEFINE f == [i \in 0..0 |-> start]
    <2>1. IsPatternRun(f, t, l, patterns, 0)
      BY DEF IsPatternRun
    <2> QED
      BY <2>1
  <1>2. ASSUME NEW k \in S
        PROVE  k + 1 \in S
    <2>1. PICK f : IsPatternRun(f, t, l, patterns, k)
      OBVIOUS
    <2> DEFINE g == [i \in 0..(k + 1) |->
                       IF i <= k THEN f[i] ELSE obfuscateLine(f[k], patterns[k + 1])]
    <2>2. ASSUME NEW i \in 0..(k + 1)
          PROVE  g[i] = IF i = 0 THEN start ELSE obfuscateLine(g[i - 1], patterns[i])
      <3>1. CASE i <= k
        <4>1. f[i] = IF i = 0 THEN start ELSE obfuscateLine(f[i - 1], patterns[i])
          <5>1. i \in 0..k
            BY <3>1
          <5> QED
            BY <2>1, <5>1, Zenon DEF IsPatternRun
        <4>2. i # 0 => g[i - 1] = f[i - 1]
          BY <3>1
        <4> QED
          BY <3>1, <4>1, <4>2
      <3>2. CASE i = k + 1
        BY <3>2
      <3> QED
        BY <3>1, <3>2
    <2>3. IsPatternRun(g, t, l, patterns, k + 1)
      BY <2>2 DEF IsPatternRun
    <2> QED
      BY <2>3
  <1> HIDE DEF S
  <1>3. S = Nat
    <2>1. S \in SUBSET Nat
      BY DEF S
    <2> QED
      BY <1>1, <1>2, <2>1, SetInduction, Zenon
  <1> QED
    BY <1>3 DEF S

\* PatternsOn applies one pattern after the other.
LEMMA PatternsFollow ==
    ASSUME NEW t, NEW l
    PROVE  /\ PatternsOn(t, l)[0] = [names |-> t.names, seen |-> t.seen, line |-> l]
           /\ \A i \in 1..Len(Matching(l.key)) :
                 PatternsOn(t, l)[i] = obfuscateLine(PatternsOn(t, l)[i - 1], Matching(l.key)[i])
  <1> DEFINE P(g) == g = [i \in 0..Len(Matching(l.key)) |->
                            IF i = 0 THEN [names |-> t.names, seen |-> t.seen, line |-> l]
                            ELSE obfuscateLine(g[i - 1], Matching(l.key)[i])]
  <1>0. Len(Matching(l.key)) \in Nat
    BY DEF Matching
  <1>1. \E g : P(g)
    <2>1. PICK g : IsPatternRun(g, t, l, Matching(l.key), Len(Matching(l.key)))
      BY <1>0, PatternRunsExist, Zenon
    <2> QED
      BY <2>1 DEF IsPatternRun
  <1>2. PatternsOn(t, l) = CHOOSE g : P(g)
    BY Zenon DEF PatternsOn
  <1>3. P(PatternsOn(t, l))
    <2> HIDE DEF P
    <2>1. P(CHOOSE g : P(g))
      BY <1>1
    <2> QED
      BY <1>2, <2>1
  <1> QED
    BY <1>3

\* What TablesAfter is defined by, up to a number of lines.
IsTableRun(f, lines, m) ==
    f = [n \in 0..m |->
            IF n = 0 THEN FreshTable
            ELSE PatternsOn(f[n - 1], lines[n])[Len(Matching(lines[n].key))]]

\* There is such a function, whatever the number.
LEMMA TableRunsExist ==
    ASSUME NEW lines, NEW m \in Nat
    PROVE  \E f : IsTableRun(f, lines, m)
  <1> DEFINE Leaves(t, l) == PatternsOn(t, l)[Len(Matching(l.key))]
             S == {k \in Nat : \E f : IsTableRun(f, lines, k)}
  <1>1. 0 \in S
    <2> DEFINE f == [n \in 0..0 |-> FreshTable]
    <2>1. IsTableRun(f, lines, 0)
      BY DEF IsTableRun
    <2> QED
      BY <2>1
  <1>2. ASSUME NEW k \in S
        PROVE  k + 1 \in S
    <2>1. PICK f : IsTableRun(f, lines, k)
      OBVIOUS
    <2> DEFINE g == [n \in 0..(k + 1) |->
                       IF n <= k THEN f[n] ELSE Leaves(f[k], lines[k + 1])]
    <2>2. ASSUME NEW n \in 0..(k + 1)
          PROVE  g[n] = IF n = 0 THEN FreshTable ELSE Leaves(g[n - 1], lines[n])
      <3>1. CASE n <= k
        <4>1. f[n] = IF n = 0 THEN FreshTable ELSE Leaves(f[n - 1], lines[n])
          <5>1. n \in 0..k
            BY <3>1
          <5> QED
            BY <2>1, <5>1, Zenon DEF IsTableRun
        <4>2. n # 0 => g[n - 1] = f[n - 1]
          BY <3>1
        <4> QED
          BY <3>1, <4>1, <4>2
      <3>2. CASE n = k + 1
        BY <3>2
      <3> QED
        BY <3>1, <3>2
    <2>3. IsTableRun(g, lines, k + 1)
      BY <2>2 DEF IsTableRun
    <2> QED
      BY <2>3
  <1> HIDE DEF S
  <1>3. S = Nat
    <2>1. S \in SUBSET Nat
      BY DEF S
    <2> QED
      BY <1>1, <1>2, <2>1, SetInduction, Zenon
  <1> QED
    BY <1>3 DEF S

\* TablesAfter takes one line after the other.
LEMMA TablesFollow ==
    ASSUME NEW lines, Len(lines) \in Nat
    PROVE  /\ TablesAfter(lines)[0] = FreshTable
           /\ \A n \in 1..Len(lines) :
                 TablesAfter(lines)[n]
                 = PatternsOn(TablesAfter(lines)[n - 1], lines[n])[Len(Matching(lines[n].key))]
  <1> DEFINE P(g) == g = [n \in 0..Len(lines) |->
                            IF n = 0 THEN FreshTable
                            ELSE PatternsOn(g[n - 1], lines[n])[Len(Matching(lines[n].key))]]
  <1>1. \E g : P(g)
    <2>1. PICK g : IsTableRun(g, lines, Len(lines))
      BY TableRunsExist, Zenon
    <2> QED
      BY <2>1 DEF IsTableRun
  <1>2. TablesAfter(lines) = CHOOSE g : P(g)
    BY Zenon DEF TablesAfter
  <1>3. P(TablesAfter(lines))
    <2> HIDE DEF P
    <2>1. P(CHOOSE g : P(g))
      BY <1>1
    <2> QED
      BY <1>2, <2>1
  <1> QED
    BY <1>3

\* No name's number is beyond the counter its pattern numbers by.
Counts(t) ==
    /\ DOMAIN t.names = DOMAIN Numbered
    /\ t.seen \in [Counter -> Nat]
    /\ \A e \in DOMAIN Numbered :
          t.names[e].num \in Nat /\ t.names[e].num <= t.seen[Numbered[e].counter]

\* Numbers only grow.
Grown(t, u) == \A e \in DOMAIN Numbered : t.names[e].num <= u.names[e].num

\* The program starts with such a table.
LEMMA FreshTableCounts == Counts(FreshTable)
  <1>1. \A e \in DOMAIN Numbered : Numbered[e].counter \in Counter
    BY DEF Counter
  <1>2. \A e \in DOMAIN Numbered : Numbered[e].first.num \in {0, 1}
    BY DEF Numbered
  <1> QED
    BY <1>1, <1>2 DEF FreshTable, Counts

\* A pattern that numbers puts the name it has into the line and takes one with a
\* higher number, since others that share its counter have only increased it.
LEMMA NumberedPattern ==
    ASSUME NEW t, Counts(t), NEW e \in DOMAIN Numbered
    PROVE  /\ Counts(obfuscateLine(t, e)) /\ Grown(t, obfuscateLine(t, e))
           /\ obfuscateLine(t, e).line.key = t.line.key
           /\ obfuscateLine(t, e).line.name.num = t.names[e].num
           /\ t.names[e].num < obfuscateLine(t, e).names[e].num
  <1> DEFINE c == Numbered[e].counter
             r == obfuscateLine(t, e)
  <1>1. e \notin Fixed
    BY DEF Numbered, Fixed
  <1>2. \A d \in DOMAIN Numbered : Numbered[d].counter \in Counter
    BY DEF Counter
  <1>3. /\ r.names = [t.names EXCEPT ![e] = NextName(@, t.seen[c])]
        /\ r.seen = [t.seen EXCEPT ![c] = @ + 1]
        /\ r.line = [key |-> t.line.key, name |-> t.names[e]]
    BY <1>1 DEF obfuscateLine
  <1>4. \A n, s : NextName(n, s).num = s + 1
    BY DEF NextName
  <1>5. c \in Counter /\ t.seen[c] \in Nat
    BY <1>2 DEF Counts
  <1>6. r.seen \in [Counter -> Nat]
    <2> HIDE DEF c, r
    <2> QED
      BY <1>3, <1>5 DEF Counts
  <1>7. DOMAIN r.names = DOMAIN Numbered
    BY <1>3 DEF Counts
  <1>8. r.names[e].num = t.seen[c] + 1 /\ r.seen[c] = t.seen[c] + 1
    BY <1>2, <1>3, <1>4 DEF Counts
  <1>9. \A d \in DOMAIN Numbered : d # e => r.names[d] = t.names[d]
    BY <1>3 DEF Counts
  <1>10. \A d \in Counter : t.seen[d] \in Nat /\ r.seen[d] \in Nat /\ t.seen[d] <= r.seen[d]
    BY <1>2, <1>3, <1>5 DEF Counts
  <1> HIDE DEF c, r
  <1>11. Counts(r) /\ Grown(t, r)
    <2>1. \A d \in DOMAIN Numbered : t.names[d].num \in Nat
      BY DEF Counts
    <2>2. \A d \in DOMAIN Numbered : t.names[d].num <= t.seen[Numbered[d].counter]
      BY DEF Counts
    <2>3. \A d \in DOMAIN Numbered : r.names[d].num \in Nat
      BY <1>5, <1>8, <1>9, <2>1
    <2>4. \A d \in DOMAIN Numbered : r.names[d].num <= r.seen[Numbered[d].counter]
      BY <1>2, <1>5, <1>8, <1>9, <1>10, <2>1, <2>2 DEF c
    <2>5. \A d \in DOMAIN Numbered : t.names[d].num <= r.names[d].num
      BY <1>5, <1>8, <1>9, <2>1, <2>2 DEF c
    <2> QED
      BY <1>6, <1>7, <2>3, <2>4, <2>5 DEF Counts, Grown
  <1>12. t.names[e].num < r.names[e].num
    BY <1>5, <1>8 DEF Counts, c
  <1> QED
    BY <1>3, <1>11, <1>12 DEF r

\* The other patterns leave the table as it is.
LEMMA FixedPattern ==
    ASSUME NEW t, Counts(t), NEW e \in Fixed
    PROVE  /\ Counts(obfuscateLine(t, e)) /\ Grown(t, obfuscateLine(t, e))
           /\ obfuscateLine(t, e).line.key = t.line.key
           /\ obfuscateLine(t, e).names = t.names
  <1>1. /\ obfuscateLine(t, e).names = t.names /\ obfuscateLine(t, e).seen = t.seen
        /\ obfuscateLine(t, e).line.key = t.line.key
    BY DEF obfuscateLine
  <1>2. \A d \in DOMAIN Numbered : t.names[d].num <= t.names[d].num
    BY DEF Counts
  <1> QED
    BY <1>1, <1>2 DEF Counts, Grown


LEMMA GrownOn ==
    ASSUME NEW t, Counts(t), NEW u, Counts(u), NEW v, Counts(v), Grown(t, u), Grown(u, v)
    PROVE  Grown(t, v)
  BY DEF Counts, Grown

\* What a line is left with: a number that its pattern has not had for a line before,
\* as it has only ever gone up, and will not have for one after.
Takes(t, l, u) ==
    /\ Counts(u) /\ Grown(t, u)
    /\ u.line.key = l.key
    /\ l.key \in DOMAIN Numbered => /\ u.line.name.num \in Nat
                                    /\ t.names[l.key].num <= u.line.name.num
                                    /\ u.line.name.num < u.names[l.key].num

\* The line's own pattern comes last, whatever others match it.
LEMMA LineTakes ==
    ASSUME NEW t, Counts(t), NEW l
    PROVE  Takes(t, l, PatternsOn(t, l)[Len(Matching(l.key))])
  <1> DEFINE on == PatternsOn(t, l)
             k == l.key
  <1>1. \/ k = "feature_key_file" /\ Matching(k) = <<"file", "key_file", "feature_key_file">>
        \/ k \in Fixed /\ \E e \in {"file", "address"} : Matching(k) = <<e, k>>
        \/ k \in DOMAIN Numbered \cup Fixed /\ Matching(k) = <<k>>
        \/ k \notin DOMAIN Numbered /\ Matching(k) = <<>>
    BY DEF Matching, Numbered, Fixed
  <1>3. /\ on[0] = [names |-> t.names, seen |-> t.seen, line |-> l]
        /\ \A i \in 1..Len(Matching(k)) : on[i] = obfuscateLine(on[i - 1], Matching(k)[i])
    BY PatternsFollow
  <1>4. Counts(on[0]) /\ Grown(t, on[0]) /\ on[0].line.key = k /\ on[0].names = t.names
    BY <1>3 DEF Counts, Grown
  <1>5. DOMAIN Numbered \cap Fixed = {}
    BY DEF Numbered, Fixed
  <1>6. "file" \in DOMAIN Numbered /\ "feature_key_file" \in DOMAIN Numbered
        /\ "key_file" \in Fixed /\ "address" \in Fixed
    BY DEF Numbered, Fixed
  <1> HIDE DEF on, k
  \* What one pattern does after another.
  <1>7. ASSUME NEW i \in {0, 1, 2}, NEW e \in DOMAIN Numbered \cup Fixed,
               Counts(on[i]), Grown(t, on[i]), on[i].line.key = k,
               on[i + 1] = obfuscateLine(on[i], e)
        PROVE  /\ Counts(on[i + 1]) /\ Grown(t, on[i + 1]) /\ on[i + 1].line.key = k
               /\ e \in DOMAIN Numbered =>
                     /\ on[i + 1].line.name.num \in Nat
                     /\ t.names[e].num <= on[i + 1].line.name.num
                     /\ on[i + 1].line.name.num < on[i + 1].names[e].num
    <2>1. /\ Counts(on[i + 1]) /\ Grown(on[i], on[i + 1]) /\ on[i + 1].line.key = k
          /\ e \in DOMAIN Numbered => /\ on[i + 1].line.name.num = on[i].names[e].num
                                      /\ on[i].names[e].num < on[i + 1].names[e].num
      <3>1. CASE e \in DOMAIN Numbered
        BY <1>7, <3>1, NumberedPattern, Zenon
      <3>2. CASE e \in Fixed
        <4>1. e \notin DOMAIN Numbered
          BY <1>5, <3>2
        <4> QED
          BY <1>7, <3>2, <4>1, FixedPattern, Zenon
      <3> QED
        BY <1>7, <3>1, <3>2
    <2>2. Grown(t, on[i + 1])
      BY <1>7, <2>1, GrownOn
    <2> QED
      BY <1>7, <2>1, <2>2 DEF Grown, Counts
  <1>8. CASE k = "feature_key_file" /\ Matching(k) = <<"file", "key_file", "feature_key_file">>
    <2>1. /\ on[1] = obfuscateLine(on[0], "file") /\ on[2] = obfuscateLine(on[1], "key_file")
          /\ on[3] = obfuscateLine(on[2], "feature_key_file")
          /\ Len(Matching(k)) = 3
      <3> DEFINE s == <<"file", "key_file", "feature_key_file">>
      <3>1. /\ Len(s) = 3 /\ s[1] = "file" /\ s[2] = "key_file" /\ s[3] = "feature_key_file"
            /\ {1, 2, 3} \subseteq 1..3 /\ 1 - 1 = 0 /\ 2 - 1 = 1 /\ 3 - 1 = 2
        OBVIOUS
      <3>2. Matching(k) = s
        BY <1>8
      <3> HIDE DEF s
      <3> QED
        BY <1>3, <3>1, <3>2
    <2>2. Counts(on[1]) /\ Grown(t, on[1]) /\ on[1].line.key = k
      <3>1. on[0 + 1] = obfuscateLine(on[0], "file")
        BY <2>1
      <3> QED
        BY <1>4, <1>6, <1>7, <3>1
    <2>3. Counts(on[2]) /\ Grown(t, on[2]) /\ on[2].line.key = k
      <3>1. on[1 + 1] = obfuscateLine(on[1], "key_file")
        BY <2>1
      <3> QED
        BY <1>6, <1>7, <2>2, <3>1
    <2>4. on[2 + 1] = obfuscateLine(on[2], k)
      BY <1>8, <2>1
    <2>5. Takes(t, l, on[3])
      BY <1>6, <1>7, <1>8, <2>3, <2>4 DEF Takes, k
    <2> QED
      BY <2>1, <2>5 DEF on, k
  <1>9. CASE k \in Fixed /\ \E e \in {"file", "address"} : Matching(k) = <<e, k>>
    <2>1. PICK e \in {"file", "address"} : Matching(k) = <<e, k>>
      BY <1>9
    <2>2. on[1] = obfuscateLine(on[0], e) /\ on[2] = obfuscateLine(on[1], k) /\ Len(Matching(k)) = 2
      BY <1>3, <2>1
    <2>3. Counts(on[1]) /\ Grown(t, on[1]) /\ on[1].line.key = k
      <3>1. on[0 + 1] = obfuscateLine(on[0], e)
        BY <2>2
      <3> QED
        BY <1>4, <1>6, <1>7, <3>1
    <2>4. on[1 + 1] = obfuscateLine(on[1], k)
      BY <2>2
    <2>5. Takes(t, l, on[2])
      BY <1>5, <1>7, <1>9, <2>3, <2>4 DEF Takes, k
    <2> QED
      BY <2>2, <2>5 DEF on, k
  <1>10. CASE k \in DOMAIN Numbered \cup Fixed /\ Matching(k) = <<k>>
    <2>1. on[0 + 1] = obfuscateLine(on[0], k) /\ Len(Matching(k)) = 1
      BY <1>3, <1>10
    <2>2. Takes(t, l, on[1])
      BY <1>4, <1>7, <1>10, <2>1 DEF Takes, k
    <2> QED
      BY <2>1, <2>2 DEF on, k
  <1>11. CASE k \notin DOMAIN Numbered /\ Matching(k) = <<>>
    <2>1. Takes(t, l, on[0])
      BY <1>4, <1>11 DEF Takes, k
    <2>2. Len(Matching(k)) = 0
      BY <1>11
    <2> QED
      BY <2>1, <2>2 DEF on, k
  <1> QED
    BY <1>1, <1>8, <1>9, <1>10, <1>11 DEF k


\* A table that comes later has the higher numbers.
LEMMA TablesTake ==
    ASSUME NEW lines, Len(lines) \in Nat
    PROVE  /\ \A n \in 0..Len(lines) : Counts(TablesAfter(lines)[n])
           /\ \A n \in 1..Len(lines) :
                 Takes(TablesAfter(lines)[n - 1], lines[n], TablesAfter(lines)[n])
           /\ \A m, n \in 0..Len(lines) :
                 m <= n => Grown(TablesAfter(lines)[m], TablesAfter(lines)[n])
  <1> DEFINE N == Len(lines)
             after == TablesAfter(lines)
             C == {n \in 0..N : Counts(after[n])}
  <1>1. /\ after[0] = FreshTable
        /\ \A n \in 1..N : after[n] = PatternsOn(after[n - 1], lines[n])[Len(Matching(lines[n].key))]
    BY TablesFollow
  <1> HIDE DEF after, N
  <1>2. N \in Nat
    BY DEF N
  <1>3. \A n \in 1..N : Counts(after[n - 1]) => Takes(after[n - 1], lines[n], after[n])
    BY <1>1, LineTakes
  <1>4. 0 \in C
    BY <1>1, <1>2, FreshTableCounts
  <1>5. ASSUME NEW n \in 0..N - 1, n \in C
        PROVE  n + 1 \in C
    <2>1. n + 1 \in 1..N /\ n + 1 \in 0..N /\ (n + 1) - 1 = n
      BY <1>2
    <2>2. Takes(after[n], lines[n + 1], after[n + 1])
      BY <1>3, <1>5, <2>1
    <2> QED
      BY <2>1, <2>2 DEF Takes
  <1>6. \A n \in 0..N : Counts(after[n])
    <2> HIDE DEF C
    <2>1. \A n \in 0..N : n \in C
      BY <1>2, <1>4, <1>5, UpwardInduction
    <2> QED
      BY <2>1 DEF C
  <1>7. \A n \in 1..N : Takes(after[n - 1], lines[n], after[n])
    <2>1. \A n \in 1..N : n - 1 \in 0..N
      BY <1>2
    <2> QED
      BY <1>3, <1>6, <2>1
  <1>8. ASSUME NEW m \in 0..N
        PROVE  \A n \in m..N : Grown(after[m], after[n])
    <2> DEFINE S == {n \in m..N : Grown(after[m], after[n])}
    <2>1. m \in S
      <3>1. Grown(after[m], after[m])
        BY <1>6 DEF Counts, Grown
      <3> QED
        BY <1>2, <3>1
    <2>2. ASSUME NEW n \in m..N - 1, n \in S
          PROVE  n + 1 \in S
      <3>1. /\ n + 1 \in 1..N /\ n + 1 \in m..N /\ (n + 1) - 1 = n
            /\ n \in 0..N /\ n + 1 \in 0..N
        BY <1>2
      <3>2. Takes(after[n], lines[n + 1], after[n + 1])
        BY <1>7, <3>1
      <3>3. Counts(after[m]) /\ Counts(after[n]) /\ Counts(after[n + 1])
        BY <1>6, <3>1
      <3>4. Grown(after[m], after[n + 1])
        BY <2>2, <3>2, <3>3, GrownOn DEF Takes
      <3> QED
        BY <3>1, <3>4
    <2> HIDE DEF S
    <2>3. \A n \in m..N : n \in S
      <3>1. m \in Nat
        OBVIOUS
      <3> QED
        BY <1>2, <2>1, <2>2, <3>1, UpwardInduction
    <2> QED
      BY <2>3 DEF S
  <1>9. \A m, n \in 0..N : m <= n => Grown(after[m], after[n])
    <2> SUFFICES ASSUME NEW m \in 0..N, NEW n \in 0..N, m <= n
                 PROVE  Grown(after[m], after[n])
      OBVIOUS
    <2>1. n \in m..N
      OBVIOUS
    <2> QED
      BY <1>8, <2>1
  <1> QED
    BY <1>6, <1>7, <1>9 DEF after, N

\* The lines that are obfuscated do not share a name with another of their kind.
LEMMA ObfuscatedApart ==
    ASSUME NEW lines, Len(lines) \in Nat
    PROVE  \A m, n \in 1..Len(obfuscated(lines)) :
              /\ m # n
              /\ obfuscated(lines)[m].key = obfuscated(lines)[n].key
              /\ obfuscated(lines)[m].key \in DOMAIN Numbered
              => obfuscated(lines)[m].name # obfuscated(lines)[n].name
  <1> DEFINE N == Len(lines)
             after == TablesAfter(lines)
             done == obfuscated(lines)
  <1>1. Len(done) = N /\ \A n \in 1..N : done[n] = after[n].line
    BY DEF obfuscated
  <1>2. /\ N \in Nat
        /\ \A n \in 0..N : Counts(after[n])
        /\ \A n \in 1..N : Takes(after[n - 1], lines[n], after[n])
        /\ \A m, n \in 0..N : m <= n => Grown(after[m], after[n])
    BY TablesTake
  <1> HIDE DEF N, after, done
  <1>3. ASSUME NEW m \in 1..N, NEW n \in 1..N, m < n,
               done[m].key = done[n].key, done[m].key \in DOMAIN Numbered
        PROVE  /\ done[m].name.num \in Nat /\ done[n].name.num \in Nat
               /\ done[m].name.num < done[n].name.num
    <2> DEFINE k == done[m].key
    <2>1. m \in 0..N /\ n - 1 \in 0..N /\ n \in 0..N /\ m <= n - 1
      BY <1>2, <1>3
    <2>2. Takes(after[m - 1], lines[m], after[m]) /\ Takes(after[n - 1], lines[n], after[n])
      BY <1>2
    <2>3. lines[m].key = k /\ lines[n].key = k
      BY <1>1, <1>3, <2>2 DEF Takes
    <2>4. /\ done[m].name.num \in Nat /\ done[n].name.num \in Nat
          /\ done[m].name.num < after[m].names[k].num
          /\ after[n - 1].names[k].num <= done[n].name.num
      BY <1>1, <1>3, <2>2, <2>3 DEF Takes
    <2>5. Grown(after[m], after[n - 1])
      BY <1>2, <2>1
    <2>6. after[m].names[k].num <= after[n - 1].names[k].num
      BY <1>3, <2>5 DEF Grown
    <2>7. after[m].names[k].num \in Nat /\ after[n - 1].names[k].num \in Nat
      BY <1>2, <1>3, <2>1 DEF Counts
    <2> DEFINE a == done[m].name.num
               b == after[m].names[k].num
               c == after[n - 1].names[k].num
               d == done[n].name.num
    <2>8. a \in Nat /\ b \in Nat /\ c \in Nat /\ d \in Nat /\ a < b /\ b <= c /\ c <= d
      BY <2>4, <2>6, <2>7
    <2> HIDE DEF a, b, c, d
    <2>9. a < d
      BY <2>8
    <2> QED
      BY <2>8, <2>9 DEF a, d
  <1>4. ASSUME NEW m \in 1..N, NEW n \in 1..N, m # n,
               done[m].key = done[n].key, done[m].key \in DOMAIN Numbered
        PROVE  done[m].name # done[n].name
    <2>1. m < n \/ n < m
      BY <1>2, <1>4
    <2>2. CASE m < n
      BY <1>3, <1>4, <2>2
    <2>3. CASE n < m
      <3>1. done[n].name.num < done[m].name.num /\ done[n].name.num \in Nat
        BY <1>3, <1>4, <2>3
      <3> QED
        BY <3>1
    <2> QED
      BY <2>1, <2>2, <2>3
  <1> QED
    BY <1>1, <1>4 DEF done

\* A set of numbers that has a member has a least one.
LEMMA LeastNumber ==
    ASSUME NEW S \in SUBSET Nat, S # {}
    PROVE  \E m \in S : \A n \in S : m <= n
  <1> SUFFICES ASSUME \A m \in S : \E n \in S : n < m
               PROVE  FALSE
    OBVIOUS
  <1> DEFINE R == {n \in Nat : \A m \in 0..n : m \notin S}
  <1>1. 0 \in R
    OBVIOUS
  <1>2. ASSUME NEW n \in R
        PROVE  n + 1 \in R
    <2>1. n + 1 \notin S
      OBVIOUS
    <2> QED
      BY <2>1
  <1>3. R \in SUBSET Nat
    OBVIOUS
  <1> HIDE DEF R
  <1>4. R = Nat
    BY <1>1, <1>2, <1>3, SetInduction, Zenon
  <1>5. \A m \in S : m \in R /\ m \in 0..m
    BY <1>4
  <1> QED
    BY <1>5 DEF R

\* What the scanner delivers of a sequence is a sequence.
LEMMA ScannedIsSequence ==
    ASSUME NEW lines, Len(lines) \in Nat
    PROVE  Len(Scanned(lines)) \in Nat
  <1> DEFINE last == {n \in 1..Len(lines) : lines[n].key = Overlong}
             k == CHOOSE n \in last : \A m \in last : n <= m
  <1>1. CASE last = {}
    BY <1>1 DEF Scanned
  <1>2. CASE last # {}
    <2>1. last \in SUBSET Nat
      OBVIOUS
    <2>2. \E n \in last : \A m \in last : n <= m
      <3> HIDE DEF last
      <3> QED
        BY <1>2, <2>1, LeastNumber
    <2>3. k \in last
      <3> HIDE DEF last
      <3> QED
        BY <2>2
    <2>4. k \in 1..Len(lines)
      BY <2>3
    <2>5. Scanned(lines) = SubSeq(lines, 1, k - 1)
      BY <1>2 DEF Scanned
    <2> HIDE DEF k
    <2>6. SubSeq(lines, 1, k - 1) = [i \in 1..k - 1 |-> lines[i]]
      BY <2>4
    <2>7. Len([i \in 1..k - 1 |-> lines[i]]) = k - 1
      BY <2>4
    <2> QED
      BY <2>4, <2>5, <2>6, <2>7
  <1> QED
    BY <1>1, <1>2

\* What a run is about to write, obfuscated, are the lines it makes of a configuration.
CopiesMade ==
    \A p \in Run :
        pc[p] = "copy" /\ Obfuscates(p, text[p]) /\ text[p].body # Unparsable =>
            \E b \in Body : Declarations[text[p].body] = processFileData(Declarations[b], TRUE)

LEMMA CopiesMadeInit == Init => CopiesMade
  BY DEF Init, CopiesMade

\* Reading the source is the only way to the copy, and leaves the format as it is.
LEMMA CopiesMadeNext == Typed /\ CopiesMade /\ [Next]_vars => CopiesMade'
  <1> SUFFICES ASSUME Typed, CopiesMade, [Next]_vars, NEW p \in Run, pc'[p] = "copy",
                      Obfuscates(p, text[p])', text'[p].body # Unparsable
               PROVE  \E b \in Body :
                         Declarations[text'[p].body] = processFileData(Declarations[b], TRUE)
    BY DEF CopiesMade
  <1>1. CASE pc[p] = "copy" /\ text'[p] = text[p] /\ cmd' = cmd
    BY <1>1 DEF CopiesMade, Obfuscates
  <1>2. CASE UNCHANGED vars
    BY <1>1, <1>2 DEF vars
  <1>3. ASSUME NEW q \in Run, Step(q), q # p
        PROVE  pc[p] = "copy" /\ text'[p] = text[p] /\ cmd' = cmd
    <2>1. pc[p] = "copy" /\ cmd' = cmd
      BY <1>3, StepFrame
    <2>2. text' = text \/ \E x : text' = [text EXCEPT ![q] = x]
      BY <1>3 DEF Step, Setup, RemoveFile, RemoveDir, Mkdir, ReadSource, ConvertCopy,
                  CreateFile, WriteFile, Cut
    <2> QED
      BY <1>3, <2>1, <2>2 DEF Typed, TypeOK
  <1>4. ASSUME Step(p), ~ReadSource(p)
        PROVE  pc[p] = "copy" /\ text'[p] = text[p] /\ cmd' = cmd
    <2>1. CASE CreateFile(p)
      BY <2>1 DEF CreateFile
    <2>2. CASE WriteFile(p)
      <3>1. pc[p] \in Written /\ pc'[p] = Following(pc[p])
        BY <2>2 DEF WriteFile, Goto, Typed, TypeOK
      <3> QED
        BY <3>1 DEF Following, Written
    <2>3. CASE RemoveFile(p)
      BY <2>3 DEF RemoveFile
    <2>4. CASE Setup(p) \/ RemoveDir(p) \/ Mkdir(p) \/ ConvertCopy(p) \/ Cut(p)
      BY <2>4 DEF Setup, RemoveDir, Mkdir, ConvertCopy, Cut, Goto, Typed, TypeOK
    <2> QED
      BY <1>4, <2>1, <2>2, <2>3, <2>4 DEF Step
  <1>5. CASE ReadSource(p)
    <2>1. PICK doc \in Readings(fs[cmd[p].source]) : text' = [text EXCEPT ![p] = Copied(p, doc)]
      BY <1>5 DEF ReadSource
    <2>2. doc \in Doc
      BY <2>1, ReadingsAreDocs
    <2>3. text'[p] = Copied(p, doc) /\ cmd' = cmd
      BY <1>5, <2>1 DEF ReadSource, Typed, TypeOK
    <2>4. /\ text'[p].fmt = doc.fmt
          /\ text'[p].body = IF doc.body = Unparsable THEN doc.body
                             ELSE Processed[Obfuscates(p, doc)][doc.body]
      BY <2>2, <2>3 DEF Copied, Doc
    <2>5. Obfuscates(p, doc)
      BY <2>3, <2>4 DEF Obfuscates
    <2>6. doc.body # Unparsable /\ doc.body \in Body
      BY <2>2, <2>4 DEF Doc
    <2>7. text'[p].body = Processed[TRUE][doc.body]
      <3>1. Obfuscates(p, doc) \in BOOLEAN
        BY DEF Obfuscates
      <3> HIDE DEF Obfuscates
      <3> QED
        BY <2>4, <2>5, <2>6, <3>1
    <2>8. Declarations[Processed[TRUE][doc.body]] = processFileData(Declarations[doc.body], TRUE)
      BY <2>6, ProcessedIsBody
    <2> QED
      BY <2>6, <2>7, <2>8
  <1> QED
    BY <1>1, <1>2, <1>3, <1>4, <1>5 DEF Next, Finished, Step

\* With -obfuscate, no two declarations of one kind in a conf file become declarations
\* of the same name, however many there are and whatever others count on the same
\* counter (the callbacks of testgen.go, line by line).
THEOREM NamesAreApart == Spec => []NamesStayApart
  <1>1. CopiesMade => NamesStayApart
    <2> SUFFICES ASSUME CopiesMade, NEW p \in Run, pc[p] = "copy",
                        Obfuscates(p, text[p]), text[p].body # Unparsable,
                        NEW lines, lines = Declarations[text[p].body],
                        NEW m \in 1..Len(lines), NEW n \in 1..Len(lines),
                        m # n, lines[m].key = lines[n].key, lines[m].key \in DOMAIN Numbered
                 PROVE  lines[m].name # lines[n].name
      BY DEF NamesStayApart
    <2>1. PICK b \in Body : lines = processFileData(Declarations[b], TRUE)
      BY DEF CopiesMade
    <2>2. lines = obfuscated(Scanned(Declarations[b]))
      BY <2>1 DEF processFileData
    <2>3. Len(Declarations[b]) \in Nat
      <3>1. Declarations[b] \in Seq(Line)
        BY DeclarationsAssumption
      <3> QED
        BY <3>1
    <2>4. Len(Scanned(Declarations[b])) \in Nat
      BY <2>3, ScannedIsSequence
    <2> QED
      BY <2>2, <2>4, ObfuscatedApart
  <1>2. Spec => [](Typed /\ CopiesMade)
    BY TypedInit, TypedNext, CopiesMadeInit, CopiesMadeNext, PTL DEF Spec
  <1> QED
    BY <1>1, <1>2, PTL
=============================================================================
