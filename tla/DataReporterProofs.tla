-------------------------- MODULE DataReporterProofs --------------------------
(***************************************************************************)
(* What DataReporter says of its files, for any number of entities, hours  *)
(* and records.                                                            *)
(***************************************************************************)
EXTENDS DataReporter, SequenceTheorems, TLAPS

Steps == {"open", "reopen", "write"}

\* Record n may be added to f without disturbing the order there.
Below(f, n) ==
    \A i \in DOMAIN files[f] :
        \/ files[f][i].record < n
        \/ files[f][i].record = n /\ ~files[f][i].whole

\* Where report() is tells which record it is about and what is open.
PointOfReport ==
    /\ pc \in Steps => /\ number \in DOMAIN place /\ filename = place[number]
                       /\ buffer < number
                       /\ \A f \in Names : \A i \in DOMAIN files[f] :
                             files[f][i].record < number
    /\ pc = "write" => IF stream = "closed" THEN filename \in damaged
                                            ELSE current_filename_ = filename
    /\ pc \in {"reopen", "down"} => stream = "closed"

\* What the buffer holds belongs at the end of the open file, which is damaged.
BufferBelongs ==
    /\ stream # "closed" => current_filename_ \in Names
    /\ stream = "bad" => /\ buffer \in DOMAIN place
                         /\ place[buffer] = current_filename_
                         /\ current_filename_ \in damaged
                         /\ Below(current_filename_, buffer)

Reported == \A f \in Names : \A i \in DOMAIN files[f] : files[f][i].record \in DOMAIN place

RInv == /\ ReporterTypeOK /\ PointOfReport /\ BufferBelongs /\ Reported
        /\ FilesAreInOrder /\ SoundFilesAreComplete

-----------------------------------------------------------------------------
(* What an addition to a file does *)

LEMMA Added ==
    ASSUME ReporterTypeOK, NEW f \in Names, NEW n \in 1 .. MaxRecords, NEW w \in BOOLEAN,
           Add(f, n, w)
    PROVE  /\ files' \in [Names -> Seq(Piece)]
           /\ \A g \in Names \ {f} : files'[g] = files[g]
           /\ DOMAIN files[f] = 1 .. Len(files[f]) /\ Len(files[f]) \in Nat
           /\ DOMAIN files'[f] = 1 .. Len(files[f]) + 1
           /\ \A i \in DOMAIN files[f] : files'[f][i] = files[f][i]
           /\ files'[f][Len(files[f]) + 1] = [record |-> n, whole |-> w]
<1> DEFINE p == [record |-> n, whole |-> w]
<1>1. files \in [Names -> Seq(Piece)] /\ p \in Piece
    BY DEF ReporterTypeOK, Piece
<1>2. files[f] \in Seq(Piece)
    BY <1>1
<1>3. files' = [files EXCEPT ![f] = Append(files[f], p)]
    BY DEF Add
<1>4. /\ Append(files[f], p) \in Seq(Piece)
      /\ Len(Append(files[f], p)) = Len(files[f]) + 1
      /\ \A i \in 1 .. Len(files[f]) : Append(files[f], p)[i] = files[f][i]
      /\ Append(files[f], p)[Len(files[f]) + 1] = p
    BY <1>1, <1>2, AppendProperties
<1>5. files'[f] = Append(files[f], p) /\ \A g \in Names \ {f} : files'[g] = files[g]
    BY <1>1, <1>3
<1>6. DOMAIN files[f] = 1 .. Len(files[f]) /\ Len(files[f]) \in Nat
    BY <1>2
<1>7. DOMAIN files'[f] = 1 .. Len(files[f]) + 1
    BY <1>4, <1>5
<1>8. files' \in [Names -> Seq(Piece)]
    BY <1>1, <1>3, <1>4
<1> QED
    BY <1>4, <1>5, <1>6, <1>7, <1>8

\* The order of a file survives an addition that belongs at its end.
LEMMA AddedInOrder ==
    ASSUME ReporterTypeOK, FilesAreInOrder, Reported, UNCHANGED place,
           NEW f \in Names, NEW n \in DOMAIN place, NEW w \in BOOLEAN,
           Add(f, n, w), place[n] = f, Below(f, n)
    PROVE  FilesAreInOrder' /\ Reported'
<1>1. n \in 1 .. MaxRecords
    BY ReporterAssumption, LenProperties DEF ReporterTypeOK, number
<1> DEFINE last == Len(files[f]) + 1
<1>2. /\ \A g \in Names \ {f} : files'[g] = files[g]
      /\ DOMAIN files[f] = 1 .. Len(files[f]) /\ Len(files[f]) \in Nat
      /\ DOMAIN files'[f] = 1 .. last
      /\ \A i \in DOMAIN files[f] : files'[f][i] = files[f][i]
      /\ files'[f][last] = [record |-> n, whole |-> w]
    BY <1>1, Added
<1>3. ASSUME NEW g \in Names, NEW i \in DOMAIN files'[g]
      PROVE  /\ place[files'[g][i].record] = g
             /\ files'[g][i].record \in DOMAIN place
             /\ \A j \in 1 .. i - 1 :
                   \/ files'[g][j].record < files'[g][i].record
                   \/ files'[g][j].record = files'[g][i].record /\ ~files'[g][j].whole
    <2>1. CASE g # f
        BY <1>2, <1>3, <2>1 DEF FilesAreInOrder, Reported
    <2>2. CASE g = f /\ i # last
        <3>1. i \in DOMAIN files[f] /\ \A j \in 1 .. i - 1 : j \in DOMAIN files[f]
            BY <1>2, <1>3, <2>2
        <3>2. /\ files'[g][i] = files[g][i] /\ i \in DOMAIN files[g]
              /\ \A j \in 1 .. i - 1 : files'[g][j] = files[g][j]
            BY <1>2, <2>2, <3>1
        <3> QED
            BY <3>2 DEF FilesAreInOrder, Reported
    <2>3. CASE g = f /\ i = last
        <3>1. \A j \in 1 .. i - 1 : j \in DOMAIN files[f]
            BY <1>2, <2>3
        <3> QED
            BY <1>2, <2>3, <3>1 DEF Below
    <2> QED
        BY <2>1, <2>2, <2>3
<1> QED
    BY <1>3 DEF FilesAreInOrder, Reported

\* Files that are not damaged stay complete when nothing is added to them.
LEMMA SoundKept ==
    ASSUME SoundFilesAreComplete, place \in Seq(Names), UNCHANGED place,
           damaged \subseteq damaged',
           \A g \in Names : g \in damaged' \/ files'[g] = files[g],
           \A n \in DOMAIN place : UnderWay(n) => UnderWay(n)' \/ place[n] \in damaged'
    PROVE  SoundFilesAreComplete'
<1> SUFFICES ASSUME NEW n \in DOMAIN place, place[n] \notin damaged', ~UnderWay(n)'
             PROVE  Holds(place[n], n)'
    BY DEF SoundFilesAreComplete
<1>1. place[n] \in Names
    OBVIOUS
<1>2. Holds(place[n], n)
    BY DEF SoundFilesAreComplete
<1>3. files'[place[n]] = files[place[n]]
    BY <1>1
<1> QED
    BY <1>2, <1>3 DEF Holds

-----------------------------------------------------------------------------
(* Closing, which both openClose and destroy do *)

\* A failed write of record n to the end of f.
LEMMA FailsKeeps ==
    ASSUME ReporterTypeOK, FilesAreInOrder, Reported, UNCHANGED place,
           NEW f \in Names, NEW n \in DOMAIN place, place[n] = f, Below(f, n),
           Fails(f, n)
    PROVE  /\ files' \in [Names -> Seq(Piece)]
           /\ damaged' = damaged \cup {f}
           /\ \A g \in Names \ {f} : files'[g] = files[g]
           /\ FilesAreInOrder' /\ Reported'
           /\ Below(f, n)'
<1>1. n \in 1 .. MaxRecords
    BY ReporterAssumption, LenProperties DEF ReporterTypeOK, number
<1>2. CASE UNCHANGED files
    <2>1. damaged' = damaged \cup {f} /\ files \in [Names -> Seq(Piece)]
        BY DEF Fails, Damage, ReporterTypeOK
    <2> QED
        BY <1>2, <2>1 DEF FilesAreInOrder, Reported, Below
<1>3. CASE Add(f, n, FALSE)
    <2>2. /\ \A g \in Names \ {f} : files'[g] = files[g]
          /\ files' \in [Names -> Seq(Piece)]
          /\ DOMAIN files[f] = 1 .. Len(files[f]) /\ Len(files[f]) \in Nat
          /\ DOMAIN files'[f] = 1 .. Len(files[f]) + 1
          /\ \A i \in DOMAIN files[f] : files'[f][i] = files[f][i]
          /\ files'[f][Len(files[f]) + 1] = [record |-> n, whole |-> FALSE]
        BY <1>1, <1>3, Added
    <2>1. Below(f, n)'
        <3> SUFFICES ASSUME NEW i \in DOMAIN files'[f]
                     PROVE  \/ files'[f][i].record < n
                            \/ files'[f][i].record = n /\ ~files'[f][i].whole
            BY DEF Below
        <3>1. CASE i \in DOMAIN files[f]
            BY <2>2, <3>1 DEF Below
        <3>2. CASE i = Len(files[f]) + 1
            BY <2>2, <3>2
        <3> QED
            BY <2>2, <3>1, <3>2
    <2>3. FilesAreInOrder' /\ Reported'
        BY <1>3, AddedInOrder
    <2> QED
        BY <2>1, <2>2, <2>3 DEF Fails, Damage
<1> QED
    BY <1>2, <1>3 DEF Fails

LEMMA CloseKeeps ==
    ASSUME RInv, stream # "closed", Close, UNCHANGED place
    PROVE  /\ files' \in [Names -> Seq(Piece)]
           /\ damaged \subseteq damaged' /\ damaged' \subseteq Names
           /\ \A g \in Names : g \in damaged' \/ files'[g] = files[g]
           /\ FilesAreInOrder' /\ Reported'
           /\ \A g \in Names : \A i \in DOMAIN files'[g] :
                 \/ i \in DOMAIN files[g] /\ files'[g][i] = files[g][i]
                 \/ files'[g][i].record = buffer
<1> USE DEF RInv
<1>1. CASE buffer = 0
    BY <1>1 DEF Close, ReporterTypeOK, FilesAreInOrder, Reported
<1> DEFINE f == current_filename_
<1>2. ASSUME buffer # 0
      PROVE  /\ f \in Names /\ f \in damaged /\ buffer \in DOMAIN place /\ place[buffer] = f
             /\ Below(f, buffer) /\ buffer \in 1 .. MaxRecords
    BY <1>2, ReporterAssumption DEF BufferBelongs, ReporterTypeOK
<1>3. ASSUME buffer # 0, NEW w \in BOOLEAN, Add(f, buffer, w)
      PROVE  /\ files' \in [Names -> Seq(Piece)]
             /\ FilesAreInOrder' /\ Reported'
             /\ \A g \in Names \ {f} : files'[g] = files[g]
             /\ \A g \in Names : \A i \in DOMAIN files'[g] :
                   \/ i \in DOMAIN files[g] /\ files'[g][i] = files[g][i]
                   \/ files'[g][i].record = buffer
    <2>1. FilesAreInOrder' /\ Reported'
        BY <1>2, <1>3, AddedInOrder
    <2>2. /\ files' \in [Names -> Seq(Piece)]
          /\ \A g \in Names \ {f} : files'[g] = files[g]
          /\ DOMAIN files[f] = 1 .. Len(files[f]) /\ Len(files[f]) \in Nat
          /\ DOMAIN files'[f] = 1 .. Len(files[f]) + 1
          /\ \A i \in DOMAIN files[f] : files'[f][i] = files[f][i]
          /\ files'[f][Len(files[f]) + 1] = [record |-> buffer, whole |-> w]
        BY <1>2, <1>3, Added
    <2>3. ASSUME NEW g \in Names, NEW i \in DOMAIN files'[g]
          PROVE  \/ i \in DOMAIN files[g] /\ files'[g][i] = files[g][i]
                 \/ files'[g][i].record = buffer
        <3>1. CASE g # f
            BY <2>2, <2>3, <3>1
        <3>2. CASE g = f /\ i = Len(files[f]) + 1
            BY <2>2, <3>2
        <3>3. CASE g = f /\ i # Len(files[f]) + 1
            <4>1. i \in DOMAIN files[f]
                BY <2>2, <2>3, <3>3
            <4> QED  BY <2>2, <3>3, <4>1
        <3> QED  BY <3>1, <3>2, <3>3
    <2> QED
        BY <2>1, <2>2, <2>3
<1>4. CASE buffer # 0 /\ Fails(f, buffer)
    <2>1. CASE UNCHANGED files
        BY <1>2, <1>4, <2>1 DEF Fails, Damage, ReporterTypeOK, FilesAreInOrder, Reported
    <2>2. CASE Add(f, buffer, FALSE)
        BY <1>2, <1>3, <1>4, <2>2 DEF Fails, Damage, ReporterTypeOK
    <2> QED
        BY <1>4, <2>1, <2>2 DEF Fails
<1>5. CASE buffer # 0 /\ Add(f, buffer, TRUE) /\ UNCHANGED damaged
    BY <1>2, <1>3, <1>5 DEF ReporterTypeOK
<1> QED
    BY <1>1, <1>4, <1>5 DEF Close

-----------------------------------------------------------------------------
(* The steps *)

LEMMA BeginKeeps == ASSUME RInv, NEW se \in SEs, reportBegin(se) PROVE RInv'
<1> USE DEF RInv
<1>1. /\ filename' \in Names /\ place \in Seq(Names) /\ number \in Nat
      /\ number < MaxRecords /\ MaxRecords \in Nat
    BY ReporterAssumption, LenProperties DEF reportBegin, ReporterTypeOK, Names, number
<1>2. /\ place' \in Seq(Names) /\ number' = number + 1
      /\ DOMAIN place = 1 .. number /\ DOMAIN place' = 1 .. number + 1
      /\ \A n \in 1 .. number : place'[n] = place[n]
      /\ place'[number + 1] = filename'
    BY <1>1, AppendProperties, LenProperties DEF reportBegin, number
<1>3. UNCHANGED <<stream, buffer, current_filename_, files, hour, damaged>> /\ pc' = "open"
    BY DEF reportBegin
<1>4. ReporterTypeOK'
    BY <1>1, <1>2, <1>3 DEF ReporterTypeOK
<1>5. \A f \in Names : \A i \in DOMAIN files[f] : files[f][i].record \in 1 .. number
    BY <1>2 DEF Reported
<1>6. buffer \in 0 .. number
    BY <1>1, <1>2 DEF ReporterTypeOK, BufferBelongs
<1>7. PointOfReport'
    BY <1>1, <1>2, <1>3, <1>5, <1>6 DEF PointOfReport
<1>8. BufferBelongs'
    BY <1>1, <1>2, <1>3 DEF BufferBelongs, Below
<1>9. Reported'
    BY <1>1, <1>2, <1>3, <1>5 DEF Reported
<1>10. FilesAreInOrder'
    BY <1>2, <1>3, <1>5 DEF FilesAreInOrder
<1>11. SoundFilesAreComplete'
    <2> SUFFICES ASSUME NEW n \in 1 .. number + 1, place'[n] \notin damaged, ~UnderWay(n)'
                 PROVE  Holds(place[n], n)' /\ n \in 1 .. number
        BY <1>2, <1>3 DEF SoundFilesAreComplete
    <2>1. n \in 1 .. number
        BY <1>1, <1>2, <1>3 DEF UnderWay
    <2>2. Holds(place[n], n)
        BY <1>2, <2>1 DEF SoundFilesAreComplete, UnderWay, reportBegin
    <2> QED
        BY <1>2, <1>3, <2>1, <2>2 DEF Holds
<1> QED
    BY <1>4, <1>7, <1>8, <1>9, <1>10, <1>11

LEMMA OpenCloseKeeps == ASSUME RInv, openClose PROVE RInv'
<1> USE DEF RInv
<1>1. /\ pc = "open" /\ pc' = "reopen" /\ UNCHANGED <<filename, current_filename_, hour, place>>
      /\ stream' = "closed" /\ buffer' = 0
    BY DEF openClose, Close, ReporterTypeOK
<1>2. /\ files' \in [Names -> Seq(Piece)]
      /\ damaged \subseteq damaged' /\ damaged' \subseteq Names
      /\ \A g \in Names : g \in damaged' \/ files'[g] = files[g]
      /\ FilesAreInOrder' /\ Reported'
      /\ \A g \in Names : \A i \in DOMAIN files'[g] :
            \/ i \in DOMAIN files[g] /\ files'[g][i] = files[g][i]
            \/ files'[g][i].record = buffer
    <2>1. CASE stream = "closed"
        BY <2>1 DEF openClose, ReporterTypeOK, FilesAreInOrder, Reported
    <2>2. CASE stream # "closed"
        BY <1>1, <2>2, CloseKeeps DEF openClose
    <2> QED  BY <2>1, <2>2
<1>3. ReporterTypeOK'
    BY <1>1, <1>2, ReporterAssumption DEF ReporterTypeOK, number
<1>4. PointOfReport'
    <2>1. /\ number' = number /\ number \in DOMAIN place /\ filename = place[number]
          /\ buffer < number /\ number \in Nat
          /\ \A f \in Names : \A i \in DOMAIN files[f] : files[f][i].record < number
        BY <1>1, LenProperties DEF PointOfReport, Steps, number, ReporterTypeOK
    <2>2. \A f \in Names : \A i \in DOMAIN files'[f] : files'[f][i].record < number
        BY <1>2, <2>1
    <2> QED
        BY <1>1, <2>1, <2>2 DEF PointOfReport, ReporterTypeOK
<1>5. BufferBelongs'
    BY <1>1 DEF BufferBelongs
<1>6. SoundFilesAreComplete'
    BY <1>1, <1>2, SoundKept DEF ReporterTypeOK, UnderWay, number
<1> QED
    BY <1>2, <1>3, <1>4, <1>5, <1>6

LEMMA OpenFileKeeps == ASSUME RInv, openAlready \/ openFile PROVE RInv'
<1> USE DEF RInv
<1>1. /\ pc \in Steps /\ filename \in Names
      /\ UNCHANGED <<filename, buffer, files, hour, place>>
      /\ damaged \subseteq damaged' /\ damaged' \subseteq Names
    <2>1. pc \in Steps
        BY DEF openAlready, openFile, Refused, Steps
    <2>2. filename \in Names
        BY <2>1 DEF PointOfReport, ReporterTypeOK, number
    <2> QED
        BY <2>1, <2>2 DEF openAlready, openFile, Refused, Damage, ReporterTypeOK
<1>2. ReporterTypeOK'
    <2>1. CASE openAlready
        BY <1>1, <2>1 DEF ReporterTypeOK, openAlready, number
    <2>2. CASE openFile
        <3>1. stream = "closed" /\ buffer = 0
            BY <2>2 DEF openFile, Refused, PointOfReport, ReporterTypeOK
        <3> QED
            BY <1>1, <2>2, <3>1 DEF ReporterTypeOK, openFile, Refused, number
    <2> QED  BY <2>1, <2>2
<1>3. PointOfReport'
    <2>1. CASE openAlready
        BY <1>1, <2>1 DEF PointOfReport, openAlready, RightFile, number, Steps
    <2>2. CASE openFile
        <3>1. stream = "closed"
            BY <2>2 DEF openFile, Refused, PointOfReport
        <3> QED
            BY <1>1, <2>2, <3>1 DEF PointOfReport, openFile, Refused, Damage, number, Steps
    <2> QED  BY <2>1, <2>2
<1>4. BufferBelongs'
    BY <1>1 DEF BufferBelongs, Below, openAlready, openFile, Refused, PointOfReport, ReporterTypeOK
<1>5. Reported' /\ FilesAreInOrder'
    BY <1>1 DEF Reported, FilesAreInOrder
<1>6. SoundFilesAreComplete'
    <2>1. \A n \in DOMAIN place : UnderWay(n) => UnderWay(n)' \/ place[n] \in damaged'
        BY <1>1 DEF UnderWay, number, openAlready, openFile, Refused, Damage, PointOfReport
    <2> QED
        BY <1>1, <2>1, SoundKept DEF ReporterTypeOK
<1> QED
    BY <1>2, <1>3, <1>4, <1>5, <1>6

LEMMA WriteKeeps == ASSUME RInv, write PROVE RInv'
<1> USE DEF RInv
<1> DEFINE f == filename
<1>1. /\ pc = "write" /\ pc' = "idle"
      /\ UNCHANGED <<filename, current_filename_, hour, place>> /\ number' = number
      /\ f \in Names /\ (stream # "closed" => current_filename_ = f)
      /\ number \in DOMAIN place /\ place[number] = f /\ number \in 1 .. MaxRecords
    BY ReporterAssumption, LenProperties
       DEF write, PointOfReport, BufferBelongs, Steps, number, ReporterTypeOK
<1>2. \A g \in Names : \A i \in DOMAIN files[g] : files[g][i].record < number
    BY <1>1 DEF PointOfReport, Steps
<1>3. Below(f, number)
    BY <1>1, <1>2 DEF Below
<1>4. CASE stream # "good" /\ UNCHANGED <<stream, buffer, files, damaged>>
    <2>1. ReporterTypeOK' /\ PointOfReport' /\ Reported' /\ FilesAreInOrder'
        BY <1>1, <1>4 DEF ReporterTypeOK, PointOfReport, Reported, FilesAreInOrder, Steps
    <2>2. BufferBelongs'
        BY <1>1, <1>4 DEF BufferBelongs, Below
    <2>3. \A n \in DOMAIN place : UnderWay(n) => place[n] \in damaged'
        BY <1>1, <1>4 DEF UnderWay, BufferBelongs, PointOfReport, ReporterTypeOK
    <2>4. SoundFilesAreComplete'
        BY <1>1, <1>4, <2>3, SoundKept DEF ReporterTypeOK
    <2> QED  BY <2>1, <2>2, <2>4
<1>5. CASE stream = "good" /\ Add(f, number, TRUE) /\ UNCHANGED <<stream, buffer, damaged>>
    <2>1. /\ \A g \in Names \ {f} : files'[g] = files[g]
          /\ files' \in [Names -> Seq(Piece)]
          /\ DOMAIN files[f] = 1 .. Len(files[f]) /\ Len(files[f]) \in Nat
          /\ DOMAIN files'[f] = 1 .. Len(files[f]) + 1
          /\ \A i \in DOMAIN files[f] : files'[f][i] = files[f][i]
          /\ files'[f][Len(files[f]) + 1] = [record |-> number, whole |-> TRUE]
        BY <1>1, <1>5, Added
    <2>2. FilesAreInOrder' /\ Reported'
        BY <1>1, <1>3, <1>5, AddedInOrder
    <2>3. ReporterTypeOK' /\ PointOfReport' /\ BufferBelongs'
        BY <1>1, <1>5, <2>1 DEF ReporterTypeOK, PointOfReport, BufferBelongs, Steps
    <2>4. SoundFilesAreComplete'
        <3> SUFFICES ASSUME NEW n \in DOMAIN place, place[n] \notin damaged
                     PROVE  \E i \in DOMAIN files'[place[n]] :
                               /\ files'[place[n]][i] = [record |-> n, whole |-> TRUE]
                               /\ \A j \in DOMAIN files'[place[n]] :
                                     files'[place[n]][j].record = n => j = i
            BY <1>1, <1>5 DEF SoundFilesAreComplete, Holds
        <3>1. CASE n = number
            <4>1. \A j \in DOMAIN files'[f] :
                     files'[f][j].record = n => j = Len(files[f]) + 1
                BY <1>1, <1>2, <2>1, <3>1
            <4>2. /\ Len(files[f]) + 1 \in DOMAIN files'[f]
                  /\ files'[f][Len(files[f]) + 1] = [record |-> n, whole |-> TRUE]
                  /\ place[n] = f
                BY <1>1, <2>1, <3>1
            <4> QED
                BY <4>1, <4>2
        <3>2. CASE n # number
            <4>1. place[n] \in Names /\ Holds(place[n], n)
                BY <3>2, LenProperties DEF SoundFilesAreComplete, UnderWay, ReporterTypeOK
            <4>2. CASE place[n] # f
                BY <2>1, <4>1, <4>2 DEF Holds
            <4>3. CASE place[n] = f
                <5>1. PICK i \in DOMAIN files[f] :
                         /\ files[f][i] = [record |-> n, whole |-> TRUE]
                         /\ \A j \in DOMAIN files[f] : files[f][j].record = n => j = i
                    BY <4>1, <4>3 DEF Holds
                <5>2. i \in DOMAIN files'[f] /\ files'[f][i] = [record |-> n, whole |-> TRUE]
                    BY <2>1, <5>1
                <5>3. \A j \in DOMAIN files'[f] : files'[f][j].record = n => j = i
                    BY <2>1, <3>2, <5>1
                <5> QED
                    BY <4>3, <5>2, <5>3
            <4> QED  BY <4>2, <4>3
        <3> QED  BY <3>1, <3>2
    <2> QED  BY <2>2, <2>3, <2>4
<1>6. CASE stream = "good" /\ Fails(f, number) /\ stream' = "bad" /\ buffer' = number
    <2>1. /\ files' \in [Names -> Seq(Piece)]
          /\ damaged' = damaged \cup {f}
          /\ \A g \in Names \ {f} : files'[g] = files[g]
          /\ FilesAreInOrder' /\ Reported' /\ Below(f, number)'
        BY <1>1, <1>3, <1>6, FailsKeeps
    <2>2. ReporterTypeOK'
        BY <1>1, <1>6, <2>1 DEF ReporterTypeOK
    <2>3. PointOfReport' /\ BufferBelongs'
        BY <1>1, <1>6, <2>1 DEF PointOfReport, BufferBelongs, Steps, Below
    <2>4. SoundFilesAreComplete'
        BY <1>1, <2>1, SoundKept DEF ReporterTypeOK, UnderWay
    <2> QED  BY <2>1, <2>2, <2>3, <2>4
<1> QED
    BY <1>4, <1>5, <1>6 DEF write

LEMMA DestroyKeeps == ASSUME RInv, destroy PROVE RInv'
<1> USE DEF RInv
<1>1. /\ pc = "idle" /\ pc' = "down" /\ stream' = "closed" /\ buffer' = 0
      /\ UNCHANGED <<filename, current_filename_, hour, place>>
    BY DEF destroy, Close, ReporterTypeOK
<1>2. /\ files' \in [Names -> Seq(Piece)]
      /\ damaged \subseteq damaged' /\ damaged' \subseteq Names
      /\ \A g \in Names : g \in damaged' \/ files'[g] = files[g]
      /\ FilesAreInOrder' /\ Reported'
    <2>1. CASE stream = "closed"
        BY <2>1 DEF destroy, ReporterTypeOK, FilesAreInOrder, Reported
    <2>2. CASE stream # "closed"
        BY <1>1, <2>2, CloseKeeps DEF destroy
    <2> QED  BY <2>1, <2>2
<1>3. ReporterTypeOK' /\ PointOfReport' /\ BufferBelongs'
    BY <1>1, <1>2, ReporterAssumption DEF ReporterTypeOK, PointOfReport, BufferBelongs, Steps, number
<1>4. SoundFilesAreComplete'
    BY <1>1, <1>2, SoundKept DEF ReporterTypeOK, UnderWay
<1> QED
    BY <1>2, <1>3, <1>4

LEMMA KilledKeeps == ASSUME RInv, killed PROVE RInv'
<1> USE DEF RInv
<1>1. /\ pc' = "down" /\ stream' = "closed" /\ buffer' = 0
      /\ UNCHANGED <<filename, current_filename_, hour, place>>
      /\ damaged \subseteq damaged' /\ pc # "down"
    BY DEF killed
<1>2. pc \in Steps => filename \in Names /\ filename \in damaged'
    BY DEF killed, PointOfReport, ReporterTypeOK, number, Steps
<1>3. damaged' \subseteq Names
    BY <1>2 DEF killed, ReporterTypeOK, Steps
<1>4. /\ files' \in [Names -> Seq(Piece)] /\ FilesAreInOrder' /\ Reported'
      /\ \A g \in Names : g \in damaged' \/ files'[g] = files[g]
    <2>1. CASE UNCHANGED files
        BY <1>1, <2>1 DEF ReporterTypeOK, FilesAreInOrder, Reported
    <2>2. CASE pc = "write" /\ Add(filename, number, FALSE)
        <3>1. /\ filename \in Names /\ filename \in damaged'
              /\ number \in DOMAIN place /\ place[number] = filename
              /\ number \in 1 .. MaxRecords
            BY <1>2, <2>2, ReporterAssumption, LenProperties
               DEF PointOfReport, Steps, ReporterTypeOK, number
        <3>2. Below(filename, number)
            BY <2>2, <3>1 DEF PointOfReport, Steps, Below
        <3>3. FilesAreInOrder' /\ Reported'
            BY <1>1, <2>2, <3>1, <3>2, AddedInOrder
        <3> QED
            BY <2>2, <3>1, <3>3, Added
    <2> QED  BY <2>1, <2>2 DEF killed
<1>5. ReporterTypeOK' /\ PointOfReport' /\ BufferBelongs'
    BY <1>1, <1>3, <1>4, ReporterAssumption
       DEF ReporterTypeOK, PointOfReport, BufferBelongs, Steps, number
<1>6. SoundFilesAreComplete'
    <2>1. \A n \in DOMAIN place : UnderWay(n) => place[n] \in damaged'
        BY <1>2 DEF UnderWay, PointOfReport, Steps
    <2> QED
        BY <1>1, <1>4, <2>1, SoundKept DEF ReporterTypeOK
<1> QED
    BY <1>4, <1>5, <1>6

LEMMA OtherKeeps == ASSUME RInv, clock \/ launch \/ UNCHANGED reporterVars PROVE RInv'
<1> USE DEF RInv
<1>1. UNCHANGED <<filename, stream, buffer, files, place, damaged>>
    BY DEF clock, launch, reporterVars
<1>2. \/ pc' = pc /\ current_filename_' = current_filename_
      \/ pc = "down" /\ pc' = "idle" /\ current_filename_' = NoName
    BY DEF clock, launch, reporterVars
<1>3. hour' \in Hours
    BY DEF clock, launch, reporterVars, ReporterTypeOK
<1>4. ReporterTypeOK'
    BY <1>1, <1>2, <1>3 DEF ReporterTypeOK, number
<1>5. PointOfReport' /\ BufferBelongs'
    BY <1>1, <1>2 DEF PointOfReport, BufferBelongs, Below, Steps, number
<1>6. Reported' /\ FilesAreInOrder'
    BY <1>1 DEF Reported, FilesAreInOrder
<1>7. SoundFilesAreComplete'
    BY <1>1, <1>2, SoundKept DEF UnderWay, number, ReporterTypeOK
<1> QED
    BY <1>4, <1>5, <1>6, <1>7

LEMMA ReporterInvariance == ReporterSpec => []RInv
<1>1. ReporterInit => RInv
    BY ReporterAssumption
       DEF ReporterInit, RInv, ReporterTypeOK, PointOfReport, BufferBelongs, Reported, FilesAreInOrder,
           SoundFilesAreComplete, Steps, number
<1>2. RInv /\ [ReporterNext]_reporterVars => RInv'
    BY BeginKeeps, OpenCloseKeeps, OpenFileKeeps, WriteKeeps, DestroyKeeps, KilledKeeps,
       OtherKeeps DEF ReporterNext, report
<1> QED
    BY <1>1, <1>2, PTL DEF ReporterSpec

-----------------------------------------------------------------------------
(***************************************************************************)
(* Every variable keeps its type: no file has a piece of a record that was *)
(* not reported, and the buffer holds one record at most (report).         *)
(***************************************************************************)
THEOREM TypesHold == ReporterSpec => []ReporterTypeOK
<1>1. RInv => ReporterTypeOK
    BY DEF RInv
<1> QED
    BY <1>1, ReporterInvariance, PTL

(***************************************************************************)
(* What fails on one file costs no record of another, however often files  *)
(* are left and come back to, and however many processes have written to   *)
(* them (openFile).                                                        *)
(***************************************************************************)
THEOREM SoundFilesStayComplete == ReporterSpec => []SoundFilesAreComplete
<1>1. RInv => SoundFilesAreComplete
    BY DEF RInv
<1> QED
    BY <1>1, ReporterInvariance, PTL

(***************************************************************************)
(* No file holds a record of another entity or hour, one out of order, or  *)
(* one whole twice, also after failures and kills (report, openFile).      *)
(***************************************************************************)
THEOREM FilesStayInOrder == ReporterSpec => []FilesAreInOrder
<1>1. RInv => FilesAreInOrder
    BY DEF RInv
<1> QED
    BY <1>1, ReporterInvariance, PTL

=============================================================================
