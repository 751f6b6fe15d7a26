------------------------- MODULE ConfigurationProofs -------------------------
(***************************************************************************)
(* What Configuration promises, for any files, documents, entities and     *)
(* clients, and any width of the numbers.                                  *)
(***************************************************************************)
EXTENDS Configuration, SequenceTheorems, WellFoundedInduction, TLAPS

-----------------------------------------------------------------------------
(* The parser *)

\* Min names the first of some positions.
LEMMA FirstOfPositions ==
    ASSUME NEW S \in SUBSET Nat, S # {}
    PROVE  Min(S) \in S /\ \A i \in S : Min(S) <= i
<1>1. PICK m \in S : \A i \in S : ~(<<i, m>> \in OpToRel(<, Nat))
    BY NatLessThanWellFounded, WFMin
<1>2. \A i \in S : ~(i < m)
    BY <1>1 DEF OpToRel
<1>3. \E x \in S : \A i \in S : x <= i
    BY <1>2
<1> QED
    BY <1>3 DEF Min

\* What a document of the assumption looks like.
LEMMA DocumentFacts ==
    ASSUME NEW doc \in Documents
    PROVE  /\ doc \in Document /\ doc.items \in Seq(Item)
           /\ DOMAIN doc.items = 1 .. Len(doc.items) /\ Len(doc.items) \in Nat
           /\ \A i \in DOMAIN doc.items : doc.items[i] \in Item
           /\ doc.global \in Settings \cup {Defaults}
BY ConfigurationAssumption, LenProperties, ElementOfSeq DEF Document

\* The error of a document is one of the errors there are.
LEMMA ErrorIsKnown ==
    ASSUME NEW doc \in Documents
    PROVE  ParseError(doc) \in Answers \ {"valid"}
<1> DEFINE bad == {i \in DOMAIN doc.items : ItemError(doc.items[i]) # "none"}
<1>1. \A i \in DOMAIN doc.items : ItemError(doc.items[i]) \in Answers \ {"valid"}
    BY DocumentFacts DEF ItemError, Item, Answers
<1>2. bad # {} => Min(bad) \in bad
    <2>1. bad \in SUBSET Nat
        BY DocumentFacts
    <2> QED
        BY <2>1, FirstOfPositions
<1>3. doc.form \in {"object", "absent", "garbled"}
    BY DocumentFacts DEF Document
<1> QED
    BY <1>1, <1>2, <1>3 DEF ParseError, Answers

\* A document without error is one of named entities.
LEMMA ParsedIsNamed ==
    ASSUME NEW doc \in Documents, ParseError(doc) = "none"
    PROVE  \A i \in DOMAIN doc.items : doc.items[i].name \in Names
<1> DEFINE bad == {i \in DOMAIN doc.items : ItemError(doc.items[i]) # "none"}
<1>1. bad = {}
    <2>1. bad \in SUBSET Nat
        BY DocumentFacts
    <2>2. bad # {} => Min(bad) \in bad
        BY <2>1, FirstOfPositions
    <2>3. bad # {} => ItemError(doc.items[Min(bad)]) # "none"
        BY <2>2
    <2>4. doc.form # "none"
        BY DocumentFacts DEF Document
    <2> QED
        BY <2>3, <2>4, Zenon DEF ParseError
<1>2. \A i \in DOMAIN doc.items : ItemError(doc.items[i]) = "none"
    BY <1>1
<1>3. \A i \in DOMAIN doc.items : doc.items[i].name # NoName
    BY <1>2 DEF ItemError
<1> QED
    BY <1>3, DocumentFacts DEF Item

\* What the parser makes of a document without error.
LEMMA ParsedIsConfigured ==
    ASSUME NEW doc \in Documents, ParseError(doc) = "none"
    PROVE  /\ Entities(doc) \in Seq(SEConfig)
           /\ DOMAIN Entities(doc) = DOMAIN doc.items
           /\ \A i \in DOMAIN doc.items : /\ Entities(doc)[i] \in SEConfig
                                          /\ Entities(doc)[i].name = doc.items[i].name
<1>1. \A i \in DOMAIN doc.items : Unsigned(doc.items[i].interval) \in Nat
    <2> TAKE i \in DOMAIN doc.items
    <2>1. doc.items[i].interval \in Int
        BY DocumentFacts, ConfigurationAssumption DEF Item
    <2> QED
        BY <2>1, ConfigurationAssumption DEF Unsigned
<1>2. \A i \in DOMAIN doc.items : parseEntityConfig(doc.items[i]) \in SEConfig
    BY <1>1, ParsedIsNamed DEF parseEntityConfig, SEConfig
<1>3. Entities(doc) = [i \in 1 .. Len(doc.items) |-> parseEntityConfig(doc.items[i])]
    BY DocumentFacts DEF Entities
<1>4. Entities(doc) \in Seq(SEConfig)
    <2>1. /\ Len(doc.items) \in Nat
          /\ \A i \in 1 .. Len(doc.items) : parseEntityConfig(doc.items[i]) \in SEConfig
        BY <1>2, DocumentFacts
    <2> QED
        BY <1>3, <2>1, IsASeq
<1>5. \A i \in DOMAIN doc.items :
          Entities(doc)[i] = parseEntityConfig(doc.items[i])
    BY DEF Entities
<1>6. DOMAIN Entities(doc) = DOMAIN doc.items
    BY DEF Entities
<1>7. \A i \in DOMAIN doc.items : parseEntityConfig(doc.items[i]).name = doc.items[i].name
    BY DEF parseEntityConfig
<1>8. \A i \in DOMAIN doc.items : /\ Entities(doc)[i] \in SEConfig
                                   /\ Entities(doc)[i].name = doc.items[i].name
    BY <1>2, <1>5, <1>7, Zenon
<1> QED
    BY <1>4, <1>6, <1>8

-----------------------------------------------------------------------------
(* The inductive invariant *)

\* The first configuration of name n that the load has yet to add is cfg.
Coming(n, cfg) ==
    \E k \in DOMAIN todo : /\ todo[k] = cfg /\ cfg.name = n
                           /\ \A j \in DOMAIN todo : j < k => todo[j].name # n

\* Whom the load owes is there, or will be added as is.
DueIsComing ==
    \A n \in Names : due[n] # NoEntity =>
        entities_[n] = due[n] \/ (entities_[n] = NoEntity /\ Coming(n, due[n]))

IInv == TypeOK /\ SettingsBelongTogether /\ DueIsComing /\ VerdictIsSound

LEMMA InitIsGood == ASSUME Init PROVE IInv
<1>1. todo \in Seq(SEConfig)
    BY EmptySeq DEF Init
<1> QED
    BY <1>1, ConfigurationAssumption
    DEF Init, IInv, TypeOK, SettingsBelongTogether, DueIsComing, VerdictIsSound, Threads, Entity,
        Answers

\* A load that has nothing left to add has kept its promise.
LEMMA NothingLeft == ASSUME IInv, loading = NoPath PROVE LoadOnlyAdds
<1>1. todo = <<>> /\ DOMAIN todo = {}
    BY DEF IInv, TypeOK
<1> QED
    BY <1>1 DEF IInv, DueIsComing, Coming, LoadOnlyAdds

LEMMA ValidateKeeps ==
    ASSUME IInv, NEW c \in Clients, NEW p \in Paths, validate(c, p) PROVE IInv'
<1> DEFINE error == ValidateError(file[p])
<1>1. error \in Answers \ {"valid"} /\ file[p] \in Documents /\ c \in Threads
    BY ErrorIsKnown DEF IInv, TypeOK, ValidateError, Answers, Threads
<1> HIDE DEF error
<1>2. TypeOK'
    <2>1. UNCHANGED <<file, config_, config_path_, entities_, loading, todo, last, due>>
        BY DEF validate
    <2>2. CASE error = "none"
        <3>1. answer' = [answer EXCEPT ![c] = "valid"] /\ vouched' = vouched \cup {p}
              /\ UNCHANGED s_last_error
            BY <2>2 DEF validate, error
        <3> QED
            BY <2>1, <3>1 DEF IInv, TypeOK, Answers
    <2>3. CASE error # "none"
        <3>1. answer' = [answer EXCEPT ![c] = error] /\ UNCHANGED vouched
              /\ s_last_error' = [s_last_error EXCEPT ![c] = error]
            BY <2>3 DEF validate, error, Remember
        <3>2. answer' \in [Clients -> Answers]
            BY <1>1, <3>1 DEF IInv, TypeOK
        <3>3. s_last_error' \in [Threads -> Answers \ {"valid"}]
            BY <1>1, <3>1 DEF IInv, TypeOK
        <3> QED
            BY <2>1, <3>1, <3>2, <3>3 DEF IInv, TypeOK
    <2> QED
        BY <2>2, <2>3
<1>3. DueIsComing' /\ SettingsBelongTogether'
    BY DEF IInv, DueIsComing, Coming, SettingsBelongTogether, validate
<1>4. error = "none" => /\ ParseError(file[p]) = "none"
                        /\ \A i \in DOMAIN file[p].items :
                               Unsigned(file[p].items[i].interval) > 0
    <2>1. ASSUME error = "none"
          PROVE  ParseError(file[p]) = "none" /\ ~SomeIntervalIsZero(file[p])
        BY <2>1 DEF ValidateError, error
    <2>2. ASSUME error = "none", NEW i \in DOMAIN file[p].items
          PROVE  Unsigned(file[p].items[i].interval) > 0
        <3>1. Entities(file[p])[i] = parseEntityConfig(file[p].items[i])
            BY <2>2 DEF Entities
        <3>2. Entities(file[p])[i] \in SEConfig
            BY <1>1, <2>1, <2>2, ParsedIsConfigured
        <3>3. Entities(file[p])[i].interval \in Nat
            BY <3>2 DEF SEConfig
        <3>4. ~(Entities(file[p])[i].interval <= 0)
            BY <2>1, <2>2 DEF SomeIntervalIsZero
        <3>5. Entities(file[p])[i].interval = Unsigned(file[p].items[i].interval)
            BY <3>1 DEF parseEntityConfig
        <3> QED
            BY <3>3, <3>4, <3>5
    <2> QED
        BY <2>1, <2>2
<1>5. VerdictIsSound'
    <2>1. CASE error = "none"
        BY <1>4, <2>1 DEF IInv, TypeOK, VerdictIsSound, validate, error
    <2>2. CASE error # "none"
        BY <1>1, <2>2 DEF IInv, TypeOK, VerdictIsSound, validate, Remember, Threads, error
    <2> QED
        BY <2>1, <2>2
<1> QED
    BY <1>2, <1>3, <1>5 DEF IInv

LEMMA RefusedKeeps ==
    ASSUME IInv, NEW p \in Paths, loading = NoPath, loadRefused(p), UNCHANGED <<file, answer, vouched>>
    PROVE  IInv'
<1>1. ParseError(file[p]) \in Answers \ {"valid"} /\ loader \in Threads
    BY ErrorIsKnown DEF IInv, TypeOK, Threads
<1>2. TypeOK'
    BY <1>1 DEF IInv, TypeOK, loadRefused, Remember
<1>3. \A c \in Clients : s_last_error'[c] = s_last_error[c]
    BY ConfigurationAssumption DEF IInv, TypeOK, loadRefused, Remember, Threads
<1> QED
    BY <1>2, <1>3
    DEF IInv, DueIsComing, Coming, SettingsBelongTogether, VerdictIsSound, loadRefused

LEMMA ParsedKeeps ==
    ASSUME IInv, NEW p \in Paths, loading = NoPath, loadParsed(p), UNCHANGED <<file, answer, vouched>>
    PROVE  IInv'
<1> DEFINE doc == file[p]
           Of(n) == {i \in DOMAIN doc.items : doc.items[i].name = n}
<1>1. /\ doc \in Documents /\ ParseError(doc) = "none"
      /\ DOMAIN doc.items \subseteq Nat
      /\ p # NoPath
    BY DocumentFacts, ConfigurationAssumption DEF IInv, TypeOK, loadParsed
<1>2. /\ Entities(doc) \in Seq(SEConfig) /\ DOMAIN Entities(doc) = DOMAIN doc.items
      /\ \A i \in DOMAIN doc.items : /\ Entities(doc)[i] \in SEConfig
                                     /\ Entities(doc)[i].name = doc.items[i].name
    BY <1>1, ParsedIsConfigured
<1>3. \A n \in Names : Of(n) # {} => /\ Min(Of(n)) \in Of(n)
                                     /\ \A i \in Of(n) : Min(Of(n)) <= i
    <2> TAKE n \in Names
    <2>1. Of(n) \in SUBSET Nat
        BY <1>1
    <2> QED
        BY <2>1, FirstOfPositions
<1>4. due' = [n \in Names |-> IF entities_[n] # NoEntity THEN entities_[n]
                              ELSE IF Of(n) = {} THEN NoEntity ELSE Entities(doc)[Min(Of(n))]]
    BY DEF loadParsed, Loaded
<1>5. due' \in [Names -> Entity]
    BY <1>2, <1>3, <1>4 DEF IInv, TypeOK, Entity
<1>6. TypeOK'
    BY <1>1, <1>2, <1>5, DocumentFacts DEF IInv, TypeOK, loadParsed
<1>7. DueIsComing'
    <2> SUFFICES ASSUME NEW n \in Names, due'[n] # NoEntity, entities_[n] = NoEntity
                 PROVE  Coming(n, due[n])'
        BY <1>4 DEF DueIsComing, loadParsed
    <2>1. Of(n) # {} /\ due'[n] = Entities(doc)[Min(Of(n))]
        BY <1>4
    <2>2. Min(Of(n)) \in DOMAIN doc.items /\ doc.items[Min(Of(n))].name = n
        BY <1>3, <2>1
    <2>3. \A j \in DOMAIN doc.items : j < Min(Of(n)) => doc.items[j].name # n
        <3> SUFFICES ASSUME NEW j \in DOMAIN doc.items, j < Min(Of(n)), doc.items[j].name = n
                     PROVE  FALSE
            OBVIOUS
        <3>1. j \in Of(n)
            OBVIOUS
        <3>2. Min(Of(n)) <= j /\ j \in Nat /\ Min(Of(n)) \in Nat
            BY <1>1, <1>3, <2>2, <3>1
        <3> QED
            BY <3>2
    <2>4. todo' = Entities(doc)
        BY DEF loadParsed
    <2> HIDE DEF Of
    <2> QED
        BY <1>2, <2>1, <2>2, <2>3, <2>4 DEF Coming
<1> QED
    BY <1>1, <1>6, <1>7 DEF IInv, SettingsBelongTogether, VerdictIsSound, loadParsed

LEMMA NextKeeps ==
    ASSUME IInv, loadNext PROVE IInv'
<1> DEFINE cfg == Head(todo)
<1>1. /\ todo \in Seq(SEConfig) /\ todo # <<>> /\ cfg \in SEConfig /\ cfg.name \in Names
      /\ Len(todo) \in Nat /\ DOMAIN todo = 1 .. Len(todo) /\ todo[1] = cfg
      /\ \A i \in 1 .. Len(todo) : todo[i] \in SEConfig
    <2>1. todo \in Seq(SEConfig) /\ todo # <<>>
        BY DEF IInv, TypeOK, loadNext
    <2>2. cfg \in SEConfig
        BY <2>1, HeadTailProperties
    <2>3. Len(todo) \in Nat /\ DOMAIN todo = 1 .. Len(todo)
        BY <2>1, LenProperties
    <2>4. \A i \in 1 .. Len(todo) : todo[i] \in SEConfig
        BY <2>1, ElementOfSeq
    <2>5. todo[1] = cfg
        BY <2>1
    <2> QED
        BY <2>1, <2>2, <2>3, <2>4, <2>5 DEF SEConfig
<1>2. /\ todo' = Tail(todo) /\ todo' \in Seq(SEConfig) /\ DOMAIN todo' = 1 .. (Len(todo) - 1)
      /\ \A i \in DOMAIN todo' : todo'[i] = todo[i + 1]
    BY <1>1, HeadTailProperties, LenProperties DEF loadNext
<1>3. /\ \A n \in Names \ {cfg.name} : entities_'[n] = entities_[n]
      /\ entities_'[cfg.name] = IF entities_[cfg.name] # NoEntity
                                THEN entities_[cfg.name] ELSE cfg
      /\ entities_' \in [Names -> Entity]
    BY <1>1 DEF IInv, TypeOK, loadNext, Register, Entity
<1>4. loading # NoPath
    BY <1>1 DEF IInv, TypeOK
<1>5. TypeOK'
    BY <1>2, <1>3, <1>4 DEF IInv, TypeOK, loadNext
<1>6. DueIsComing'
    <2> SUFFICES ASSUME NEW n \in Names, due[n] # NoEntity
                 PROVE  \/ entities_'[n] = due[n]
                        \/ entities_'[n] = NoEntity /\ Coming(n, due[n])'
        BY DEF DueIsComing, loadNext
    <2>1. CASE entities_[n] = due[n]
        BY <1>3, <2>1
    <2>2. CASE entities_[n] = NoEntity /\ Coming(n, due[n])
        <3>1. PICK k \in DOMAIN todo : /\ todo[k] = due[n] /\ due[n].name = n
                                       /\ \A j \in DOMAIN todo : j < k => todo[j].name # n
            BY <2>2 DEF Coming
        <3>2. CASE k = 1
            BY <1>1, <1>3, <2>2, <3>1, <3>2
        <3>3. CASE k # 1
            <4>1. k - 1 \in DOMAIN todo' /\ todo'[k - 1] = due[n]
                BY <1>1, <1>2, <3>1, <3>3
            <4>2. \A j \in DOMAIN todo' : j < k - 1 => todo'[j].name # n
                BY <1>1, <1>2, <3>1
            <4>3. cfg.name # n
                BY <1>1, <3>1, <3>3
            <4>4. due' = due
                BY DEF loadNext
            <4> QED
                BY <1>3, <2>2, <3>1, <4>1, <4>2, <4>3, <4>4 DEF Coming
        <3> QED
            BY <3>2, <3>3
    <2> QED
        BY <2>1, <2>2 DEF IInv, DueIsComing
<1> QED
    BY <1>5, <1>6 DEF IInv, SettingsBelongTogether, VerdictIsSound, loadNext

LEMMA EndKeeps ==
    ASSUME IInv, loadEnd PROVE IInv'
<1>1. TypeOK'
    BY DEF IInv, TypeOK, loadEnd
<1> QED
    BY <1>1 DEF IInv, SettingsBelongTogether, VerdictIsSound, DueIsComing, Coming, loadEnd

LEMMA AddKeeps ==
    ASSUME IInv, NEW cfg \in Added, addSupervisedEntity(cfg) PROVE IInv'
<1>1. cfg \in SEConfig /\ cfg.name \in Names /\ cfg # NoEntity
    BY ConfigurationAssumption DEF SEConfig
<1>2. CASE entities_[cfg.name] # NoEntity
    BY <1>2
    DEF IInv, TypeOK, SettingsBelongTogether, VerdictIsSound, DueIsComing, Coming,
        addSupervisedEntity, Register
<1>3. CASE entities_[cfg.name] = NoEntity
    <2>1. /\ entities_' = [entities_ EXCEPT ![cfg.name] = cfg]
          /\ due' = [due EXCEPT ![cfg.name] = cfg]
          /\ UNCHANGED <<file, s_last_error, config_, config_path_, loading, todo, answer,
                         vouched, last>>
        BY <1>3 DEF addSupervisedEntity, Register
    <2>2. TypeOK'
        BY <1>1, <2>1 DEF IInv, TypeOK, Entity
    <2>3. DueIsComing'
        <3> SUFFICES ASSUME NEW n \in Names, due'[n] # NoEntity
                     PROVE  \/ entities_'[n] = due'[n]
                            \/ entities_'[n] = NoEntity /\ Coming(n, due[n])'
            BY DEF DueIsComing
        <3>1. CASE n = cfg.name
            BY <1>1, <2>1, <3>1 DEF IInv, TypeOK
        <3>2. CASE n # cfg.name
            <4>1. entities_'[n] = entities_[n] /\ due'[n] = due[n] /\ todo' = todo
                BY <2>1, <3>2 DEF IInv, TypeOK
            <4>2. Coming(n, due[n])' <=> Coming(n, due[n])
                BY <4>1 DEF Coming
            <4> QED
                BY <4>1, <4>2 DEF IInv, DueIsComing
        <3> QED
            BY <3>1, <3>2
    <2> QED
        BY <2>1, <2>2, <2>3 DEF IInv, SettingsBelongTogether, VerdictIsSound
<1> QED
    BY <1>2, <1>3

LEMMA RemoveKeeps ==
    ASSUME IInv, NEW m \in Names, removeEntity(m) PROVE IInv'
<1>1. TypeOK'
    BY DEF IInv, TypeOK, removeEntity, Entity
<1>2. DueIsComing'
    <2> SUFFICES ASSUME NEW n \in Names, due'[n] # NoEntity
                 PROVE  \/ entities_'[n] = due'[n]
                        \/ entities_'[n] = NoEntity /\ Coming(n, due[n])'
        BY DEF DueIsComing
    <2>1. n # m
        BY DEF removeEntity, IInv, TypeOK
    <2>2. entities_'[n] = entities_[n] /\ due'[n] = due[n] /\ todo' = todo
        BY <2>1 DEF removeEntity, IInv, TypeOK
    <2>3. Coming(n, due[n])' <=> Coming(n, due[n])
        BY <2>2 DEF Coming
    <2> QED
        BY <2>2, <2>3 DEF IInv, DueIsComing
<1> QED
    BY <1>1, <1>2 DEF IInv, SettingsBelongTogether, VerdictIsSound, removeEntity

LEMMA EditKeeps ==
    ASSUME IInv, NEW p \in Paths, NEW doc \in Documents, edit(p, doc) PROVE IInv'
<1>1. TypeOK'
    BY DEF IInv, TypeOK, edit
<1>2. VerdictIsSound'
    BY DEF IInv, TypeOK, VerdictIsSound, edit
<1> QED
    BY <1>1, <1>2 DEF IInv, SettingsBelongTogether, DueIsComing, Coming, edit

LEMMA StepKeeps ==
    ASSUME IInv, [Next]_vars PROVE IInv'
<1>1. ASSUME NEW p \in Paths, loadConfiguration(p) PROVE IInv'
    BY <1>1, RefusedKeeps, ParsedKeeps DEF loadConfiguration
<1>2. CASE reloadConfiguration
    BY <1>1, <1>2 DEF reloadConfiguration, IInv, TypeOK
<1>3. CASE loadNext
    BY <1>3, NextKeeps
<1>4. CASE loadEnd
    BY <1>4, EndKeeps
<1>5. CASE \E c \in Clients, p \in Paths : validate(c, p)
    BY <1>5, ValidateKeeps
<1>6. CASE \E cfg \in Added : addSupervisedEntity(cfg)
    BY <1>6, AddKeeps
<1>7. CASE \E n \in Names : removeEntity(n)
    BY <1>7, RemoveKeeps
<1>8. CASE \E p \in Paths, d \in Documents : edit(p, d)
    BY <1>8, EditKeeps
<1>9. CASE UNCHANGED vars
    BY <1>9
    DEF vars, IInv, TypeOK, SettingsBelongTogether, VerdictIsSound, DueIsComing, Coming
<1> QED
    BY <1>1, <1>2, <1>3, <1>4, <1>5, <1>6, <1>7, <1>8, <1>9 DEF Next

LEMMA Invariance == Spec => []IInv
BY InitIsGood, StepKeeps, PTL DEF Spec

-----------------------------------------------------------------------------
(* Theorems *)

(***************************************************************************)
(* Every variable keeps its type: in particular no interval of an entity   *)
(* is negative, and only the loader leaves entities to add (parseFile and  *)
(* loadConfiguration).                                                     *)
(***************************************************************************)
THEOREM TypeIsCorrect == Spec => []TypeOK
<1>1. IInv => TypeOK
    BY DEF IInv
<1> QED
    BY <1>1, Invariance, PTL

(***************************************************************************)
(* Settings and path are those of the last load that succeeded, whatever   *)
(* failed since (loadConfiguration).                                       *)
(***************************************************************************)
THEOREM SettingsStayTogether == Spec => []SettingsBelongTogether
<1>1. IInv => SettingsBelongTogether
    BY DEF IInv
<1> QED
    BY <1>1, Invariance, PTL

(***************************************************************************)
(* A load disturbs nobody and forgets nobody, whatever clients do between  *)
(* its steps (loadConfiguration and addSupervisedEntity).                  *)
(***************************************************************************)
THEOREM LoadsOnlyAdd == Spec => []LoadOnlyAdds
<1>1. IInv => LoadOnlyAdds
    BY NothingLeft DEF LoadOnlyAdds
<1> QED
    BY <1>1, Invariance, PTL

(***************************************************************************)
(* validate() answers truly and lastError() knows why, for any number of   *)
(* threads (validate and the thread_local s_last_error).                   *)
(***************************************************************************)
THEOREM VerdictsAreSound == Spec => []VerdictIsSound
<1>1. IInv => VerdictIsSound
    BY DEF IInv
<1> QED
    BY <1>1, Invariance, PTL

=============================================================================
