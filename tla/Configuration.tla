---------------------------- MODULE Configuration ----------------------------
(***************************************************************************)
(* ConfigParser (src/src/config_parser.cpp) and the operations of          *)
(* PhmEngine that it feeds: one thread, the loader, loads and reloads      *)
(* files; clients validate files and ask for their last error, and add and *)
(* remove entities between the steps of a load, which takes the engine's   *)
(* mutex anew for each entity.  Files are edited at any time.              *)
(*                                                                         *)
(* A monitor stands for the monitors of an entity, and its interval_ms for *)
(* the numbers of a document.                                              *)
(***************************************************************************)
EXTENDS Integers, Sequences, FiniteSetsExt

CONSTANTS
    Paths,        \* names of files
    Names,        \* names of entities
    Settings,     \* what the "global" part of a document says
    Intervals,    \* values of interval_ms in a document
    Documents,    \* what a file may hold
    Added,        \* what clients add: configurations of entities
    Clients, loader,
    Modulus,      \* an unsigned counts modulo this: 2^32 on the platforms of the code
    NoName, NoEntity, NoPath, Defaults

Threads == Clients \cup {loader}

\* An element of supervised_entities, with the first fault the parser finds in it.
Item == [name : Names \cup {NoName}, interval : Intervals,
         flaw : {"none", "unknown monitor type", "type error"}]

\* A file that is missing or no JSON has no items.
Document == [form : {"object", "absent", "garbled"}, global : Settings \cup {Defaults},
             items : Seq(Item)]

SEConfig == [name : Names, interval : Nat]

ASSUME ConfigurationAssumption ==
    /\ Documents \subseteq Document /\ Documents # {}
    /\ Added \subseteq SEConfig
    /\ Intervals \subseteq Int /\ Modulus \in Nat \ {0}
    /\ loader \notin Clients
    /\ NoName \notin Names /\ NoPath \notin Paths /\ NoEntity \notin SEConfig

VARIABLES
    file,            \* what each file holds
    s_last_error,    \* thread_local
    config_, config_path_, entities_,
    loading, todo,   \* a load under way: its path, the entities it has yet to add
    \* History, read by no step of the code.
    answer,          \* per client: the reason of its last validate(), "valid", or "none"
    vouched,         \* the files that passed validate() and were not edited since
    last,            \* path and settings of the last load that succeeded
    due              \* per name: the entity that must be there when the load has ended

vars == <<file, s_last_error, config_, config_path_, entities_, loading, todo,
          answer, vouched, last, due>>

-----------------------------------------------------------------------------
(* Parsing *)

\* json::value<unsigned> turns a negative number into a large one.
Unsigned(i) == i % Modulus

parseEntityConfig(item) == [name |-> item.name, interval |-> Unsigned(item.interval)]

ItemError(item) == IF item.name = NoName THEN "no name" ELSE item.flaw

\* What parseFile() throws, "none" if nothing.
ParseError(doc) ==
    LET bad == {i \in DOMAIN doc.items : ItemError(doc.items[i]) # "none"}
    IN  IF doc.form # "object" THEN doc.form
        ELSE IF bad # {} THEN ItemError(doc.items[Min(bad)])
        ELSE "none"

\* The errors parseFile() writes into s_last_error before it throws.
Noted == {"absent", "garbled"}

Entities(doc) == [i \in DOMAIN doc.items |-> parseEntityConfig(doc.items[i])]

\* Mutant: the variable is shared by the threads.
RememberForAll(t, error) == s_last_error' = [u \in Threads |-> error]

Remember(t, error) == s_last_error' = [s_last_error EXCEPT ![t] = error]

SomeIntervalIsZero(doc) == \E i \in DOMAIN doc.items : Entities(doc)[i].interval <= 0

ValidateError(doc) ==
    IF ParseError(doc) # "none" THEN ParseError(doc)
    ELSE IF SomeIntervalIsZero(doc) THEN "invalid interval" ELSE "none"

validate(c, path) ==
    LET error == ValidateError(file[path])
    IN  /\ IF error = "none"
           THEN /\ answer' = [answer EXCEPT ![c] = "valid"]
                /\ vouched' = vouched \cup {path}
                /\ UNCHANGED s_last_error
           ELSE /\ answer' = [answer EXCEPT ![c] = error]
                /\ Remember(c, error)
                /\ UNCHANGED vouched
        /\ UNCHANGED <<file, config_, config_path_, entities_, loading, todo, last, due>>

-----------------------------------------------------------------------------
(* Loading *)

Init ==
    /\ file \in [Paths -> Documents]
    /\ s_last_error = [t \in Threads |-> "none"]
    /\ config_ = Defaults /\ config_path_ = NoPath
    /\ entities_ = [n \in Names |-> NoEntity]
    /\ loading = NoPath /\ todo = <<>>
    /\ answer = [c \in Clients |-> "none"] /\ vouched = {}
    /\ last = [path |-> NoPath, global |-> Defaults]
    /\ due = [n \in Names |-> NoEntity]

\* The entities after a load that nobody disturbs: who is there stays, the first of a name is added.
Loaded(doc) ==
    LET Of(n) == {i \in DOMAIN doc.items : doc.items[i].name = n}
    IN  [n \in Names |-> IF entities_[n] # NoEntity THEN entities_[n]
                         ELSE IF Of(n) = {} THEN NoEntity ELSE Entities(doc)[Min(Of(n))]]

\* Mutant: the path is kept before the file has been parsed.
LoadRefusedLate(path) ==
    LET error == ParseError(file[path])
    IN  /\ error # "none"
        /\ config_path_' = path
        /\ IF error \in Noted THEN Remember(loader, error) ELSE UNCHANGED s_last_error
        /\ UNCHANGED <<config_, entities_, loading, todo, last, due>>

loadRefused(path) ==
    LET error == ParseError(file[path])
    IN  /\ error # "none"
        /\ IF error \in Noted THEN Remember(loader, error) ELSE UNCHANGED s_last_error
        /\ UNCHANGED <<config_, config_path_, entities_, loading, todo, last, due>>

loadParsed(path) ==
    /\ ParseError(file[path]) = "none"
    /\ config_' = file[path].global
    /\ loading' = path
    /\ todo' = Entities(file[path])
    /\ last' = [path |-> path, global |-> file[path].global]
    /\ due' = Loaded(file[path])
    /\ UNCHANGED <<s_last_error, config_path_, entities_>>

loadConfiguration(path) ==
    /\ loading = NoPath
    /\ loadRefused(path) \/ loadParsed(path)
    /\ UNCHANGED <<file, answer, vouched>>

reloadConfiguration == config_path_ # NoPath /\ loadConfiguration(config_path_)

\* Mutant: the new configuration of an entity replaces the old one.
RegisterAnyway(cfg) == entities_' = [entities_ EXCEPT ![cfg.name] = cfg]

Register(cfg) ==
    entities_' = IF entities_[cfg.name] # NoEntity THEN entities_
                 ELSE [entities_ EXCEPT ![cfg.name] = cfg]

loadNext ==
    /\ todo # <<>>
    /\ Register(Head(todo))
    /\ todo' = Tail(todo)
    /\ UNCHANGED <<file, s_last_error, config_, config_path_, loading, answer, vouched, last, due>>

loadEnd ==
    /\ loading # NoPath /\ todo = <<>>
    /\ config_path_' = loading
    /\ loading' = NoPath
    /\ UNCHANGED <<file, s_last_error, config_, entities_, todo, answer, vouched, last, due>>

addSupervisedEntity(cfg) ==
    /\ Register(cfg)
    /\ due' = IF entities_[cfg.name] # NoEntity THEN due ELSE [due EXCEPT ![cfg.name] = cfg]
    /\ UNCHANGED <<file, s_last_error, config_, config_path_, loading, todo, answer, vouched, last>>

\* Removed while a load is under way, an entity may come back by the load.
removeEntity(name) ==
    /\ entities_' = [entities_ EXCEPT ![name] = NoEntity]
    /\ due' = [due EXCEPT ![name] = NoEntity]
    /\ UNCHANGED <<file, s_last_error, config_, config_path_, loading, todo, answer, vouched, last>>

edit(path, doc) ==
    /\ file' = [file EXCEPT ![path] = doc]
    /\ vouched' = vouched \ {path}
    /\ UNCHANGED <<s_last_error, config_, config_path_, entities_, loading, todo, answer, last, due>>

Next ==
    \/ \E p \in Paths : loadConfiguration(p)
    \/ reloadConfiguration
    \/ loadNext
    \/ loadEnd
    \/ \E c \in Clients, p \in Paths : validate(c, p)
    \/ \E cfg \in Added : addSupervisedEntity(cfg)
    \/ \E n \in Names : removeEntity(n)
    \/ \E p \in Paths, d \in Documents : edit(p, d)

Spec == Init /\ [][Next]_vars

-----------------------------------------------------------------------------
(* Properties *)

Entity == SEConfig \cup {NoEntity}
Answers == {"none", "valid", "absent", "garbled", "no name", "unknown monitor type",
            "type error", "invalid interval"}

TypeOK ==
    /\ file \in [Paths -> Documents]
    /\ s_last_error \in [Threads -> Answers \ {"valid"}]
    /\ config_ \in Settings \cup {Defaults}
    /\ config_path_ \in Paths \cup {NoPath}
    /\ entities_ \in [Names -> Entity]
    /\ loading \in Paths \cup {NoPath}
    /\ todo \in Seq(SEConfig) /\ (loading = NoPath => todo = <<>>)
    /\ answer \in [Clients -> Answers]
    /\ vouched \subseteq Paths
    /\ last \in [path : Paths \cup {NoPath}, global : Settings \cup {Defaults}]
    /\ due \in [Names -> Entity]

(***************************************************************************)
(* The settings and the path that a reload will read belong together: they *)
(* are those of the last load that succeeded, and one that failed half-way *)
(* has left neither (loadConfiguration, phm_engine.cpp lines 40-55).       *)
(***************************************************************************)
SettingsBelongTogether ==
    /\ config_ = last.global
    /\ IF loading = NoPath THEN config_path_ = last.path ELSE loading = last.path

(***************************************************************************)
(* "A reload at run time does not interrupt the monitoring that runs"      *)
(* (doc/checklist.md line 114), and leaves nothing out: when a load has    *)
(* ended, who was there is there as before, the first configuration of     *)
(* each other name has been added, and both but for what clients added and *)
(* removed in the meantime.                                                *)
(***************************************************************************)
LoadOnlyAdds ==
    loading = NoPath => \A n \in Names : due[n] # NoEntity => entities_[n] = due[n]

(***************************************************************************)
(* The answer of validate() can be relied on: after a "no" lastError() of  *)
(* the same thread has its reason, whatever other threads parsed since,    *)
(* and after a "yes" the file, unless edited, loads, and no monitor of it  *)
(* gets an interval of 0 (config_parser.cpp lines 14 and 166-188).  The    *)
(* intervals are those the program reads: a negative one that is written   *)
(* is a large one by then, which it does not refuse (README, section 5).   *)
(***************************************************************************)
VerdictIsSound ==
    /\ \A c \in Clients : answer[c] \notin {"none", "valid"} => s_last_error[c] = answer[c]
    /\ \A p \in vouched :
           /\ ParseError(file[p]) = "none"
           /\ \A i \in DOMAIN file[p].items : Unsigned(file[p].items[i].interval) > 0

=============================================================================
