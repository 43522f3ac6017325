------------------------------ MODULE Migrate -------------------------------
(***************************************************************************)
(* cli/migrationx: the migrate command tree (command.go) on top of cli,    *)
(* with the files it works on: up, down and status open a Migrator on the  *)
(* merged sources, create writes a pair of files.  The Migrator itself is  *)
(* module Migrator.                                                        *)
(*                                                                         *)
(* A world also holds the sources open merges, whether the dialect is      *)
(* mysql (a backslash escapes), the directory create works in and the       *)
(* second it reads off the clock.                                          *)
(***************************************************************************)
EXTENDS Cli, MigrationFiles

VARIABLES
    opened,   \* what open made of the sources
    op,       \* the Migrator method called
    dir,      \* the entries of the directory of create
    residue   \* the halves that a failed write or removal left behind

mvars == <<opened, op, dir, residue>>
allvars == <<vars, mvars>>

MigrateRuns == {<<"migrate", verb>> : verb \in {"create", "up", "down", "status"}}
MigrateTree ==
    [p \in {<<"migrate">>} \cup MigrateRuns |->
        CASE p = <<"migrate", "create">> -> {"dir"}
          [] p = <<"migrate", "up">> -> {"one", "to", "allow-out-of-order"}
          [] p = <<"migrate", "down">> -> {"all", "to"}
          [] OTHER -> {}]

Migrating == {p \in Tree : p # <<>> /\ p[1] = "migrate"}

(* The service mounts the migrate command on its root, beside commands of its own; directories hold   *)
(* well-named files.                                                                                  *)
ASSUME MigrateAssumption ==
    /\ Migrating = DOMAIN MigrateTree /\ \A p \in Migrating : Declares[p] = MigrateTree[p]
    /\ Runs \cap Migrating = MigrateRuns
    /\ \A f \in {"one", "all", "allow-out-of-order"} : Kind[f] = "bool" /\ Default[f] = "false"
    /\ Kind["to"] = "int" /\ \A v \in DOMAIN IntOf : IntOf[v] \in Int
    /\ IntOf[Default["to"]] = 0
    /\ \A k \in DOMAIN Worlds : \A w \in Worlds[k] :
         /\ w.now \in Versions /\ FileSet(w.dir) /\ \A e \in w.dir : WellNamed(e)
         /\ Len(w.sources) \in Nat /\ DOMAIN w.sources = 1..Len(w.sources)
         /\ \A j \in DOMAIN w.sources : FileSet(Carried(w.sources[j]))

Verb == Last(d.path)
Call(method, to) == [method |-> method, to |-> to]
NoCall == Call(None, 0)

MInit ==
    /\ Init
    /\ opened = [is |-> None, migrations |-> Refused.migrations]
    /\ op = NoCall
    /\ dir = world.dir
    /\ residue = {}

-----------------------------------------------------------------------------
(* Run of a command of the service's own. *)
ServiceRuns ==
    /\ pc = "run" /\ d.path \notin MigrateRuns
    /\ Go("ran")
    /\ UNCHANGED <<world, env, line, d, mvars>>

(***************************************************************************)
(* open, the service's: Merge of its sources, then New, which loads them.  *)
(* Its database, its history table or the reading of a listed file may     *)
(* fail whatever the files are.                                            *)
(***************************************************************************)
Open ==
    /\ pc = "run" /\ d.path \in MigrateRuns /\ Verb # "create"
    /\ LET merged == Merge(world.sources)
           gets(loaded) ==
               IF merged.ok /\ loaded.ok
               THEN opened' = [is |-> "loaded", migrations |-> loaded.migrations] /\ Go("migrate")
               ELSE opened' = [is |-> "refused", migrations |-> Refused.migrations] /\ Exit(1, {})
       IN  \/ gets(loadMigrations(merged.entries, world.mysql))
           \/ UNCHANGED opened /\ Exit(1, {})
    /\ UNCHANGED <<world, env, line, d, op, dir, residue>>

ToZeroIsTo(to) == to >= 0
Targets(to) == to > 0

Migrates ==
    /\ pc = "migrate"
    /\ LET on(f) == d.vals[f] = "true"
           to == IntOf[d.vals["to"]]
           exclusive(f) == on(f) /\ Targets(to)
           calls(c) == op' = c /\ Go("ran")
           refuses == UNCHANGED op /\ Exit(1, {})
       IN  \/ Verb = "up" /\ exclusive("one") /\ refuses
           \/ Verb = "up" /\ on("one") /\ ~Targets(to) /\ calls(Call("UpByOne", 0))
           \/ Verb = "up" /\ ~on("one") /\ Targets(to) /\ calls(Call("UpTo", to))
           \/ Verb = "up" /\ ~on("one") /\ ~Targets(to) /\ calls(Call("Up", 0))
           \/ Verb = "down" /\ exclusive("all") /\ refuses
           \/ Verb = "down" /\ on("all") /\ ~Targets(to) /\ calls(Call("DownTo", 0))
           \/ Verb = "down" /\ ~on("all") /\ Targets(to) /\ calls(Call("DownTo", to))
           \/ Verb = "down" /\ ~on("all") /\ ~Targets(to) /\ calls(Call("Down", 0))
           \/ Verb = "status" /\ calls(Call("Status", 0))
    /\ UNCHANGED <<world, env, line, d, opened, dir, residue>>

Returns ==
    /\ pc = "ran"
    /\ \E code \in {0, 1} : Exit(code, {})
    /\ UNCHANGED <<world, env, line, d, mvars>>

-----------------------------------------------------------------------------
(***************************************************************************)
(* Create: both names looked up, then each file written; when the second   *)
(* write fails the first file is removed, if it can be.  A write that      *)
(* fails, or that the process dies in, leaves no file or the first n       *)
(* characters of one.                                                      *)
(***************************************************************************)
UpFirst == <<"up", "down">>
DownFirst == <<"down", "up">>
WriteOrder == UpFirst

Header == <<"-", "-", "x", "nl">>
Minted(form) == Entry(form, world.now, d.rest[1], Header)
Half(form, n) == Entry(form, world.now, d.rest[1], SubSeq(Header, 1, n))
Exists(form) == \E e \in dir : FileName(e) = FileName(Minted(form))

CreateStarts ==
    /\ pc = "run" /\ d.path \in MigrateRuns /\ Verb = "create"
    /\ \/ /\ \/ Len(d.rest) # 1
             \/ Len(d.rest) = 1 /\ ~validName(d.rest[1])
             \/ Len(d.rest) = 1 /\ validName(d.rest[1])     \* MkdirAll fails, or a file is there
          /\ Exit(1, {})
       \/ /\ Len(d.rest) = 1 /\ validName(d.rest[1]) /\ ~Exists("up") /\ ~Exists("down")
          /\ Go("create")
    /\ UNCHANGED <<world, env, line, d, mvars>>

Written(form) == dir \cup {Minted(form)}
Torn(form) == {dir \cup {Half(form, n)} : n \in 0..Len(Header)}

CreateFirst ==
    /\ pc = "create"
    /\ \/ dir' = Written(WriteOrder[1]) /\ UNCHANGED residue /\ Go("half")
       \/ UNCHANGED <<dir, residue>> /\ Exit(1, {})
       \/ dir' \in Torn(WriteOrder[1]) /\ residue' = {WriteOrder[1]} /\ Exit(1, {})
    /\ UNCHANGED <<world, env, line, d, opened, op>>

KeepsFirst(entries) == entries
WithoutFirst(entries) == {e \in entries : FileName(e) # FileName(Minted(WriteOrder[1]))}

CreateSecond ==
    /\ pc = "half"
    /\ \/ dir' = Written(WriteOrder[2]) /\ UNCHANGED residue /\ Exit(0, {})
       \/ /\ \E removed \in BOOLEAN, after \in {dir} \cup Torn(WriteOrder[2]) :
               /\ dir' = IF removed THEN WithoutFirst(after) ELSE after
               /\ residue' = {f \in {"up", "down"} :
                                \/ f = WriteOrder[1] /\ ~removed
                                \/ f = WriteOrder[2] /\ after # dir}
          /\ Exit(1, {})
    /\ UNCHANGED <<world, env, line, d, opened, op>>

Crash ==
    /\ \/ pc = "create" /\ dir' \in {dir} \cup Torn(WriteOrder[1])
       \/ pc = "half" /\ dir' \in {dir} \cup Torn(WriteOrder[2])
    /\ pc' = "crashed"
    /\ UNCHANGED <<world, env, line, d, exit, said, opened, op, residue>>

-----------------------------------------------------------------------------
Terminated2 == pc \in {"done", "crashed"} /\ UNCHANGED allvars

Resolves ==
    /\ \/ LoadDotEnv \/ Execute \/ ParseFlag \/ Dispatch \/ Chosen
       \/ ResolveEnv \/ LoadConfig \/ ApplyConfig \/ CheckRequired
    /\ UNCHANGED mvars

Next ==
    \/ Resolves \/ ServiceRuns \/ Open \/ Migrates \/ Returns
    \/ CreateStarts \/ CreateFirst \/ CreateSecond \/ Crash
    \/ Terminated2

Spec == MInit /\ [][Next]_allvars

-----------------------------------------------------------------------------
TypeOK ==
    /\ CliTypeOK
    /\ opened.is \in {None, "loaded", "refused"}
    /\ op.method \in {None, "Up", "UpByOne", "UpTo", "Down", "DownTo", "Status"}
    /\ op.to \in Nat
    /\ \A e \in dir : WellNamed(e)
    /\ residue \subseteq {"up", "down"}

(* New takes the merged sources exactly when every file is named and written as the format demands,   *)
(* each version once and each down with its up, and then splits every script at the semicolons that   *)
(* are outside comments, quotes and regions (load.go:32, scanner.go:36, merge.go:39).  What a comment  *)
(* is, is the scanner's notion of it.                                                                 *)
LoadsExactlyWellFormed ==
    LET shown == UNION {Carried(world.sources[k]) : k \in DOMAIN world.sources}
        clash == \E j, k \in DOMAIN world.sources : j < k /\
                   \E e \in Carried(world.sources[j]), f \in Carried(world.sources[k]) : FileName(e) = FileName(f)
        good == /\ \A k \in DOMAIN world.sources : world.sources[k].ok
                /\ ~clash /\ WellFormedSet(shown, world.mysql)
    IN  /\ opened.is = "loaded" => good /\ opened.migrations = RefMigrations(shown, world.mysql)
        /\ opened.is = "refused" => ~good

(***************************************************************************)
(* What the operator named, in whatever layer: the quantity, --one or      *)
(* --all, and a target, where "default" means that no layer named one.     *)
(***************************************************************************)
Asked(f) == RefValue(f, RefConfig)
Named(f) == RefLayer(f, RefConfig) # "default"
Quantity == Asked(IF Verb = "up" THEN "one" ELSE "all") = "true"
Target == IntOf[Asked("to")]
Moves == op.method \notin {None, "Status"}

RefCall ==
    CASE Quantity /\ ~Named("to") -> IF Verb = "up" THEN Call("UpByOne", 0) ELSE Call("DownTo", 0)
      [] ~Quantity /\ Named("to") -> Call(IF Verb = "up" THEN "UpTo" ELSE "DownTo", Target)
      [] ~Quantity /\ ~Named("to") -> Call(IF Verb = "up" THEN "Up" ELSE "Down", 0)
      [] Quantity /\ Named("to") -> NoCall

(* The grammar of the migrate command (command.go:24-27): everything is rolled back only if --all is  *)
(* what the layers say, and where a layer names a target it is a version, above 0: the bare verb, the *)
(* quantity or the target is what the Migrator is asked, and nothing when both are named.  A target   *)
(* named 0 or below, which command.go:77 and 97 take for none, is outside this property.              *)
AskedAsNamed ==
    /\ op = Call("DownTo", 0) => Quantity
    /\ Moves /\ (Named("to") => Target > 0) => op = RefCall

(* Create returns with both files or with neither, except what a broken write left behind, and never  *)
(* touches a file that was there (create.go:17).                                                      *)
CreateIsAllOrNothing ==
    /\ world.dir \subseteq dir
    /\ pc = "done" /\ dir # world.dir =>
         {e.form : e \in dir \ world.dir} = IF exit = 0 THEN {"up", "down"} ELSE residue

(* In a second no file of it was minted in, a directory New takes stays one it takes whatever Create   *)
(* does and wherever the process dies, and becomes one it refuses after one failure: the down's write  *)
(* fails with its file made, and the up is removed from beside it (create.go:12, 37-38).              *)
CreateKeepsLoadable ==
    (/\ dir # world.dir
     /\ world.now \notin {e.version : e \in world.dir}
     /\ loadMigrations(world.dir, world.mysql).ok)
      => (loadMigrations(dir, world.mysql).ok <=> residue # {"down"})

(* Create makes pairs or nothing but what failed writes leave, and these spoil the directory in that  *)
(* one case only, also when the process dies in a write (create.go:17-41).                            *)
CreateMakesPairs == CreateIsAllOrNothing /\ CreateKeepsLoadable
=============================================================================
