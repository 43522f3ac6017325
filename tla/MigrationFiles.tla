--------------------------- MODULE MigrationFiles ---------------------------
(***************************************************************************)
(* cli/migrationx: load.go, merge.go and create.go, what a migrations      *)
(* directory may hold and what becomes of it.                              *)
(*                                                                         *)
(* A directory is a set of entries.  A file name is taken apart: whether   *)
(* it has the form <version>_<name>.<up|down>.sql, the version as written  *)
(* and the name; a script is what Scanner reads.                           *)
(***************************************************************************)
EXTENDS Scanner, FiniteSets, SequencesExt

Entry(form, version, name, src) ==
    [form |-> form, version |-> version, name |-> name, src |-> src, dir |-> FALSE, hidden |-> FALSE]
FileName(e) == <<e.form, e.version, e.name>>
SameFile(e, f) == FileName(e) = FileName(f)

(* What a file system lists: no two files of one name. *)
FileSet(entries) ==
    /\ IsFiniteSet(entries)
    /\ \A e \in entries : e.src \in Seq(Chars)
    /\ \A e, f \in entries : SameFile(e, f) => e = f

(***************************************************************************)
(* Merge: the root entries of every source but directories and dot-files;  *)
(* a nil source, one that cannot be listed, and a name in two sources fail *)
(* it.                                                                     *)
(***************************************************************************)
Carried(source) == {e \in source.entries : ~e.dir /\ ~e.hidden}
Listed(source) == source.ok

Merge(sources) ==
    IF /\ \A k \in DOMAIN sources : Listed(sources[k])
       /\ \A j, k \in DOMAIN sources : j # k =>
            \A e \in Carried(sources[j]), f \in Carried(sources[k]) : ~SameFile(e, f)
    THEN [ok |-> TRUE, entries |-> UNION {Carried(sources[k]) : k \in DOMAIN sources}]
    ELSE [ok |-> FALSE, entries |-> {}]

-----------------------------------------------------------------------------
(* parseFilename: versions are positive, canonical and fit an int64. *)
Versions == 1..9
validName(name) == name \in {"a", "b"}
WellNamed(e) == ~e.dir /\ e.form \in {"up", "down"} /\ e.version \in Versions /\ validName(e.name)

(***************************************************************************)
(* The order files are read in: ups first.  Among themselves ups, and      *)
(* downs, may be read in any order: what is read does not depend on it.    *)
(***************************************************************************)
Of(form, entries) == {e \in entries : e.form = form}
Reads(entries) == SetToSeq(Of("up", entries)) \o SetToSeq(Of("down", entries))

(***************************************************************************)
(* One file read: byVersion holds the migrations so far.                   *)
(***************************************************************************)
PairsByName(m, e) == m.name = e.name

Put(m, v, x) == [u \in DOMAIN m \cup {v} |-> IF u = v THEN x ELSE m[u]]
Migration(e, up, down) == [version |-> e.version, name |-> e.name, up |-> up, down |-> down, sum |-> e.src]

AddHalf(st, e, script) ==
    LET v == e.version
        known == v \in DOMAIN st.byVersion
        gets(m) == [st EXCEPT !.byVersion = Put(@, v, m)]
    IN  IF st.err \/ ~script.ok THEN [st EXCEPT !.err = TRUE]
        ELSE IF e.form = "up" /\ ~known THEN gets(Migration(e, script, Failed))
        ELSE IF e.form = "down" /\ known /\ PairsByName(st.byVersion[v], e)
             THEN gets([st.byVersion[v] EXCEPT !.down = script])
        ELSE [st EXCEPT !.err = TRUE]

NoneRead == [byVersion |-> [v \in {} |-> Failed], err |-> FALSE]
Refused == [ok |-> FALSE, migrations |-> NoneRead.byVersion]

(* What is loaded is sorted by version: here it is a function of the version. *)
loadMigrations(entries, esc) ==
    LET reads == Reads(entries)
        after[k \in 0..Len(reads)] ==
            IF k = 0 THEN NoneRead ELSE AddHalf(after[k - 1], reads[k], parseScript(reads[k].src, esc))
        end == after[Len(reads)]
    IN  IF (\E e \in entries : ~WellNamed(e)) \/ end.err THEN Refused
        ELSE [ok |-> TRUE, migrations |-> end.byVersion]

-----------------------------------------------------------------------------
(***************************************************************************)
(* What New may accept: every file is well named and parses, versions are  *)
(* unique among ups, and every down belongs to the up of its version.      *)
(***************************************************************************)
WellFormedSet(entries, esc) ==
    /\ \A e \in entries : WellNamed(e) /\ RefAccepts(e.src, esc)
    /\ \A e, f \in entries : e.form = f.form /\ e.version = f.version => e = f
    /\ \A e \in entries : e.form = "down" =>
         \E f \in entries : f.form = "up" /\ f.version = e.version /\ f.name = e.name

(* What it makes of them: by version, the up with its down. *)
OfVersion(form, v, entries) == {e \in Of(form, entries) : e.version = v}
UpOf(v, entries) == CHOOSE e \in OfVersion("up", v, entries) : TRUE
DownScript(v, entries, esc) ==
    IF OfVersion("down", v, entries) = {} THEN Failed
    ELSE RefScript((CHOOSE e \in OfVersion("down", v, entries) : TRUE).src, esc)

RefMigrations(entries, esc) ==
    [v \in {e.version : e \in Of("up", entries)} |->
        Migration(UpOf(v, entries), RefScript(UpOf(v, entries).src, esc), DownScript(v, entries, esc))]
=============================================================================
