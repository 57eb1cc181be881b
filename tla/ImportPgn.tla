------------------------------ MODULE ImportPgn ------------------------------
(***************************************************************************)
(* The PGN import (ingest/import_pgn.py): one run per process over a store *)
(* of record files, a manifest and an event log.  Every file operation is  *)
(* a step, and a process may die between any two of them.                  *)
(*                                                                         *)
(* A game is [gid, content]: the dedup identity and the content digest.    *)
(* A record file is named by both, so it stands for its game.              *)
(***************************************************************************)
EXTENDS Integers, Sequences, FiniteSets, SequencesExt

CONSTANTS
    Importers,   \* processes importing into the store
    PgnFiles,    \* files to import: sequences of games, or Bad for a bad one
    Bad,         \* a game the validator refuses
    Nuls,        \* games with a NUL character, which the validator accepts
    MaxImports,  \* bound: runs started
    MaxDeaths,   \* bound: processes that die
    NoFile

Games == (UNION {ToSet(input) : input \in PgnFiles}) \ {Bad}

\* Identity and digest tell games apart.
ImportConstants ==
    /\ \A input \in PgnFiles : input \in Seq(Games \union {Bad})
    /\ \A g, h \in Games : g.gid = h.gid /\ g.content = h.content => g = h

VARIABLES
    files,       \* record files under their final names
    tmpRecords,  \* record files under their .tmp names
    manifest,    \* index.json: the indexed games in order
    tmpIndex,    \* index.json.tmp, or NoFile
    summary,     \* summary.json: the counts of the last completed run, or NoFile
    tmpSummary,  \* summary.json.tmp, or NoFile
    telemetry,   \* telemetry.jsonl
    import,      \* what each process is doing
    imports, deaths, commits  \* counters; commits counts manifest renames

store == <<files, tmpRecords, manifest, tmpIndex, summary, tmpSummary, telemetry>>
importVars == <<store, import, imports, deaths, commits>>

NoImport == [pc |-> "idle", input |-> <<>>, pos |-> 1, index |-> <<>>,
             counts |-> [imported |-> 0, already |-> 0, updated |-> 0]]

ImportInit ==
    /\ files = {} /\ tmpRecords = {} /\ manifest = <<>>
    /\ tmpIndex = NoFile /\ summary = NoFile /\ tmpSummary = NoFile
    /\ telemetry = <<>>
    /\ import = [p \in Importers |-> NoImport]
    /\ imports = 0 /\ deaths = 0 /\ commits = 0

\* _validate_record: a stored game is what the validator makes of its own text,
\* recomputes its identity and its digest, and holds no NUL.
RecordOK(g) == g # Bad /\ g \notin Nuls
\* _validate_index: unique ids, every record file present and readable.
IndexOK ==
    /\ \A i, j \in DOMAIN manifest : manifest[i].gid = manifest[j].gid => i = j
    /\ \A i \in DOMAIN manifest : manifest[i] \in files /\ RecordOK(manifest[i])

To(p, pc) == import' = [import EXCEPT ![p].pc = pc]

\* A run begins; a contradiction in the store refuses it before anything is
\* touched.
StartImport(p, input) ==
    /\ import[p].pc = "idle" /\ imports < MaxImports /\ IndexOK
    /\ imports' = imports + 1
    /\ import' = [import EXCEPT ![p] =
          [NoImport EXCEPT !.pc = "recover", !.input = input, !.index = manifest]]
    /\ UNCHANGED <<store, deaths, commits>>

\* _recover_store: stale .tmp files, then versions that nothing references.
RecoverTmp(p) ==
    /\ import[p].pc = "recover"
    /\ \/ /\ tmpIndex # NoFile /\ tmpIndex' = NoFile
          /\ UNCHANGED <<tmpRecords, tmpSummary>>
       \/ /\ tmpSummary # NoFile /\ tmpSummary' = NoFile
          /\ UNCHANGED <<tmpRecords, tmpIndex>>
       \/ /\ \E f \in tmpRecords : tmpRecords' = tmpRecords \ {f}
          /\ UNCHANGED <<tmpIndex, tmpSummary>>
    /\ UNCHANGED <<files, manifest, summary, telemetry>>
    /\ UNCHANGED <<import, imports, deaths, commits>>
RecoverRecord(p) ==
    /\ import[p].pc = "recover"
    /\ \E f \in files \ ToSet(import[p].index) : files' = files \ {f}
    /\ UNCHANGED <<tmpRecords, manifest, tmpIndex, summary, tmpSummary, telemetry>>
    /\ UNCHANGED <<import, imports, deaths, commits>>

Emit(event) ==
    /\ telemetry' = Append(telemetry, event)
    /\ UNCHANGED <<files, tmpRecords, manifest, tmpIndex, summary, tmpSummary>>

Recovered(p) ==
    /\ import[p].pc = "recover"
    /\ tmpRecords = {} /\ tmpIndex = NoFile /\ tmpSummary = NoFile
    /\ files \subseteq ToSet(import[p].index)
    /\ Emit("started") /\ To(p, "game")
    /\ UNCHANGED <<imports, deaths, commits>>

\* The loop over the games.
Game(p) == import[p].input[import[p].pos]
AtGame(p) == import[p].pc = "game" /\ import[p].pos <= Len(import[p].input)
EntryOf(p) == {i \in DOMAIN import[p].index : import[p].index[i].gid = Game(p).gid}

\* The indexed version of the game, if its file is there.
Existing(p) == {i \in EntryOf(p) : import[p].index[i] \in files}

\* Both have one digest of what makes a game, provenance and times left out.
SameContent(p, i) == import[p].index[i].content = Game(p).content

Refuse(p) ==
    /\ AtGame(p) /\ Game(p) = Bad
    /\ import' = [import EXCEPT ![p] = NoImport]
    /\ UNCHANGED <<store, imports, deaths, commits>>

Duplicate(p) ==
    /\ AtGame(p) /\ Game(p) # Bad
    /\ \E i \in Existing(p) : SameContent(p, i)
    /\ Emit("duplicate")
    /\ import' = [import EXCEPT ![p].pos = @ + 1, ![p].counts.already = @ + 1]
    /\ UNCHANGED <<imports, deaths, commits>>

\* The manifest that makes the candidate visible: in the place of the version
\* it replaces, or at the end, without the entry of a file that is gone (a
\* validated index has one entry of a game).
NewIndex(p) ==
    IF Existing(p) # {}
    THEN [import[p].index EXCEPT ![CHOOSE i \in Existing(p) : TRUE] = Game(p)]
    ELSE Append(RemoveFirstMatch(import[p].index, LAMBDA g : g.gid = Game(p).gid), Game(p))

\* _commit_game, in four steps.
WriteRecord(p) ==
    /\ AtGame(p) /\ Game(p) # Bad
    /\ ~ \E i \in Existing(p) : SameContent(p, i)
    /\ tmpRecords' = tmpRecords \union {Game(p)} /\ To(p, "rename_record")
    /\ UNCHANGED <<files, manifest, tmpIndex, summary, tmpSummary, telemetry>>
    /\ UNCHANGED <<imports, deaths, commits>>
RenameRecord(p) ==
    /\ import[p].pc = "rename_record" /\ Game(p) \in tmpRecords
    /\ tmpRecords' = tmpRecords \ {Game(p)}
    /\ files' = files \union {Game(p)} /\ To(p, "write_index")
    /\ UNCHANGED <<manifest, tmpIndex, summary, tmpSummary, telemetry>>
    /\ UNCHANGED <<imports, deaths, commits>>
WriteIndex(p) ==
    /\ import[p].pc = "write_index"
    /\ tmpIndex' = NewIndex(p) /\ To(p, "rename_index")
    /\ UNCHANGED <<files, tmpRecords, manifest, summary, tmpSummary, telemetry>>
    /\ UNCHANGED <<imports, deaths, commits>>
RenameIndex(p) ==
    /\ import[p].pc = "rename_index" /\ tmpIndex # NoFile
    /\ manifest' = tmpIndex /\ tmpIndex' = NoFile /\ commits' = commits + 1
    /\ To(p, "emit")
    /\ UNCHANGED <<files, tmpRecords, summary, tmpSummary, telemetry>>
    /\ UNCHANGED <<imports, deaths>>

BadEmitCommitted(p) ==
    LET what == IF Existing(p) # {} THEN "updated" ELSE "stored"
        count == IF Existing(p) # {} THEN "updated" ELSE "imported"
    IN  /\ import[p].pc = "emit" /\ Emit(what)
        /\ import' = [import EXCEPT ![p].pc = "game", ![p].pos = @ + 1,
                              ![p].counts[count] = @ + 1]
        /\ UNCHANGED <<imports, deaths, commits>>
\* The new manifest is the run's own from now on.
EmitCommitted(p) ==
    LET what == IF Existing(p) # {} THEN "updated" ELSE "stored"
        count == IF Existing(p) # {} THEN "updated" ELSE "imported"
    IN  /\ import[p].pc = "emit" /\ Emit(what)
        /\ import' = [import EXCEPT ![p].pc = "game", ![p].pos = @ + 1,
                              ![p].index = NewIndex(p), ![p].counts[count] = @ + 1]
        /\ UNCHANGED <<imports, deaths, commits>>

\* os.replace finds that another process has removed the .tmp file.
RenameFails(p) ==
    /\ \/ import[p].pc = "rename_record" /\ Game(p) \notin tmpRecords
       \/ import[p].pc = "rename_index" /\ tmpIndex = NoFile
       \/ import[p].pc = "rename_summary" /\ tmpSummary = NoFile
    /\ import' = [import EXCEPT ![p] = NoImport]
    /\ UNCHANGED <<store, imports, deaths, commits>>

Complete(p) ==
    /\ import[p].pc = "game" /\ import[p].pos > Len(import[p].input)
    /\ import[p].input # <<>>
    /\ Emit("completed") /\ To(p, "write_summary")
    /\ UNCHANGED <<imports, deaths, commits>>
Empty(p) ==
    /\ import[p].pc = "game" /\ import[p].input = <<>>
    /\ import' = [import EXCEPT ![p] = NoImport]
    /\ UNCHANGED <<store, imports, deaths, commits>>
WriteSummary(p) ==
    /\ import[p].pc = "write_summary"
    /\ tmpSummary' = import[p].counts /\ To(p, "rename_summary")
    /\ UNCHANGED <<files, tmpRecords, manifest, tmpIndex, summary, telemetry>>
    /\ UNCHANGED <<imports, deaths, commits>>
Finish(p) ==
    /\ import[p].pc = "rename_summary" /\ tmpSummary # NoFile
    /\ summary' = tmpSummary /\ tmpSummary' = NoFile
    /\ import' = [import EXCEPT ![p] = NoImport]
    /\ UNCHANGED <<files, tmpRecords, manifest, tmpIndex, telemetry>>
    /\ UNCHANGED <<imports, deaths, commits>>

Die(p) ==
    /\ import[p].pc # "idle" /\ deaths < MaxDeaths /\ deaths' = deaths + 1
    /\ import' = [import EXCEPT ![p] = NoImport]
    /\ UNCHANGED <<store, imports, commits>>

ImportStep(p) ==
    \/ RecoverTmp(p) \/ RecoverRecord(p) \/ Recovered(p)
    \/ Refuse(p) \/ Duplicate(p)
    \/ WriteRecord(p) \/ RenameRecord(p) \/ WriteIndex(p) \/ RenameIndex(p)
    \/ EmitCommitted(p) \/ RenameFails(p)
    \/ Complete(p) \/ Empty(p) \/ WriteSummary(p) \/ Finish(p)

ImportNext == \E p \in Importers :
    \/ \E input \in PgnFiles : StartImport(p, input)
    \/ ImportStep(p)
    \/ Die(p)

ImportSpec == ImportInit /\ [][ImportNext]_importVars
\* A run goes on until it ends or dies.
FairImportSpec == ImportSpec /\ \A p \in Importers : WF_importVars(ImportStep(p))
-----------------------------------------------------------------------------
\* At every moment, crash windows included, the manifest lists each game once
\* and the record of every listed game is readable: the old version until the
\* rename of the manifest, the new one from then on.  The next run is therefore
\* never refused for what a crash has left.
IndexWhole == IndexOK

\* What a run has committed the next run can read: no game the validator accepts
\* is refused as a stored record.
StoresReadable == \A i \in DOMAIN manifest : RecordOK(manifest[i])

\* A step changes the manifest in one game only, adds it at the end or replaces
\* it in its place, and no committed game ever disappears.
CommittedStays ==
    [][manifest' # manifest =>
         \/ \E g \in Games : manifest' = Append(manifest, g)
         \/ \E i \in DOMAIN manifest, g \in Games :
               g.gid = manifest[i].gid /\ manifest' = [manifest EXCEPT ![i] = g]]_importVars

\* When the first game is looked at, nothing of an earlier crash is left: no
\* .tmp file and no version that the manifest does not list.
CleanStart ==
    \A p \in Importers : import[p].pc = "game" /\ import[p].pos = 1 =>
        /\ tmpRecords = {} /\ tmpIndex = NoFile /\ tmpSummary = NoFile
        /\ files = ToSet(manifest)

\* However often the import of a file died and was repeated, and whatever was
\* imported in between, when it completes the store holds for every game of the
\* file the last version in it, and the counts add up.
Converges ==
    \A p \in Importers : import[p].pc = "write_summary" =>
        LET input == import[p].input
            counts == import[p].counts
        IN  /\ \A i \in DOMAIN input :
                  (\A j \in DOMAIN input : input[j].gid = input[i].gid => j <= i)
                     => input[i] \in ToSet(manifest)
            /\ counts.imported + counts.already + counts.updated = Len(input)

\* The events that tell of a commit.
Announced(events) == {i \in DOMAIN events : events[i] \in {"stored", "updated"}}

\* Events follow commits: none is ahead of its commit, and a crash swallows one
\* at most.
EventsTrail ==
    LET told == Cardinality(Announced(telemetry))
    IN  told <= commits /\ commits - told <= deaths + Cardinality(
            {p \in Importers : import[p].pc = "emit"})

\* Index and files agree at every moment, a run begins on a clean store, an import
\* repeated after deaths ends where one that never died ends, and the events tell
\* what was committed.
ImportSound == IndexWhole /\ CleanStart /\ Converges /\ EventsTrail

\* A run ends: recovery removes what it finds and never waits for anything.
RunEnds == \A p \in Importers : import[p].pc # "idle" ~> import[p].pc = "idle"
=============================================================================
