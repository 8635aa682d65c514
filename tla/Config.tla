------------------------------- MODULE Config -------------------------------
(***************************************************************************)
(* The registry of configuration variables and the loader of configuration *)
(* files, src/config/config.cc, with the files the loader reads.           *)
(*                                                                         *)
(* The value of a variable is named by where it comes from: the default,   *)
(* the program (setValue), a node given to LoadFromYaml, or a version of a *)
(* file.  A node is its full name and the types it converts to; names are  *)
(* normalized and valid.  What setValue does inside is module ConfigVar.   *)
(*                                                                         *)
(* Each step is a section under one of the two mutexes, a file operation,  *)
(* or fromNode on one variable.  Threads run Lookup and the two loading    *)
(* functions; others replace, hide and restore the files meanwhile.        *)
(***************************************************************************)
EXTENDS Integers, Sequences, FiniteSets, SequencesExt

CONSTANTS Threads,
          Loaders,          \* threads that call LoadFromConfDir
          Names, Types,
          Texts,            \* contents of files
          Paths,            \* the configuration files, sorted by path
          NoFile,
          MaxEvents         \* bound: changes made to the files

Files == ToSet(Paths)

ASSUME ConfigAssumption == /\ Loaders \subseteq Threads
                           /\ Paths \in Seq(Files)
                           /\ NoFile \notin Files
                           /\ IsInjective(Paths)
                           /\ MaxEvents \in Nat

\* A text that does not load makes YAML::LoadFile or CollectMembers throw;
\* one that is not clean has keys CollectMembers rejects, next to its nodes.
ASSUME TextsAssumption ==
    Texts \subseteq [loads : BOOLEAN, clean : BOOLEAN,
                     nodes : Seq([name : Names, fits : SUBSET Types])]

VARIABLES
    datas,          \* GetDatas(): the object registered for a name, or 0
    objects,        \* the registered ConfigVar objects
    stamps,         \* GetFileWriteTimeStamps(): the write time, or 0
    disk,           \* the files: present?, last_write_time, content
    clock,          \* the number of changes made to the files
    call,           \* what each thread does
    answers,        \* history: the objects Lookup and Visit have given
    failed,         \* history: how the last load of each file failed
    missed          \* history: names a load met before they were registered

vars == <<datas, objects, stamps, disk, clock, call, answers, failed, missed>>
registry == <<datas, objects, answers>>
records == <<stamps, failed, missed>>
files == <<disk, clock>>

Versions == 0 .. MaxEvents + 1
Sources == [by : {"default", "program", "yaml"}]
           \cup [by : {"file"}, file : Files, version : Versions]
Idle == [pc |-> "idle"]

Lookups == [pc : {"find", "emplace", "type"}, name : Names, type : Types, object : Nat]
\* since: the clock when the call began; version: of the content it read.
Loads == [pc : {"next", "check", "erase", "read", "apply"}, force : BOOLEAN,
          since : Versions, todo : SUBSET Files, file : Files \cup {NoFile},
          writeTime : Versions, version : Versions,
          nodes : Seq([name : Names, fits : SUBSET Types]), success : BOOLEAN]

TypeOK ==
    /\ datas \in [Names -> 0 .. Len(objects)]
    /\ objects \in Seq([type : Types, value : Sources])
    /\ stamps \in [Files -> Versions]
    /\ disk \in [Files -> [there : BOOLEAN, time : Versions, text : Texts]]
    /\ clock \in 0 .. MaxEvents
    /\ call \in [Threads -> {Idle} \cup Lookups \cup Loads]
    /\ answers \subseteq [name : Names, type : Types, object : 1 .. Len(objects)]
    /\ failed \in [Files -> {"no", "stat", "load"}]
    /\ missed \in [Files -> SUBSET Names]

\* Versions of files count from 1; the clock names the later ones.
Init ==
    /\ datas = [n \in Names |-> 0]
    /\ objects = <<>>
    /\ stamps = [f \in Files |-> 0]
    /\ disk \in [Files -> [there : {TRUE}, time : {1}, text : Texts]]
    /\ clock = 0
    /\ call = [t \in Threads |-> Idle]
    /\ answers = {}
    /\ failed = [f \in Files |-> "no"]
    /\ missed = [f \in Files |-> {}]

At(t, pc) == call[t].pc = pc
Become(t, c) == call' = [call EXCEPT ![t] = c]

-----------------------------------------------------------------------------
(* Lookup.                                                                 *)

LookupBegin(t, n, type) ==
    /\ At(t, "idle")
    /\ Become(t, [pc |-> "find", name |-> n, type |-> type, object |-> 0])
    /\ UNCHANGED <<registry, records, files>>

\* LookupFromMap, under the shared mutex.
LookupFind(t) ==
    /\ At(t, "find")
    /\ LET found == datas[call[t].name] IN
       Become(t, [call[t] EXCEPT !.pc = IF found = 0 THEN "emplace" ELSE "type",
                                 !.object = found])
    /\ UNCHANGED <<registry, records, files>>

\* Variant: the new object takes the place of one registered meanwhile.
StoresOver(n) == TRUE

\* Does emplace store the new object?
Stores(n) == datas[n] = 0

\* create_fn and emplace, under the exclusive mutex.
LookupEmplace(t) ==
    /\ At(t, "emplace")
    /\ LET n == call[t].name IN
       IF Stores(n)
       THEN /\ objects' = Append(objects, [type |-> call[t].type,
                                           value |-> [by |-> "default"]])
            /\ datas' = [datas EXCEPT ![n] = Len(objects) + 1]
            /\ Become(t, [call[t] EXCEPT !.pc = "type", !.object = Len(objects) + 1])
       ELSE /\ Become(t, [call[t] EXCEPT !.pc = "type", !.object = datas[n]])
            /\ UNCHANGED <<objects, datas>>
    /\ UNCHANGED <<answers, records, files>>

\* Variant: what create_fn yields is registered untested, also the null pointer.
LookupFailsUntested(t) ==
    /\ At(t, "emplace")
    /\ datas' = [datas EXCEPT ![call[t].name] = Len(objects) + 1]
    /\ Become(t, Idle)
    /\ UNCHANGED <<objects, answers, records, files>>

\* create_fn throws, or yields nothing: nothing is registered.
LookupFails(t) ==
    /\ At(t, "emplace")
    /\ Become(t, Idle)
    /\ UNCHANGED <<registry, records, files>>

SameType(object, type) == objects[object].type = type

\* CheckType; nullptr is answered for another type.
LookupEnd(t) ==
    /\ At(t, "type")
    /\ LET c == call[t] IN
       answers' = IF SameType(c.object, c.type)
                  THEN answers \cup {[name |-> c.name, type |-> c.type,
                                      object |-> c.object]}
                  ELSE answers
    /\ Become(t, Idle)
    /\ UNCHANGED <<datas, objects, records, files>>

\* Visit and ClearAllListeners copy the registered objects under the shared
\* mutex; the callback gets them one by one, also after later registrations.
Visit(t) ==
    /\ At(t, "idle")
    /\ answers' = answers \cup
          {[name |-> n, type |-> objects[datas[n]].type, object |-> datas[n]] :
              n \in {m \in Names : datas[m] # 0}}
    /\ UNCHANGED <<datas, objects, call, records, files>>

\* The program sets a variable it has looked up.
SetValue(t) ==
    /\ At(t, "idle")
    /\ \E a \in answers :
          objects' = [objects EXCEPT ![a.object].value = [by |-> "program"]]
    /\ UNCHANGED <<datas, answers, call, records, files>>

-----------------------------------------------------------------------------
(* LoadFromYaml: the nodes in order, each applied if its name is known.    *)

YamlBegin(t, text) ==
    /\ At(t, "idle")
    /\ text.loads
    /\ Become(t, [pc |-> "apply", force |-> FALSE, since |-> clock, todo |-> {},
                  file |-> NoFile, writeTime |-> 0, version |-> 0,
                  nodes |-> text.nodes, success |-> text.clean])
    /\ UNCHANGED <<registry, records, files>>

\* Does fromNode convert the first node?
Converted(c) == objects[datas[Head(c.nodes).name]].type \in Head(c.nodes).fits

Source(c) == IF c.file = NoFile THEN [by |-> "yaml"]
             ELSE [by |-> "file", file |-> c.file, version |-> c.version]

Apply(t) ==
    /\ At(t, "apply")
    /\ call[t].nodes # <<>>
    /\ LET c == call[t]
           n == Head(c.nodes).name
           known == datas[n] # 0
           set == known /\ Converted(c)
       IN  /\ objects' = IF set THEN [objects EXCEPT ![datas[n]].value = Source(c)]
                         ELSE objects
           /\ Become(t, [c EXCEPT !.nodes = Tail(@), !.success = @ /\ (known => set)])
           /\ missed' = [f \in Files |-> IF f = c.file /\ ~known THEN missed[f] \cup {n}
                                         ELSE missed[f]]
    /\ UNCHANGED <<datas, answers, stamps, failed, files>>

Applied(t) == At(t, "apply") /\ call[t].nodes = <<>>

YamlEnd(t) ==
    /\ Applied(t)
    /\ call[t].file = NoFile
    /\ Become(t, Idle)
    /\ UNCHANGED <<registry, records, files>>

-----------------------------------------------------------------------------
(* LoadFromConfDir: the files in order of their paths.                     *)

\* The order of std::sort.
Before(f, g) == \E i, j \in DOMAIN Paths : i < j /\ Paths[i] = f /\ Paths[j] = g

LoadBegin(t, force) ==
    /\ At(t, "idle")
    /\ t \in Loaders
    /\ Become(t, [pc |-> "next", force |-> force, since |-> clock,
                  todo |-> {f \in Files : disk[f].there},
                  file |-> NoFile, writeTime |-> 0, version |-> 0,
                  nodes |-> <<>>, success |-> TRUE])
    /\ UNCHANGED <<registry, records, files>>

\* Variant: the files are not sorted.
IsListed(t, f) == f \in call[t].todo

IsNext(t, f) == f \in call[t].todo /\ \A g \in call[t].todo : ~Before(g, f)

NextFile(t) == Become(t, [call[t] EXCEPT !.pc = "next"])

Fails(t, how) == failed' = [failed EXCEPT ![call[t].file] = how]

\* last_write_time
LoadStat(t) ==
    /\ At(t, "next")
    /\ \E f \in Files :
       /\ IsNext(t, f) /\ disk[f].there
       /\ Become(t, [call[t] EXCEPT !.pc = IF call[t].force THEN "erase" ELSE "check",
                                    !.todo = @ \ {f}, !.file = f,
                                    !.writeTime = disk[f].time])
    /\ UNCHANGED <<registry, records, files>>

\* last_write_time throws.
LoadStatThrows(t) ==
    /\ At(t, "next")
    /\ \E f \in Files :
       /\ IsNext(t, f) /\ ~disk[f].there
       /\ failed' = [failed EXCEPT ![f] = IF call[t].force THEN "stat" ELSE @]
       /\ Become(t, [call[t] EXCEPT !.todo = @ \ {f}])
    /\ UNCHANGED <<registry, stamps, missed, files>>

\* IsFileUnModified
LoadCheck(t) ==
    /\ At(t, "check")
    /\ IF stamps[call[t].file] = call[t].writeTime THEN NextFile(t)
       ELSE Become(t, [call[t] EXCEPT !.pc = "erase"])
    /\ UNCHANGED <<registry, records, files>>

\* Variant: the old record is kept until it is overwritten.
RecordKept(f) == UNCHANGED stamps

RecordErased(f) == stamps' = [stamps EXCEPT ![f] = 0]

LoadErase(t) ==
    /\ At(t, "erase")
    /\ RecordErased(call[t].file)
    /\ Fails(t, "no")
    /\ missed' = [missed EXCEPT ![call[t].file] = {}]
    /\ Become(t, [call[t] EXCEPT !.pc = "read"])
    /\ UNCHANGED <<registry, files>>

Readable(f) == disk[f].there /\ disk[f].text.loads

\* YAML::LoadFile and CollectMembers.
LoadRead(t) ==
    /\ At(t, "read")
    /\ Readable(call[t].file)
    /\ LET f == call[t].file IN
       Become(t, [call[t] EXCEPT !.pc = "apply", !.version = disk[f].time,
                                 !.nodes = disk[f].text.nodes,
                                 !.success = disk[f].text.clean])
    /\ UNCHANGED <<registry, records, files>>

LoadReadThrows(t) ==
    /\ At(t, "read")
    /\ ~Readable(call[t].file)
    /\ Fails(t, "load")
    /\ NextFile(t)
    /\ UNCHANGED <<registry, stamps, missed, files>>

\* Variant: last_write_time is asked when the file has been applied.
TimeNow(t) == disk[call[t].file].time

TimeToRecord(t) == call[t].writeTime

\* MarkFileAsLoaded
LoadMark(t) ==
    /\ Applied(t)
    /\ call[t].file # NoFile
    /\ call[t].success
    /\ stamps' = [stamps EXCEPT ![call[t].file] = TimeToRecord(t)]
    /\ NextFile(t)
    /\ UNCHANGED <<registry, failed, missed, files>>

LoadUnmarked(t) ==
    /\ Applied(t)
    /\ call[t].file # NoFile
    /\ ~call[t].success
    /\ Fails(t, "load")
    /\ NextFile(t)
    /\ UNCHANGED <<registry, stamps, missed, files>>

LoadEnd(t) ==
    /\ At(t, "next")
    /\ call[t].todo = {}
    /\ Become(t, Idle)
    /\ UNCHANGED <<registry, records, files>>

-----------------------------------------------------------------------------
(* Others change the files.  Each version has a write time of its own.     *)

Event == clock < MaxEvents /\ clock' = clock + 1

WriteFile(f, text) ==
    /\ Event
    /\ disk' = [disk EXCEPT ![f] = [there |-> TRUE, time |-> clock + 2, text |-> text]]
    /\ UNCHANGED <<registry, records, call>>

\* Moved away, and moved back unchanged.
HideFile(f) ==
    /\ Event
    /\ disk[f].there
    /\ disk' = [disk EXCEPT ![f].there = FALSE]
    /\ UNCHANGED <<registry, records, call>>

RestoreFile(f) ==
    /\ Event
    /\ ~disk[f].there
    /\ disk' = [disk EXCEPT ![f].there = TRUE]
    /\ UNCHANGED <<registry, records, call>>

-----------------------------------------------------------------------------
LookupSteps(t) == \/ LookupFind(t) \/ LookupEmplace(t) \/ LookupFails(t)
                  \/ LookupEnd(t)

LoadSteps(t) ==
    \/ LoadStat(t) \/ LoadStatThrows(t) \/ LoadCheck(t) \/ LoadErase(t)
    \/ LoadRead(t) \/ LoadReadThrows(t) \/ LoadMark(t) \/ LoadUnmarked(t)
    \/ LoadEnd(t) \/ Apply(t) \/ YamlEnd(t)

Begin(t) ==
    \/ \E n \in Names, type \in Types : LookupBegin(t, n, type)
    \/ \E text \in Texts : YamlBegin(t, text)
    \/ \E force \in BOOLEAN : LoadBegin(t, force)
    \/ Visit(t) \/ SetValue(t)

FileSteps == \E f \in Files : \/ \E text \in Texts : WriteFile(f, text)
                              \/ HideFile(f) \/ RestoreFile(f)

Next == \/ \E t \in Threads : LookupSteps(t) \/ LoadSteps(t) \/ Begin(t)
        \/ FileSteps

Spec == Init /\ [][Next]_vars

-----------------------------------------------------------------------------
(* Properties.                                                             *)

\* Whatever Lookup has returned for a name, or Visit has handed out with it,
\* is the object registered for it, now and for ever, of the type asked for:
\* threads that look up a new name at the same time, with one type or several,
\* never set different objects.
OneObject ==
    \A a \in answers : /\ datas[a.name] = a.object
                       /\ objects[a.object].type = a.type

NamesIn(text) == {text.nodes[i].name : i \in DOMAIN text.nodes}

\* No load of f is under way.
Settled(f) == \A t \in Threads :
    call[t].pc \in {"check", "erase", "read", "apply"} => call[t].file # f

\* With one loader: when the recorded time is that of the file, no variable
\* the file names still has its default or a value of another version of the
\* file, though the file is replaced while it is read.  Only a variable that
\* was registered after the file was applied keeps its default.
RecordMeansApplied ==
    \A f \in Files : stamps[f] = disk[f].time /\ Settled(f) =>
        \A n \in NamesIn(disk[f].text) : datas[n] # 0 =>
            LET value == objects[datas[n]].value IN
            /\ value.by = "default" => n \in missed[f]
            /\ value.by = "file" /\ value.file = f => value.version = stamps[f]

\* With one loader: after a load that failed to read or to convert a file
\* nothing is recorded for it, so the next load tries the file again.
FailureRetried == \A f \in Files : failed[f] = "load" => stamps[f] = 0

\* The same for every failure of a forced load, as the comment at
\* config.cc:221 has it.
ForcedFailureRetried == \A f \in Files : failed[f] # "no" => stamps[f] = 0

\* Can f, as it is now, set variable n?
Gives(f, n) == /\ disk[f].there /\ disk[f].text.loads
               /\ \E i \in DOMAIN disk[f].text.nodes :
                     /\ disk[f].text.nodes[i].name = n
                     /\ objects[datas[n]].type \in disk[f].text.nodes[i].fits

\* With one loader: when a forced load ends during which no file changed, a
\* variable has the value of the last path that gives it one (unless the
\* program set it); files that fail, and items that fail before it in the
\* same file, do not stand in the way.
LastPathWins ==
    [][\A t \in Loaders : LoadEnd(t) /\ call[t].force /\ call[t].since = clock =>
          \A n \in Names : datas[n] # 0 /\ (\A f \in Files : n \notin missed[f]) =>
              LET value == objects[datas[n]].value IN
              \A f \in Files : Gives(f, n) /\ ~(\E g \in Files : Before(f, g) /\ Gives(g, n)) =>
                  \/ value.by \in {"program", "yaml"}
                  \/ value.by = "file" /\ value.file = f]_vars
=============================================================================
