---------------------------- MODULE ConfigProofs ----------------------------
(***************************************************************************)
(* What holds of Config for any threads, names, types, files and bounds.   *)
(* The registry needs no more than that a Lookup about to answer holds the *)
(* registered object.  The loader, of which there is one, needs what it    *)
(* has found so far: its write time and its version of the file come one   *)
(* after the other, nothing is recorded while it reads and applies, and    *)
(* the nodes it has applied cover a first part of the file.                *)
(***************************************************************************)
EXTENDS Config, SequenceTheorems, TLAPS

Calls == {Idle} \cup Lookups \cup Loads
Objects == [type : Types, value : Sources]
Nodes == [name : Names, fits : SUBSET Types]

\* A Lookup that checks the type has the registered object; a load has found
\* the time of its file first, and its version later.
Sound(c) ==
    /\ c.pc = "type" => c.object = datas[c.name] /\ c.object # 0
    /\ c.pc \in {"check", "erase", "read"} => c.file \in Files
    /\ c.pc \in {"check", "erase", "read", "apply"} /\ c.file \in Files =>
          c.writeTime \in 1 .. disk[c.file].time
    /\ c.pc = "apply" /\ c.file \in Files => c.version \in c.writeTime .. disk[c.file].time

\* No two names share an object.
DistinctInv == \A m, n \in Names : datas[m] # 0 /\ datas[m] = datas[n] => m = n

\* Files have the times of the past, and no record is newer than its file.
TimesInv == \A f \in Files : /\ disk[f].time \in 1 .. clock + 1
                             /\ stamps[f] <= disk[f].time

Inv == /\ TypeOK
       /\ OneObject
       /\ DistinctInv
       /\ TimesInv
       /\ \A t \in Threads : Sound(call[t])

-----------------------------------------------------------------------------
(* What the types give.                                                    *)

LEMMA CallKinds ==
  ASSUME TypeOK, NEW t \in Threads
  PROVE  /\ call[t] \in Calls
         /\ call[t].pc \in {"find", "emplace", "type"} => call[t] \in Lookups
         /\ call[t].pc \in {"next", "check", "erase", "read", "apply"} => call[t] \in Loads
<1>1. call[t] \in Calls
  BY DEF TypeOK, Calls
<1>2. CASE call[t] \in {Idle}
  BY <1>1, <1>2 DEF Idle
<1>3. CASE call[t] \in Lookups
  BY <1>1, <1>3 DEF Lookups
<1>4. CASE call[t] \in Loads
  BY <1>1, <1>4 DEF Loads
<1> QED
  BY <1>1, <1>2, <1>3, <1>4 DEF Calls

LEMMA NewCall ==
  ASSUME TypeOK, NEW t \in Threads, NEW c \in Calls, Become(t, c)
  PROVE  /\ call' \in [Threads -> Calls]
         /\ call'[t] = c
         /\ \A u \in Threads \ {t} : call'[u] = call[u]
BY DEF TypeOK, Calls, Become

LEMMA Registered ==
  ASSUME TypeOK
  PROVE  /\ Len(objects) \in Nat
         /\ \A n \in Names : /\ datas[n] \in 0 .. Len(objects)
                             /\ datas[n] # 0 => datas[n] \in 1 .. Len(objects)
         /\ \A i \in 1 .. Len(objects) : objects[i] \in Objects
         /\ \A a \in answers : /\ a.name \in Names /\ a.type \in Types
                               /\ a.object \in 1 .. Len(objects)
<1>1. objects \in Seq(Objects) /\ datas \in [Names -> 0 .. Len(objects)]
  BY DEF TypeOK, Objects
<1>2. Len(objects) \in Nat /\ \A i \in 1 .. Len(objects) : objects[i] \in Objects
  BY <1>1
<1>3. \A n \in Names : datas[n] \in 0 .. Len(objects)
  BY <1>1
<1>4. \A a \in answers : a \in [name : Names, type : Types, object : 1 .. Len(objects)]
  BY DEF TypeOK
<1> QED
  BY <1>2, <1>3, <1>4

\* A step of one call that leaves the registry, the records and the files.
LEMMA CallStep ==
  ASSUME Inv, NEW t \in Threads, NEW c \in Calls, Become(t, c),
         Sound(c),
         UNCHANGED <<registry, records, files>>
  PROVE  Inv'
<1>1. /\ call' \in [Threads -> Calls]
      /\ call'[t] = c
      /\ \A u \in Threads \ {t} : call'[u] = call[u]
  BY NewCall DEF Inv
<1>2. TypeOK'
  BY <1>1 DEF Inv, TypeOK, Calls, registry, records, files
<1>3. OneObject' /\ DistinctInv' /\ TimesInv'
  BY DEF Inv, OneObject, DistinctInv, TimesInv, registry, records, files
<1>4. \A u \in Threads : Sound(call[u])'
  <2>1. \A u \in Threads : Sound(call'[u])
    BY <1>1 DEF Inv
  <2> QED
    BY <2>1 DEF Sound, registry, files
<1> QED
  BY <1>2, <1>3, <1>4 DEF Inv

-----------------------------------------------------------------------------
(* The registry.                                                           *)

LEMMA LookupBeginPreserves ==
  ASSUME Inv, NEW t \in Threads, NEW n \in Names, NEW type \in Types, LookupBegin(t, n, type)
  PROVE  Inv'
<1> DEFINE c == [pc |-> "find", name |-> n, type |-> type, object |-> 0]
<1>1. c \in Calls /\ Sound(c)
  BY DEF Calls, Lookups, Sound
<1> QED
  BY <1>1, CallStep DEF LookupBegin

LEMMA LookupFindPreserves ==
  ASSUME Inv, NEW t \in Threads, LookupFind(t)
  PROVE  Inv'
<1>1. call[t] \in Lookups
  BY CallKinds DEF Inv, LookupFind, At
<1>2. datas[call[t].name] \in Nat
  BY <1>1, Registered DEF Inv, Lookups
<1> DEFINE c == [call[t] EXCEPT !.pc = IF datas[call[t].name] = 0 THEN "emplace" ELSE "type",
                                !.object = datas[call[t].name]]
<1>3. c \in Calls
  BY <1>1, <1>2 DEF Calls, Lookups
<1>4. Sound(c)
  BY <1>1 DEF Lookups, Sound
<1> QED
  BY <1>3, <1>4, CallStep DEF LookupFind

LEMMA LookupEmplacePreserves ==
  ASSUME Inv, NEW t \in Threads, LookupEmplace(t)
  PROVE  Inv'
<1> DEFINE n == call[t].name
<1>1. call[t] \in Lookups /\ n \in Names
  BY CallKinds DEF Inv, LookupEmplace, At, Lookups
<1>2. CASE ~Stores(n)
  <2> DEFINE c == [call[t] EXCEPT !.pc = "type", !.object = datas[n]]
  <2>1. datas[n] \in Nat /\ datas[n] # 0
    BY <1>1, <1>2, Registered DEF Inv, Stores
  <2>2. c \in Calls /\ Sound(c)
    BY <1>1, <2>1 DEF Calls, Lookups, Sound
  <2> QED
    BY <1>2, <2>2, CallStep DEF LookupEmplace, registry
<1>3. CASE Stores(n)
  <2> DEFINE c == [call[t] EXCEPT !.pc = "type", !.object = Len(objects) + 1]
             x == [type |-> call[t].type, value |-> [by |-> "default"]]
  <2>1. Len(objects) \in Nat /\ datas \in [Names -> 0 .. Len(objects)] /\ datas[n] = 0
    BY <1>1, <1>3, Registered DEF Inv, TypeOK, Stores
  <2>2. c \in Calls /\ c.name = n /\ c.object = Len(objects) + 1 /\ c.pc = "type"
    <3>1. Len(objects) + 1 \in Nat
      BY <2>1
    <3>2. c \in Lookups
      BY <1>1, <3>1 DEF Lookups
    <3> QED
      BY <1>1, <3>2 DEF Calls, Lookups
  <2>3. /\ objects' = Append(objects, x)
        /\ datas' = [datas EXCEPT ![n] = Len(objects) + 1]
        /\ Become(t, c)
        /\ UNCHANGED <<answers, records, files>>
    BY <1>3 DEF LookupEmplace
  <2>4. x \in Objects
    BY <1>1 DEF Lookups, Objects, Sources
  <2>5. /\ objects' \in Seq(Objects) /\ Len(objects') = Len(objects) + 1
        /\ \A i \in 1 .. Len(objects) : objects'[i] = objects[i]
    BY <2>3, <2>4 DEF Inv, TypeOK, Objects
  <2>6. /\ datas'[n] = Len(objects) + 1
        /\ \A m \in Names \ {n} : datas'[m] = datas[m]
        /\ datas' \in [Names -> 0 .. Len(objects')]
    BY <1>1, <2>1, <2>3, <2>5
  <2>7. /\ call' \in [Threads -> Calls]
        /\ call'[t] = c
        /\ \A u \in Threads \ {t} : call'[u] = call[u]
    BY <2>2, <2>3, NewCall DEF Inv
  <2>8. answers' \subseteq [name : Names, type : Types, object : 1 .. Len(objects')]
    BY <2>1, <2>3, <2>5, Registered DEF Inv, TypeOK
  <2>9. TypeOK'
    BY <2>3, <2>5, <2>6, <2>7, <2>8 DEF Inv, TypeOK, Calls, Objects, records, files
  <2>10. OneObject'
    <3>1. SUFFICES ASSUME NEW a \in answers
                   PROVE  datas'[a.name] = a.object /\ objects'[a.object].type = a.type
      BY <2>3 DEF OneObject
    <3>2. a.name \in Names /\ a.object \in 1 .. Len(objects) /\ datas[a.name] = a.object
      BY Registered DEF Inv, OneObject
    <3>3. a.name # n
      BY <2>1, <3>2
    <3> QED
      BY <2>5, <2>6, <3>2, <3>3 DEF Inv, OneObject
  <2>11. DistinctInv'
    BY <2>1, <2>6 DEF Inv, DistinctInv
  <2>12. TimesInv'
    BY <2>3 DEF Inv, TimesInv, records, files
  <2>13. ASSUME NEW u \in Threads
         PROVE  Sound(call[u])'
    <3>1. CASE u = t
      <4>1. Len(objects) + 1 # 0
        BY <2>1
      <4> QED
        BY <2>2, <2>6, <2>7, <3>1, <4>1 DEF Sound
    <3>2. CASE u # t
      <4>1. call[u].pc = "type" => call[u] \in Lookups
        BY CallKinds DEF Inv
      <4>2. call[u].pc = "type" => call[u].name # n /\ call[u].name \in Names
        BY <2>1, <4>1 DEF Inv, Sound, Lookups
      <4> QED
        BY <2>3, <2>6, <2>7, <3>2, <4>2 DEF Inv, Sound, files
    <3> QED
      BY <3>1, <3>2
  <2> QED
    BY <2>9, <2>10, <2>11, <2>12, <2>13 DEF Inv
<1> QED
  BY <1>2, <1>3

\* More answers, each the registered object with its type.
LEMMA AnswersStep ==
  ASSUME Inv, NEW t \in Threads, NEW c \in Calls, Sound(c),
         \/ Become(t, c)
         \/ UNCHANGED call,
         \A a \in answers' \ answers :
            /\ a \in [name : Names, type : Types, object : 1 .. Len(objects)]
            /\ datas[a.name] = a.object /\ objects[a.object].type = a.type,
         UNCHANGED <<datas, objects, records, files>>
  PROVE  Inv'
<1>1. call' \in [Threads -> Calls]
  BY NewCall DEF Inv, TypeOK, Calls
<1>2. \A u \in Threads : Sound(call'[u])
  BY NewCall DEF Inv
<1>3. TypeOK'
  <2>1. answers' \subseteq [name : Names, type : Types, object : 1 .. Len(objects)]
    BY DEF Inv, TypeOK
  <2> QED
    BY <1>1, <2>1 DEF Inv, TypeOK, Calls, records, files
<1>4. OneObject'
  BY DEF Inv, OneObject
<1>5. DistinctInv' /\ TimesInv'
  BY DEF Inv, DistinctInv, TimesInv, records, files
<1>6. \A u \in Threads : Sound(call[u])'
  BY <1>2 DEF Sound, files
<1> QED
  BY <1>3, <1>4, <1>5, <1>6 DEF Inv

LEMMA LookupEndPreserves ==
  ASSUME Inv, NEW t \in Threads, LookupEnd(t)
  PROVE  Inv'
<1> DEFINE c == call[t]
           b == [name |-> c.name, type |-> c.type, object |-> c.object]
<1>1. c \in Lookups /\ c.object = datas[c.name] /\ c.object # 0
  BY CallKinds DEF Inv, LookupEnd, At, Sound
<1>2. c.name \in Names /\ c.type \in Types /\ c.object \in 1 .. Len(objects)
  BY <1>1, Registered DEF Inv, Lookups
<1>3. b \in [name : Names, type : Types, object : 1 .. Len(objects)]
  BY <1>2
<1>4. \A a \in answers' \ answers : a = b /\ objects[c.object].type = c.type
  BY DEF LookupEnd, SameType
<1>5. Idle \in Calls /\ Sound(Idle)
  BY DEF Idle, Calls, Sound
<1> QED
  BY <1>1, <1>3, <1>4, <1>5, AnswersStep DEF LookupEnd

LEMMA VisitPreserves ==
  ASSUME Inv, NEW t \in Threads, Visit(t)
  PROVE  Inv'
<1>1. \A n \in Names : datas[n] # 0 =>
        [name |-> n, type |-> objects[datas[n]].type, object |-> datas[n]]
           \in [name : Names, type : Types, object : 1 .. Len(objects)]
  BY Registered DEF Inv, Objects
<1>2. Idle \in Calls /\ Sound(Idle)
  BY DEF Idle, Calls, Sound
<1>3. ASSUME NEW a \in answers' \ answers
      PROVE  /\ a \in [name : Names, type : Types, object : 1 .. Len(objects)]
             /\ datas[a.name] = a.object /\ objects[a.object].type = a.type
  <2>1. PICK n \in Names : datas[n] # 0 /\ a = [name |-> n, type |-> objects[datas[n]].type,
                                                object |-> datas[n]]
    BY DEF Visit
  <2> QED
    BY <1>1, <2>1
<1> QED
  BY <1>2, <1>3, AnswersStep DEF Visit

\* A variable is given another value.
LEMMA ValueStep ==
  ASSUME Inv, NEW i \in 1 .. Len(objects), NEW value \in Sources,
         objects' = [objects EXCEPT ![i].value = value]
  PROVE  /\ objects' \in Seq(Objects) /\ Len(objects') = Len(objects)
         /\ \A j \in 1 .. Len(objects) : objects'[j].type = objects[j].type
         /\ \A j \in 1 .. Len(objects) : j # i => objects'[j] = objects[j]
         /\ objects'[i].value = value
<1>1. objects \in Seq(Objects) /\ objects[i] \in Objects
  BY Registered DEF Inv, TypeOK, Objects
<1>2. [objects[i] EXCEPT !.value = value] \in Objects
  BY <1>1 DEF Objects
<1>3. objects' = [objects EXCEPT ![i] = [objects[i] EXCEPT !.value = value]]
  OBVIOUS
<1>4. objects' \in Seq(Objects) /\ Len(objects') = Len(objects)
  BY <1>1, <1>2, <1>3
<1> QED
  BY <1>1, <1>3, <1>4 DEF Objects

\* Then the types and the registry are as before.
LEMMA ValuesKept ==
  ASSUME Inv, objects' \in Seq(Objects), Len(objects') = Len(objects),
         \A j \in 1 .. Len(objects) : objects'[j].type = objects[j].type,
         UNCHANGED <<datas, answers>>
  PROVE  /\ OneObject' /\ DistinctInv'
         /\ datas' \in [Names -> 0 .. Len(objects')]
         /\ answers' \subseteq [name : Names, type : Types, object : 1 .. Len(objects')]
<1>1. OneObject'
  BY Registered DEF Inv, OneObject
<1> QED
  BY <1>1 DEF Inv, TypeOK, DistinctInv

LEMMA SetValuePreserves ==
  ASSUME Inv, NEW t \in Threads, SetValue(t)
  PROVE  Inv'
<1>1. PICK a \in answers : objects' = [objects EXCEPT ![a.object].value = [by |-> "program"]]
  BY DEF SetValue
<1>2. a.object \in 1 .. Len(objects) /\ [by |-> "program"] \in Sources
  BY Registered DEF Inv, Sources
<1>3. /\ objects' \in Seq(Objects) /\ Len(objects') = Len(objects)
      /\ \A j \in 1 .. Len(objects) : objects'[j].type = objects[j].type
  BY <1>1, <1>2, ValueStep
<1>4. /\ OneObject' /\ DistinctInv'
      /\ datas' \in [Names -> 0 .. Len(objects')]
      /\ answers' \subseteq [name : Names, type : Types, object : 1 .. Len(objects')]
  BY <1>3, ValuesKept DEF SetValue
<1> QED
  BY <1>3, <1>4 DEF SetValue, Inv, TypeOK, Objects, TimesInv, Sound, records, files

-----------------------------------------------------------------------------
(* The loader and the files.                                               *)

LEMMA YamlBeginPreserves ==
  ASSUME Inv, NEW t \in Threads, NEW text \in Texts, YamlBegin(t, text)
  PROVE  Inv'
<1> DEFINE c == [pc |-> "apply", force |-> FALSE, since |-> clock, todo |-> {},
                 file |-> NoFile, writeTime |-> 0, version |-> 0,
                 nodes |-> text.nodes, success |-> text.clean]
<1>1. text.nodes \in Seq(Nodes) /\ text.clean \in BOOLEAN
  BY TextsAssumption DEF Nodes
<1>2. clock \in Versions /\ 0 \in Versions
  BY ConfigAssumption DEF Inv, TypeOK, Versions
<1>3. c \in Calls /\ Sound(c)
  BY <1>1, <1>2, ConfigAssumption DEF Calls, Loads, Nodes, Sound
<1> QED
  BY <1>3, CallStep DEF YamlBegin

LEMMA LoadBeginPreserves ==
  ASSUME Inv, NEW t \in Threads, NEW force \in BOOLEAN, LoadBegin(t, force)
  PROVE  Inv'
<1> DEFINE c == [pc |-> "next", force |-> force, since |-> clock,
                 todo |-> {f \in Files : disk[f].there},
                 file |-> NoFile, writeTime |-> 0, version |-> 0,
                 nodes |-> <<>>, success |-> TRUE]
<1>1. <<>> \in Seq(Nodes)
  OBVIOUS
<1>2. clock \in Versions /\ 0 \in Versions
  BY ConfigAssumption DEF Inv, TypeOK, Versions
<1>3. c \in Calls /\ Sound(c)
  BY <1>1, <1>2 DEF Calls, Loads, Nodes, Sound
<1> QED
  BY <1>3, CallStep DEF LoadBegin

\* A load goes on to its next file, and changes what is recorded of this one.
LEMMA NextFilePreserves ==
  ASSUME Inv, NEW t \in Threads, call[t] \in Loads, NextFile(t),
         UNCHANGED <<registry, files, missed>>,
         stamps' \in [Files -> Versions], failed' \in [Files -> {"no", "stat", "load"}],
         \A f \in Files : stamps'[f] <= disk[f].time
  PROVE  Inv'
<1> DEFINE c == [call[t] EXCEPT !.pc = "next"]
<1>1. c \in Calls /\ Sound(c)
  BY DEF Loads, Calls, Sound
<1>2. /\ call' \in [Threads -> Calls]
      /\ \A u \in Threads : Sound(call'[u])
  BY <1>1, NewCall DEF Inv, NextFile
<1>3. TypeOK'
  BY <1>2 DEF Inv, TypeOK, Calls, registry, files
<1>4. OneObject' /\ DistinctInv' /\ TimesInv'
  BY DEF Inv, OneObject, DistinctInv, TimesInv, registry, files
<1>5. \A u \in Threads : Sound(call[u])'
  BY <1>2 DEF Sound, registry, files
<1> QED
  BY <1>3, <1>4, <1>5 DEF Inv

LEMMA LoadStatPreserves ==
  ASSUME Inv, NEW t \in Threads, LoadStat(t)
  PROVE  Inv'
<1>1. call[t] \in Loads
  BY CallKinds DEF Inv, LoadStat, At
<1>2. PICK f \in Files : Become(t, [call[t] EXCEPT !.pc = IF call[t].force THEN "erase" ELSE "check",
                                                  !.todo = @ \ {f}, !.file = f,
                                                  !.writeTime = disk[f].time])
  BY DEF LoadStat
<1> DEFINE c == [call[t] EXCEPT !.pc = IF call[t].force THEN "erase" ELSE "check",
                                !.todo = @ \ {f}, !.file = f,
                                !.writeTime = disk[f].time]
<1>3. disk[f].time \in Versions /\ disk[f].time \in 1 .. disk[f].time
  BY DEF Inv, TypeOK, TimesInv, Versions
<1>4. c \in Loads
  BY <1>1, <1>3 DEF Loads
<1>5. c \in Calls /\ Sound(c)
  BY <1>1, <1>3, <1>4 DEF Loads, Calls, Sound
<1> QED
  BY <1>2, <1>5, CallStep DEF LoadStat

LEMMA LoadStatThrowsPreserves ==
  ASSUME Inv, NEW t \in Threads, LoadStatThrows(t)
  PROVE  Inv'
<1>1. call[t] \in Loads /\ call[t].pc = "next"
  BY CallKinds DEF Inv, LoadStatThrows, At
<1>2. PICK f \in Files : /\ failed' = [failed EXCEPT ![f] = IF call[t].force THEN "stat" ELSE @]
                         /\ Become(t, [call[t] EXCEPT !.todo = @ \ {f}])
  BY DEF LoadStatThrows
<1> DEFINE c == [call[t] EXCEPT !.todo = @ \ {f}]
<1>3. c \in Calls /\ Sound(c)
  BY <1>1 DEF Loads, Calls, Sound
<1>4. /\ call' \in [Threads -> Calls]
      /\ \A u \in Threads : Sound(call'[u])
  BY <1>2, <1>3, NewCall DEF Inv
<1>5. failed' \in [Files -> {"no", "stat", "load"}]
  BY <1>2 DEF Inv, TypeOK
<1>6. TypeOK'
  BY <1>4, <1>5 DEF LoadStatThrows, Inv, TypeOK, Calls, registry, files
<1>7. OneObject' /\ DistinctInv' /\ TimesInv'
  BY DEF LoadStatThrows, Inv, OneObject, DistinctInv, TimesInv, registry, files
<1>8. \A u \in Threads : Sound(call[u])'
  BY <1>4 DEF LoadStatThrows, Sound, registry, files
<1> QED
  BY <1>6, <1>7, <1>8 DEF Inv

LEMMA LoadCheckPreserves ==
  ASSUME Inv, NEW t \in Threads, LoadCheck(t)
  PROVE  Inv'
<1>1. call[t] \in Loads /\ call[t].pc = "check"
  BY CallKinds DEF Inv, LoadCheck, At
<1>2. CASE stamps[call[t].file] = call[t].writeTime
  BY <1>1, <1>2, NextFilePreserves DEF LoadCheck, Inv, TypeOK, TimesInv, records
<1>3. CASE stamps[call[t].file] # call[t].writeTime
  <2> DEFINE c == [call[t] EXCEPT !.pc = "erase"]
  <2>1. c \in Calls /\ Sound(c)
    BY <1>1 DEF Inv, Loads, Calls, Sound
  <2> QED
    BY <1>3, <2>1, CallStep DEF LoadCheck
<1> QED
  BY <1>2, <1>3

LEMMA LoadErasePreserves ==
  ASSUME Inv, NEW t \in Threads, LoadErase(t)
  PROVE  Inv'
<1>1. call[t] \in Loads /\ call[t].pc = "erase"
  BY CallKinds DEF Inv, LoadErase, At
<1> DEFINE f == call[t].file
           c == [call[t] EXCEPT !.pc = "read"]
<1>2. c \in Calls /\ Sound(c) /\ f \in Files
  BY <1>1 DEF Inv, Loads, Calls, Sound
<1>3. /\ call' \in [Threads -> Calls]
      /\ \A u \in Threads : Sound(call'[u])
  BY <1>2, NewCall DEF LoadErase, Inv
<1>4. /\ stamps' \in [Files -> Versions]
      /\ stamps'[f] = 0
      /\ \A g \in Files \ {f} : stamps'[g] = stamps[g]
  BY <1>2, ConfigAssumption DEF LoadErase, RecordErased, Inv, TypeOK, Versions
<1>5. failed' \in [Files -> {"no", "stat", "load"}] /\ missed' \in [Files -> SUBSET Names]
  BY DEF LoadErase, Fails, Inv, TypeOK
<1>6. TypeOK'
  BY <1>3, <1>4, <1>5 DEF LoadErase, Inv, TypeOK, Calls, registry, files
<1>7. OneObject' /\ DistinctInv'
  BY DEF LoadErase, Inv, OneObject, DistinctInv, registry
<1>8. TimesInv'
  BY <1>2, <1>4 DEF LoadErase, Inv, TimesInv, files
<1>9. \A u \in Threads : Sound(call[u])'
  BY <1>3 DEF LoadErase, Sound, registry, files
<1> QED
  BY <1>6, <1>7, <1>8, <1>9 DEF Inv

LEMMA LoadReadPreserves ==
  ASSUME Inv, NEW t \in Threads, LoadRead(t)
  PROVE  Inv'
<1>1. call[t] \in Loads /\ call[t].pc = "read"
  BY CallKinds DEF Inv, LoadRead, At
<1> DEFINE f == call[t].file
           c == [call[t] EXCEPT !.pc = "apply", !.version = disk[f].time,
                                !.nodes = disk[f].text.nodes,
                                !.success = disk[f].text.clean]
<1>2. f \in Files /\ call[t].writeTime \in 1 .. disk[f].time
  BY <1>1 DEF Inv, Sound
<1>3. disk[f].time \in Versions /\ disk[f].text \in Texts
  BY <1>2 DEF Inv, TypeOK
<1>4. disk[f].text.nodes \in Seq(Nodes) /\ disk[f].text.clean \in BOOLEAN
  BY <1>3, TextsAssumption DEF Nodes
<1>5. c \in Loads
  BY <1>1, <1>3, <1>4 DEF Loads, Nodes
<1>6. disk[f].time \in call[t].writeTime .. disk[f].time
  BY <1>2, <1>3 DEF Versions
<1>7. c \in Calls /\ Sound(c)
  BY <1>1, <1>2, <1>5, <1>6 DEF Loads, Calls, Sound
<1> QED
  BY <1>7, CallStep DEF LoadRead

LEMMA LoadReadThrowsPreserves ==
  ASSUME Inv, NEW t \in Threads, LoadReadThrows(t)
  PROVE  Inv'
<1>1. call[t] \in Loads /\ call[t].pc = "read"
  BY CallKinds DEF Inv, LoadReadThrows, At
<1>2. failed' \in [Files -> {"no", "stat", "load"}]
  BY DEF LoadReadThrows, Fails, Inv, TypeOK
<1> QED
  BY <1>1, <1>2, NextFilePreserves DEF LoadReadThrows, Inv, TypeOK, TimesInv

LEMMA LoadUnmarkedPreserves ==
  ASSUME Inv, NEW t \in Threads, LoadUnmarked(t)
  PROVE  Inv'
<1>1. call[t] \in Loads
  BY CallKinds DEF Inv, LoadUnmarked, Applied, At
<1>2. failed' \in [Files -> {"no", "stat", "load"}]
  BY DEF LoadUnmarked, Fails, Inv, TypeOK
<1> QED
  BY <1>1, <1>2, NextFilePreserves DEF LoadUnmarked, Inv, TypeOK, TimesInv

LEMMA LoadMarkPreserves ==
  ASSUME Inv, NEW t \in Threads, LoadMark(t)
  PROVE  Inv'
<1>1. call[t] \in Loads /\ call[t].pc = "apply" /\ call[t].file \in Files
  BY CallKinds DEF Inv, LoadMark, Applied, At, Loads
<1>2. call[t].writeTime \in Versions /\ call[t].writeTime <= disk[call[t].file].time
  BY <1>1 DEF Inv, Sound, Loads
<1>3. stamps' \in [Files -> Versions] /\ \A f \in Files : stamps'[f] <= disk[f].time
  BY <1>1, <1>2 DEF LoadMark, TimeToRecord, Inv, TypeOK, TimesInv
<1> QED
  BY <1>1, <1>3, NextFilePreserves DEF LoadMark, Inv, TypeOK

LEMMA EndPreserves ==
  ASSUME Inv, NEW t \in Threads, LookupFails(t) \/ LoadEnd(t) \/ YamlEnd(t)
  PROVE  Inv'
<1>1. Idle \in Calls /\ Sound(Idle)
  BY DEF Idle, Calls, Sound
<1> QED
  BY <1>1, CallStep DEF LookupFails, LoadEnd, YamlEnd

\* What Apply does to the variables.
LEMMA ApplyValue ==
  ASSUME Inv, NEW t \in Threads, Apply(t)
  PROVE  /\ call[t] \in Loads /\ call[t].pc = "apply" /\ call[t].nodes # <<>>
         /\ Head(call[t].nodes).name \in Names
         /\ objects' \in Seq(Objects) /\ Len(objects') = Len(objects)
         /\ \A j \in 1 .. Len(objects) : objects'[j].type = objects[j].type
         /\ \A j \in 1 .. Len(objects) :
              j # datas[Head(call[t].nodes).name] => objects'[j] = objects[j]
         /\ LET n == Head(call[t].nodes).name IN
            IF datas[n] # 0 /\ Converted(call[t])
            THEN objects'[datas[n]].value = Source(call[t])
            ELSE objects' = objects
<1> DEFINE c == call[t]
           n == Head(c.nodes).name
<1>1. c \in Loads /\ c.pc = "apply" /\ c.nodes # <<>>
  BY CallKinds DEF Inv, Apply, At
<1>2. n \in Names
  <2>1. c.nodes \in Seq(Nodes)
    BY <1>1 DEF Loads, Nodes
  <2>2. Head(c.nodes) \in Nodes
    BY <1>1, <2>1
  <2> QED
    BY <2>2 DEF Nodes
<1>3. Source(c) \in Sources
  BY <1>1 DEF Loads, Source, Sources
<1>4. CASE datas[n] # 0 /\ Converted(c)
  <2>1. objects' = [objects EXCEPT ![datas[n]].value = Source(c)]
    BY <1>4 DEF Apply
  <2>2. datas[n] \in 1 .. Len(objects)
    BY <1>2, <1>4, Registered DEF Inv
  <2> QED
    BY <1>1, <1>2, <1>3, <1>4, <2>1, <2>2, ValueStep
<1>5. CASE ~(datas[n] # 0 /\ Converted(c))
  <2>1. objects' = objects
    BY <1>5 DEF Apply
  <2> QED
    BY <1>1, <1>2, <1>5, <2>1 DEF Inv, TypeOK, Objects
<1> QED
  BY <1>4, <1>5

LEMMA ApplyPreserves ==
  ASSUME Inv, NEW t \in Threads, Apply(t)
  PROVE  Inv'
<1> DEFINE n == Head(call[t].nodes).name
           set == datas[n] # 0 /\ Converted(call[t])
           c == [call[t] EXCEPT !.nodes = Tail(@), !.success = @ /\ (datas[n] # 0 => set)]
<1>1. /\ call[t] \in Loads /\ call[t].pc = "apply" /\ call[t].nodes # <<>>
      /\ n \in Names
      /\ objects' \in Seq(Objects) /\ Len(objects') = Len(objects)
      /\ \A j \in 1 .. Len(objects) : objects'[j].type = objects[j].type
  BY ApplyValue
<1>2. Tail(call[t].nodes) \in Seq(Nodes)
  BY <1>1 DEF Loads, Nodes
<1>3. c \in Loads
  BY <1>1, <1>2 DEF Loads, Nodes
<1>4. c \in Calls /\ Sound(c)
  BY <1>1, <1>3 DEF Inv, Loads, Calls, Sound
<1>5. /\ call' \in [Threads -> Calls]
      /\ \A u \in Threads : Sound(call'[u])
  <2>1. Become(t, c)
    BY DEF Apply
  <2> QED
    BY <1>4, <2>1, NewCall DEF Inv
<1>6. /\ OneObject' /\ DistinctInv'
      /\ datas' \in [Names -> 0 .. Len(objects')]
      /\ answers' \subseteq [name : Names, type : Types, object : 1 .. Len(objects')]
  BY <1>1, ValuesKept DEF Apply
<1>7. missed' \in [Files -> SUBSET Names]
  BY <1>1 DEF Apply, Inv, TypeOK
<1>8. TypeOK'
  BY <1>1, <1>5, <1>6, <1>7 DEF Apply, Inv, TypeOK, Calls, Objects, files
<1>9. TimesInv'
  BY DEF Apply, Inv, TimesInv, files
<1>10. \A u \in Threads : Sound(call[u])'
  BY <1>5 DEF Apply, Sound, files
<1> QED
  BY <1>6, <1>8, <1>9, <1>10 DEF Inv

-----------------------------------------------------------------------------
(* Changes of the files.                                                   *)

\* What a change of a file leaves of it: its time does not go back.
LEMMA FileChange ==
  ASSUME Inv, FileSteps
  PROVE  /\ clock' = clock + 1 /\ clock' \in 0 .. MaxEvents
         /\ disk' \in [Files -> [there : BOOLEAN, time : Versions, text : Texts]]
         /\ \A f \in Files :
              \/ disk'[f].time = disk[f].time /\ disk'[f].text = disk[f].text
              \/ disk'[f].time = clock + 2
         /\ UNCHANGED <<registry, records, call>>
<1>1. clock \in 0 .. MaxEvents /\ MaxEvents \in Nat
  BY ConfigAssumption DEF Inv, TypeOK
<1>2. PICK g \in Files : (\E text \in Texts : WriteFile(g, text)) \/ HideFile(g) \/ RestoreFile(g)
  BY DEF FileSteps
<1>3. Event /\ UNCHANGED <<registry, records, call>>
  BY <1>2 DEF WriteFile, HideFile, RestoreFile
<1>4. clock' = clock + 1 /\ clock' \in 0 .. MaxEvents /\ clock + 2 \in Versions
  BY <1>1, <1>3 DEF Event, Versions
<1>5. ASSUME NEW text \in Texts, WriteFile(g, text)
      PROVE  /\ disk' \in [Files -> [there : BOOLEAN, time : Versions, text : Texts]]
             /\ \A f \in Files : disk'[f].time = clock + 2 \/ disk'[f] = disk[f]
  BY <1>4, <1>5 DEF WriteFile, Inv, TypeOK
<1>6. CASE HideFile(g) \/ RestoreFile(g)
  <2>1. PICK b \in BOOLEAN : disk' = [disk EXCEPT ![g].there = b]
    BY <1>6 DEF HideFile, RestoreFile
  <2>2. \A f \in Files : disk[f] \in [there : BOOLEAN, time : Versions, text : Texts]
    BY DEF Inv, TypeOK
  <2> QED
    BY <1>3, <1>4, <2>1, <2>2 DEF Inv, TypeOK
<1> QED
  BY <1>2, <1>3, <1>4, <1>5, <1>6

LEMMA FileStepsPreserve ==
  ASSUME Inv, FileSteps
  PROVE  Inv'
<1>1. /\ clock' = clock + 1 /\ clock' \in 0 .. MaxEvents
      /\ disk' \in [Files -> [there : BOOLEAN, time : Versions, text : Texts]]
      /\ \A f \in Files : \/ disk'[f].time = disk[f].time
                          \/ disk'[f].time = clock + 2
      /\ UNCHANGED <<registry, records, call>>
  BY FileChange
<1>2. clock \in Nat
  BY DEF Inv, TypeOK
<1>3. TypeOK'
  BY <1>1 DEF Inv, TypeOK, registry, records
<1>4. OneObject' /\ DistinctInv'
  BY <1>1 DEF Inv, OneObject, DistinctInv, registry
<1>5. \A f \in Files : stamps[f] \in Nat /\ disk[f].time \in Nat
  BY DEF Inv, TypeOK, Versions
<1>6. \A f \in Files : disk[f].time <= disk'[f].time /\ disk'[f].time \in 1 .. clock' + 1
  BY <1>1, <1>2, <1>5 DEF Inv, TimesInv
<1>7. TimesInv'
  BY <1>1, <1>5, <1>6 DEF Inv, TimesInv, records
<1>8. ASSUME NEW u \in Threads
      PROVE  Sound(call[u])'
  <2>1. Sound(call[u]) /\ call'[u] = call[u] /\ datas' = datas
    BY <1>1 DEF Inv, registry
  <2>2. call[u].pc \in {"check", "erase", "read", "apply"} =>
          call[u].writeTime \in Nat /\ call[u].version \in Nat
    BY CallKinds DEF Inv, Loads, Versions
  <2> QED
    BY <1>5, <1>6, <2>1, <2>2 DEF Sound
<1> QED
  BY <1>3, <1>4, <1>7, <1>8 DEF Inv

-----------------------------------------------------------------------------
(* The invariant, and what holds of the registry.                          *)

LEMMA InitEstablishes ==
  ASSUME Init
  PROVE  Inv
<1>1. objects = <<>> /\ Len(objects) = 0 /\ objects \in Seq(Objects)
  BY DEF Init
<1>2. 0 \in Versions /\ 1 \in Versions /\ 0 \in 0 .. MaxEvents
  BY ConfigAssumption DEF Versions
<1>3. disk \in [Files -> [there : BOOLEAN, time : Versions, text : Texts]]
  BY <1>2 DEF Init
<1>4. TypeOK
  BY <1>1, <1>2, <1>3 DEF Init, TypeOK, Objects
<1>5. OneObject /\ DistinctInv
  BY DEF Init, OneObject, DistinctInv
<1>6. TimesInv
  <2>1. \A f \in Files : disk[f].time = 1 /\ stamps[f] = 0 /\ clock = 0
    BY DEF Init
  <2> QED
    BY <2>1 DEF TimesInv
<1>7. \A t \in Threads : Sound(call[t])
  BY DEF Init, Idle, Sound
<1> QED
  BY <1>4, <1>5, <1>6, <1>7 DEF Inv

LEMMA NextPreserves ==
  ASSUME Inv, Next
  PROVE  Inv'
<1>1. CASE FileSteps
  BY <1>1, FileStepsPreserve
<1>2. ASSUME NEW t \in Threads, LookupSteps(t)
      PROVE  Inv'
  BY <1>2, LookupFindPreserves, LookupEmplacePreserves, LookupEndPreserves, EndPreserves
     DEF LookupSteps
<1>3. ASSUME NEW t \in Threads, LoadSteps(t)
      PROVE  Inv'
  BY <1>3, LoadStatPreserves, LoadStatThrowsPreserves, LoadCheckPreserves, LoadErasePreserves,
     LoadReadPreserves, LoadReadThrowsPreserves, LoadMarkPreserves, LoadUnmarkedPreserves,
     EndPreserves, ApplyPreserves DEF LoadSteps
<1>4. ASSUME NEW t \in Threads, Begin(t)
      PROVE  Inv'
  BY <1>4, LookupBeginPreserves, YamlBeginPreserves, LoadBeginPreserves, VisitPreserves,
     SetValuePreserves DEF Begin
<1> QED
  BY <1>1, <1>2, <1>3, <1>4 DEF Next

LEMMA StutterPreserves ==
  ASSUME Inv, UNCHANGED vars
  PROVE  Inv'
<1>1. TypeOK'
  BY DEF vars, Inv, TypeOK
<1>2. OneObject' /\ DistinctInv' /\ TimesInv' /\ \A t \in Threads : Sound(call[t])'
  BY DEF vars, Inv, OneObject, DistinctInv, TimesInv, Sound
<1> QED
  BY <1>1, <1>2 DEF Inv

\* The invariant of the registry, the calls and the times of the files, with
\* any number of threads that load.
THEOREM Invariance == Spec => []Inv
<1>1. Init => Inv
  BY InitEstablishes
<1>2. Inv /\ [Next]_vars => Inv'
  BY NextPreserves, StutterPreserves
<1> QED
  BY <1>1, <1>2, PTL DEF Spec

\* Every variable keeps its type.
THEOREM TypeCorrect == Spec => []TypeOK
<1>1. Inv => TypeOK
  BY DEF Inv
<1> QED
  BY <1>1, Invariance, PTL

\* What Lookup answered or Visit handed out is the one object of its name, of
\* the type asked for, whoever creates it at the same time.
THEOREM ObjectUnique == Spec => []OneObject
<1>1. Inv => OneObject
  BY DEF Inv
<1> QED
  BY <1>1, Invariance, PTL

-----------------------------------------------------------------------------
(***************************************************************************)
(* The loader: what holds when one thread loads directories, for any other *)
(* threads, names, files, contents and changes of the files: what a record *)
(* stands for, that a failure leaves none, and which path wins.  The       *)
(* argument follows a file through a load.  While it is read and applied   *)
(* it has no record; the nodes applied so far cover their names, and once  *)
(* all are the record may be made.                                         *)
(***************************************************************************)

\* The documents promise nothing of two loads at once; see README.
OneLoader == \A t, u \in Loaders : t = u

Loading(c) == \/ c.pc \in {"next", "check", "erase", "read"}
              \/ c.pc = "apply" /\ c.file \in Files

Reading(c, f) == c.pc \in {"read", "apply"} /\ c.file = f

LoaderInv == \A t \in Threads : Loading(call[t]) => t \in Loaders

\* No record is there of a file that is being read or applied.
QuietInv == \A t \in Threads, f \in Files :
               Reading(call[t], f) => stamps[f] = 0 /\ failed[f] = "no"

\* Version v of f has nothing to say about n that n does not know.
Covered(f, n, v) ==
    IF datas[n] = 0 THEN n \in missed[f]
    ELSE LET value == objects[datas[n]].value IN
         /\ value.by = "default" => n \in missed[f]
         /\ value.by = "file" /\ value.file = f => value.version = v

\* The nodes of f that have been applied are the first of its version.
Behind(c, f) == Len(disk[f].text.nodes) - Len(c.nodes)

InStep(c, f) ==
    /\ Len(c.nodes) <= Len(disk[f].text.nodes)
    /\ \A i \in 1 .. Len(c.nodes) : c.nodes[i] = disk[f].text.nodes[Behind(c, f) + i]

AppliedSoFar(c, f) ==
    c.pc = "apply" /\ c.file = f /\ c.version = disk[f].time =>
       /\ InStep(c, f)
       /\ c.success => \A i \in 1 .. Behind(c, f) :
                          Covered(f, disk[f].text.nodes[i].name, c.version)

ApplyInv == \A t \in Threads, f \in Files : AppliedSoFar(call[t], f)

RecordInv == \A f \in Files : stamps[f] = disk[f].time =>
                \A n \in NamesIn(disk[f].text) : Covered(f, n, stamps[f])

LoadInv == LoaderInv /\ QuietInv /\ FailureRetried /\ ApplyInv /\ RecordInv

-----------------------------------------------------------------------------
(* Contents of files.                                                      *)

LEMMA Contents ==
  ASSUME Inv, NEW f \in Files
  PROVE  /\ disk[f].text.nodes \in Seq(Nodes) /\ Len(disk[f].text.nodes) \in Nat
         /\ \A i \in 1 .. Len(disk[f].text.nodes) : disk[f].text.nodes[i].name \in Names
         /\ NamesIn(disk[f].text) \subseteq Names
<1>1. disk[f].text \in Texts
  BY DEF Inv, TypeOK
<1>2. disk[f].text.nodes \in Seq(Nodes)
  BY <1>1, TextsAssumption DEF Nodes
<1>3. Len(disk[f].text.nodes) \in Nat /\ DOMAIN disk[f].text.nodes = 1 .. Len(disk[f].text.nodes)
  BY <1>2
<1>4. \A i \in 1 .. Len(disk[f].text.nodes) : disk[f].text.nodes[i] \in Nodes
  BY <1>2
<1>5. \A i \in 1 .. Len(disk[f].text.nodes) : disk[f].text.nodes[i].name \in Names
  BY <1>4 DEF Nodes
<1> QED
  BY <1>2, <1>3, <1>5 DEF NamesIn

LEMMA FileTimes ==
  ASSUME Inv, NEW f \in Files
  PROVE  /\ disk[f].time \in Nat /\ disk[f].time >= 1 /\ stamps[f] \in Nat
         /\ clock \in Nat /\ disk[f].time <= clock + 1 /\ stamps[f] <= disk[f].time
BY DEF Inv, TypeOK, TimesInv, Versions

-----------------------------------------------------------------------------
(* Steps that are not the loader's.                                        *)

Covers == \A f \in Files, n \in Names, v \in Versions : Covered(f, n, v) => Covered(f, n, v)'

\* A call that is no load, and leaves what is covered, disturbs nothing.
LEMMA OtherStep ==
  ASSUME Inv, LoadInv, NEW t \in Threads,
         \A u \in Threads \ {t} : call'[u] = call[u],
         ~Loading(call'[t]),
         Covers, UNCHANGED <<records, files>>
  PROVE  LoadInv'
<1>1. \A f \in Files : /\ stamps'[f] = stamps[f] /\ failed'[f] = failed[f]
                       /\ missed'[f] = missed[f] /\ disk'[f] = disk[f]
                       /\ stamps[f] \in Versions
  BY DEF Inv, TypeOK, records, files
<1>2. \A f \in Files : ~Reading(call'[t], f)
  BY DEF Loading, Reading
<1>3. LoaderInv'
  BY DEF LoadInv, LoaderInv, Loading
<1>4. QuietInv'
  BY <1>1, <1>2 DEF LoadInv, QuietInv, Reading
<1>5. FailureRetried'
  BY <1>1 DEF LoadInv, FailureRetried
<1>6. ASSUME NEW u \in Threads, NEW f \in Files
      PROVE  AppliedSoFar(call[u], f)'
  <2>1. CASE u = t
    BY <1>2, <2>1 DEF AppliedSoFar, Reading
  <2>2. CASE u # t
    <3>1. SUFFICES ASSUME call[u].pc = "apply", call[u].file = f, call[u].version = disk[f].time
                   PROVE  AppliedSoFar(call[u], f)'
      BY <1>1, <2>2 DEF AppliedSoFar
    <3>2. InStep(call[u], f)
      BY <3>1 DEF LoadInv, ApplyInv, AppliedSoFar
    <3>3. InStep(call[u], f)' /\ Behind(call[u], f)' = Behind(call[u], f)
      BY <1>1, <2>2, <3>2 DEF InStep, Behind
    <3>4. call[u].version \in Versions
      BY <3>1 DEF Inv, TypeOK
    <3>5. \A i \in 1 .. Behind(call[u], f) : i \in 1 .. Len(disk[f].text.nodes)
      <4>1. call[u].nodes \in Seq(Nodes)
        BY <3>1, CallKinds DEF Inv, Loads, Nodes
      <4> QED
        BY <4>1, Contents DEF Behind
    <3>6. \A i \in 1 .. Behind(call[u], f) : disk[f].text.nodes[i].name \in Names
      BY <3>5, Contents
    <3>7. call[u].success => \A i \in 1 .. Behind(call[u], f) :
             Covered(f, disk[f].text.nodes[i].name, call[u].version)'
      <4>1. call[u].success => \A i \in 1 .. Behind(call[u], f) :
               Covered(f, disk[f].text.nodes[i].name, call[u].version)
        BY <3>1 DEF LoadInv, ApplyInv, AppliedSoFar
      <4>2. ASSUME NEW n \in Names, Covered(f, n, call[u].version)
            PROVE  Covered(f, n, call[u].version)'
        BY <2>2, <3>4, <4>2 DEF Covers
      <4>3. ASSUME NEW i \in 1 .. Behind(call[u], f),
                   Covered(f, disk[f].text.nodes[i].name, call[u].version)
            PROVE  Covered(f, disk[f].text.nodes[i].name, call[u].version)'
        <5>1. PICK n \in Names : n = disk[f].text.nodes[i].name /\ n = disk'[f].text.nodes[i].name
          BY <1>1, <3>6
        <5> QED
          BY <4>2, <4>3, <5>1
      <4> QED
        BY <4>1, <4>3
    <3> QED
      BY <1>1, <2>2, <3>3, <3>7 DEF AppliedSoFar
  <2> QED
    BY <2>1, <2>2
<1>7. RecordInv'
  <2>1. SUFFICES ASSUME NEW f \in Files, stamps[f] = disk[f].time, NEW n \in NamesIn(disk[f].text)
                 PROVE  Covered(f, n, stamps[f])'
    BY <1>1 DEF RecordInv, NamesIn
  <2>2. Covered(f, n, stamps[f]) /\ n \in Names /\ stamps[f] \in Versions
    BY <1>1, <2>1, Contents DEF LoadInv, RecordInv
  <2>3. Covered(f, n, stamps[f])'
    BY <1>1, <2>2 DEF Covers
  <2> QED
    BY <2>3
<1> QED
  BY <1>3, <1>4, <1>5, <1>6, <1>7 DEF LoadInv, ApplyInv

LEMMA RegistryKept ==
  ASSUME UNCHANGED <<datas, objects, missed>>
  PROVE  Covers
BY DEF Covers, Covered

LEMMA LookupBeginLoad ==
  ASSUME Inv, LoadInv, NEW t \in Threads, NEW n \in Names, NEW type \in Types,
         LookupBegin(t, n, type)
  PROVE  LoadInv'
<1>1. [pc |-> "find", name |-> n, type |-> type, object |-> 0] \in Calls
  BY DEF Calls, Lookups
<1>2. ~Loading(call'[t]) /\ \A u \in Threads \ {t} : call'[u] = call[u]
  BY <1>1, NewCall DEF Inv, LookupBegin, Loading
<1> QED
  BY <1>2, OtherStep, RegistryKept DEF LookupBegin, registry, records

LEMMA LookupFindLoad ==
  ASSUME Inv, LoadInv, NEW t \in Threads, LookupFind(t)
  PROVE  LoadInv'
<1>1. call[t] \in Lookups /\ call \in [Threads -> Calls]
  BY CallKinds DEF Inv, TypeOK, Calls, LookupFind, At
<1>2. ~Loading(call'[t]) /\ \A u \in Threads \ {t} : call'[u] = call[u]
  BY <1>1 DEF LookupFind, Become, Lookups, Loading
<1> QED
  BY <1>2, OtherStep, RegistryKept DEF LookupFind, registry, records

LEMMA LookupEmplaceLoad ==
  ASSUME Inv, LoadInv, NEW t \in Threads, LookupEmplace(t)
  PROVE  LoadInv'
<1> DEFINE m == call[t].name
<1>1. call[t] \in Lookups /\ call \in [Threads -> Calls] /\ m \in Names
  BY CallKinds DEF Inv, TypeOK, Calls, LookupEmplace, At, Lookups
<1>2. ~Loading(call'[t]) /\ \A u \in Threads \ {t} : call'[u] = call[u]
  <2>1. \E k : Become(t, [call[t] EXCEPT !.pc = "type", !.object = k])
    BY DEF LookupEmplace
  <2>2. PICK k : call' = [call EXCEPT ![t] = [call[t] EXCEPT !.pc = "type", !.object = k]]
    BY <2>1 DEF Become
  <2>3. call'[t] = [call[t] EXCEPT !.pc = "type", !.object = k]
    BY <1>1, <2>2
  <2>4. call'[t].pc = "type"
    BY <1>1, <2>3 DEF Lookups
  <2> QED
    BY <1>1, <2>2, <2>4 DEF Loading
<1>3. Covers
  <2>1. CASE ~Stores(m)
    BY <2>1, RegistryKept DEF LookupEmplace, records
  <2>2. CASE Stores(m)
    <3>1. /\ datas' = [datas EXCEPT ![m] = Len(objects) + 1]
          /\ objects' = Append(objects, [type |-> call[t].type, value |-> [by |-> "default"]])
          /\ missed' = missed /\ datas[m] = 0
      BY <2>2 DEF LookupEmplace, Stores, records
    <3>2. objects \in Seq(Objects) /\ datas \in [Names -> 0 .. Len(objects)] /\ Len(objects) \in Nat
      BY Registered DEF Inv, TypeOK, Objects
    <3>3. /\ objects'[Len(objects) + 1].value = [by |-> "default"]
          /\ \A i \in 1 .. Len(objects) : objects'[i] = objects[i]
      BY <3>1, <3>2
    <3>4. /\ datas'[m] = Len(objects) + 1 /\ datas'[m] # 0
          /\ \A n \in Names \ {m} : datas'[n] = datas[n]
      BY <1>1, <3>1, <3>2
    <3>5. \A n \in Names : datas[n] # 0 => datas[n] \in 1 .. Len(objects)
      BY Registered DEF Inv
    <3>6. ASSUME NEW f \in Files, NEW n \in Names, NEW v \in Versions, Covered(f, n, v)
          PROVE  Covered(f, n, v)'
      <4>1. CASE n = m
        BY <3>1, <3>3, <3>4, <3>6, <4>1 DEF Covered
      <4>2. CASE n # m
        BY <3>1, <3>3, <3>4, <3>5, <3>6, <4>2 DEF Covered
      <4> QED
        BY <4>1, <4>2
    <3> QED
      BY <3>6 DEF Covers
  <2> QED
    BY <2>1, <2>2
<1> QED
  BY <1>2, <1>3, OtherStep DEF LookupEmplace

LEMMA EndLoad ==
  ASSUME Inv, LoadInv, NEW t \in Threads,
         LookupFails(t) \/ LookupEnd(t) \/ YamlEnd(t) \/ LoadEnd(t)
  PROVE  LoadInv'
<1>1. call \in [Threads -> Calls]
  BY DEF Inv, TypeOK, Calls
<1>2. ~Loading(call'[t]) /\ \A u \in Threads \ {t} : call'[u] = call[u]
  BY <1>1 DEF LookupFails, LookupEnd, YamlEnd, LoadEnd, Become, Idle, Loading
<1> QED
  BY <1>2, OtherStep, RegistryKept
     DEF LookupFails, LookupEnd, YamlEnd, LoadEnd, registry, records

LEMMA VisitLoad ==
  ASSUME Inv, LoadInv, NEW t \in Threads, Visit(t)
  PROVE  LoadInv'
<1>1. ~Loading(call'[t]) /\ call' = call
  BY DEF Visit, At, Loading
<1> QED
  BY <1>1, OtherStep, RegistryKept DEF Visit, records

LEMMA SetValueLoad ==
  ASSUME Inv, LoadInv, NEW t \in Threads, SetValue(t)
  PROVE  LoadInv'
<1>1. ~Loading(call'[t]) /\ call' = call /\ missed' = missed /\ datas' = datas
  BY DEF SetValue, At, Loading, records
<1>2. PICK a \in answers : objects' = [objects EXCEPT ![a.object].value = [by |-> "program"]]
  BY DEF SetValue
<1>3. a.object \in 1 .. Len(objects) /\ [by |-> "program"] \in Sources
  BY Registered DEF Inv, Sources
<1>4. /\ objects'[a.object].value = [by |-> "program"]
      /\ \A j \in 1 .. Len(objects) : j # a.object => objects'[j] = objects[j]
  BY <1>2, <1>3, ValueStep
<1>5. Covers
  BY <1>1, <1>4, Registered DEF Inv, Covers, Covered
<1> QED
  BY <1>1, <1>5, OtherStep DEF SetValue

LEMMA YamlBeginLoad ==
  ASSUME Inv, LoadInv, NEW t \in Threads, NEW text \in Texts, YamlBegin(t, text)
  PROVE  LoadInv'
<1>1. call \in [Threads -> Calls]
  BY DEF Inv, TypeOK, Calls
<1>2. call'[t].pc = "apply" /\ call'[t].file = NoFile /\ \A u \in Threads \ {t} : call'[u] = call[u]
  BY <1>1 DEF YamlBegin, Become
<1>3. ~Loading(call'[t])
  BY <1>2, ConfigAssumption DEF Loading
<1> QED
  BY <1>2, <1>3, OtherStep, RegistryKept DEF YamlBegin, registry, records

\* A node given to LoadFromYaml.
LEMMA ApplyOtherLoad ==
  ASSUME Inv, LoadInv, NEW t \in Threads, Apply(t), call[t].file = NoFile
  PROVE  LoadInv'
<1> DEFINE n == Head(call[t].nodes).name
<1>1. /\ call[t] \in Loads /\ call[t].pc = "apply"
      /\ n \in Names /\ Len(objects') = Len(objects)
      /\ \A j \in 1 .. Len(objects) : j # datas[n] => objects'[j] = objects[j]
      /\ IF datas[n] # 0 /\ Converted(call[t]) THEN objects'[datas[n]].value = Source(call[t])
         ELSE objects' = objects
  BY ApplyValue
<1>2. call \in [Threads -> Calls]
  BY DEF Inv, TypeOK, Calls
<1>3. call'[t].pc = "apply" /\ call'[t].file = NoFile /\ \A u \in Threads \ {t} : call'[u] = call[u]
  BY <1>1, <1>2 DEF Apply, Become, Loads
<1>4. ~Loading(call'[t])
  BY <1>3, ConfigAssumption DEF Loading
<1>5. missed' = missed /\ datas' = datas
  BY ConfigAssumption DEF Apply, Inv, TypeOK
<1>6. Source(call[t]) = [by |-> "yaml"]
  BY DEF Source
<1>7. ASSUME NEW f \in Files, NEW k \in Names, NEW v \in Versions, Covered(f, k, v)
      PROVE  Covered(f, k, v)'
  <2>1. CASE datas[k] = 0 \/ objects'[datas[k]] = objects[datas[k]]
    BY <1>5, <1>7, <2>1 DEF Covered
  <2>2. CASE datas[k] # 0 /\ objects'[datas[k]] # objects[datas[k]]
    <3>1. datas[k] \in 1 .. Len(objects)
      BY <2>2, Registered DEF Inv
    <3>2. datas[k] = datas[n] /\ objects'[datas[n]].value = [by |-> "yaml"]
      BY <1>1, <1>6, <2>2, <3>1
    <3> QED
      BY <1>5, <2>2, <3>2 DEF Covered
  <2> QED
    BY <2>1, <2>2
<1> QED
  BY <1>3, <1>4, <1>5, <1>7, OtherStep DEF Apply, Covers, records

-----------------------------------------------------------------------------
(* Steps of the loader.                                                    *)

\* Nobody else loads: what is to be shown concerns this one load.
LEMMA LoaderStep ==
  ASSUME OneLoader, Inv, LoadInv, NEW t \in Loaders,
         \A u \in Threads \ {t} : call'[u] = call[u],
         \A f \in Files : Reading(call'[t], f) => stamps'[f] = 0 /\ failed'[f] = "no",
         FailureRetried', \A f \in Files : AppliedSoFar(call[t], f)', RecordInv'
  PROVE  LoadInv'
<1>1. t \in Threads
  BY ConfigAssumption
<1>2. ASSUME NEW u \in Threads, u # t
      PROVE  ~Loading(call'[u])
  BY <1>1, <1>2 DEF OneLoader, LoadInv, LoaderInv
<1>3. \A u \in Threads : Loading(call[u])' => u \in Loaders
  BY <1>2
<1>4. \A u \in Threads, f \in Files : (Reading(call[u], f) => stamps[f] = 0 /\ failed[f] = "no")'
  BY <1>2 DEF Reading, Loading
<1>5. \A u \in Threads, f \in Files : AppliedSoFar(call[u], f)'
  BY <1>2 DEF AppliedSoFar, Loading
<1> QED
  BY <1>3, <1>4, <1>5 DEF LoadInv, LoaderInv, QuietInv, ApplyInv

LEMMA LoaderCalls ==
  ASSUME Inv, LoadInv, NEW t \in Threads, Loading(call[t])
  PROVE  t \in Loaders /\ call[t] \in Loads /\ call \in [Threads -> Calls]
BY CallKinds DEF Inv, TypeOK, Calls, LoadInv, LoaderInv, Loading

\* What is recorded and covered stays as it is.
LEMMA RecordsKept ==
  ASSUME Inv, LoadInv, UNCHANGED <<datas, objects, stamps, missed, disk>>
  PROVE  RecordInv'
BY DEF LoadInv, RecordInv, Covered

LEMMA LoadBeginLoad ==
  ASSUME OneLoader, Inv, LoadInv, NEW t \in Threads, NEW force \in BOOLEAN, LoadBegin(t, force)
  PROVE  LoadInv'
<1>1. t \in Loaders /\ call \in [Threads -> Calls]
  BY DEF LoadBegin, Inv, TypeOK, Calls
<1>2. call'[t].pc = "next" /\ \A u \in Threads \ {t} : call'[u] = call[u]
  BY <1>1 DEF LoadBegin, Become
<1>3. FailureRetried' /\ RecordInv'
  BY RecordsKept DEF LoadBegin, LoadInv, FailureRetried, registry, records, files
<1> QED
  BY <1>1, <1>2, <1>3, LoaderStep DEF Reading, AppliedSoFar

LEMMA LoadStatLoad ==
  ASSUME OneLoader, Inv, LoadInv, NEW t \in Threads, LoadStat(t)
  PROVE  LoadInv'
<1>1. t \in Loaders /\ call[t] \in Loads /\ call \in [Threads -> Calls]
  BY LoaderCalls DEF LoadStat, At, Loading
<1>2. call'[t].pc \in {"check", "erase"} /\ \A u \in Threads \ {t} : call'[u] = call[u]
  BY <1>1 DEF LoadStat, Become, Loads
<1>3. FailureRetried' /\ RecordInv'
  BY RecordsKept DEF LoadStat, LoadInv, FailureRetried, registry, records, files
<1> QED
  BY <1>1, <1>2, <1>3, LoaderStep DEF Reading, AppliedSoFar

LEMMA LoadStatThrowsLoad ==
  ASSUME OneLoader, Inv, LoadInv, NEW t \in Threads, LoadStatThrows(t)
  PROVE  LoadInv'
<1>1. t \in Loaders /\ call[t] \in Loads /\ call[t].pc = "next" /\ call \in [Threads -> Calls]
  BY LoaderCalls DEF LoadStatThrows, At, Loading
<1>2. call'[t].pc = "next" /\ \A u \in Threads \ {t} : call'[u] = call[u]
  BY <1>1 DEF LoadStatThrows, Become, Loads
<1>3. \A f \in Files : failed'[f] = failed[f] \/ failed'[f] = "stat"
  BY DEF LoadStatThrows, Inv, TypeOK
<1>4. FailureRetried' /\ RecordInv'
  BY <1>3, RecordsKept DEF LoadStatThrows, LoadInv, FailureRetried, registry, files
<1> QED
  BY <1>1, <1>2, <1>4, LoaderStep DEF Reading, AppliedSoFar

LEMMA LoadCheckLoad ==
  ASSUME OneLoader, Inv, LoadInv, NEW t \in Threads, LoadCheck(t)
  PROVE  LoadInv'
<1>1. t \in Loaders /\ call[t] \in Loads /\ call \in [Threads -> Calls]
  BY LoaderCalls DEF LoadCheck, At, Loading
<1>2. call'[t].pc \in {"next", "erase"} /\ \A u \in Threads \ {t} : call'[u] = call[u]
  BY <1>1 DEF LoadCheck, NextFile, Become, Loads
<1>3. FailureRetried' /\ RecordInv'
  BY RecordsKept DEF LoadCheck, LoadInv, FailureRetried, registry, records, files
<1> QED
  BY <1>1, <1>2, <1>3, LoaderStep DEF Reading, AppliedSoFar

LEMMA LoadEraseLoad ==
  ASSUME OneLoader, Inv, LoadInv, NEW t \in Threads, LoadErase(t)
  PROVE  LoadInv'
<1> DEFINE f == call[t].file
<1>1. t \in Loaders /\ call[t] \in Loads /\ call \in [Threads -> Calls] /\ f \in Files
  BY LoaderCalls DEF LoadErase, At, Loading, Inv, Sound
<1>2. call'[t].pc = "read" /\ call'[t].file = f /\ \A u \in Threads \ {t} : call'[u] = call[u]
  BY <1>1 DEF LoadErase, Become, Loads
<1>3. /\ stamps'[f] = 0 /\ failed'[f] = "no"
      /\ \A g \in Files \ {f} : /\ stamps'[g] = stamps[g] /\ failed'[g] = failed[g]
                                /\ missed'[g] = missed[g]
      /\ UNCHANGED <<datas, objects, disk>>
  BY <1>1 DEF LoadErase, RecordErased, Fails, Inv, TypeOK, registry, files
<1>4. FailureRetried'
  BY <1>3 DEF LoadInv, FailureRetried
<1>5. RecordInv'
  <2>1. SUFFICES ASSUME NEW g \in Files, stamps'[g] = disk[g].time, NEW n \in NamesIn(disk[g].text)
                 PROVE  Covered(g, n, stamps[g])'
    BY <1>3 DEF RecordInv
  <2>2. g # f
    BY <1>3, <2>1, FileTimes
  <2> QED
    BY <1>3, <2>1, <2>2 DEF LoadInv, RecordInv, Covered
<1>6. \A g \in Files : Reading(call'[t], g) => stamps'[g] = 0 /\ failed'[g] = "no"
  BY <1>2, <1>3 DEF Reading
<1> QED
  BY <1>1, <1>2, <1>4, <1>5, <1>6, LoaderStep DEF AppliedSoFar

LEMMA LoadReadLoad ==
  ASSUME OneLoader, Inv, LoadInv, NEW t \in Threads, LoadRead(t)
  PROVE  LoadInv'
<1> DEFINE f == call[t].file
<1>1. t \in Loaders /\ call[t] \in Loads /\ call \in [Threads -> Calls] /\ f \in Files
  BY LoaderCalls DEF LoadRead, At, Loading, Inv, Sound
<1>2. /\ call'[t].pc = "apply" /\ call'[t].file = f /\ call'[t].nodes = disk[f].text.nodes
      /\ \A u \in Threads \ {t} : call'[u] = call[u]
  BY <1>1 DEF LoadRead, Become, Loads
<1>3. FailureRetried' /\ RecordInv' /\ UNCHANGED <<stamps, failed, disk>>
  BY RecordsKept DEF LoadRead, LoadInv, FailureRetried, registry, records, files
<1>4. \A g \in Files : Reading(call'[t], g) => stamps'[g] = 0 /\ failed'[g] = "no"
  BY <1>2, <1>3 DEF Reading, LoadRead, At, LoadInv, QuietInv
<1>5. ASSUME NEW g \in Files
      PROVE  AppliedSoFar(call[t], g)'
  <2>1. SUFFICES ASSUME g = f
                 PROVE  AppliedSoFar(call[t], g)'
    BY <1>2 DEF AppliedSoFar
  <2>2. /\ Len(disk'[g].text.nodes) \in Nat
        /\ call'[t].nodes = disk'[g].text.nodes
    BY <1>2, <1>3, <2>1, Contents
  <2> HIDE DEF f
  <2>3. Behind(call[t], g)' = 0
    BY <2>2 DEF Behind
  <2>4. InStep(call[t], g)'
    BY <2>2, <2>3 DEF InStep
  <2> QED
    BY <2>3, <2>4 DEF AppliedSoFar
<1> QED
  BY <1>1, <1>2, <1>3, <1>4, <1>5, LoaderStep

LEMMA LoadReadThrowsLoad ==
  ASSUME OneLoader, Inv, LoadInv, NEW t \in Threads, LoadReadThrows(t)
  PROVE  LoadInv'
<1> DEFINE f == call[t].file
<1>1. t \in Loaders /\ call[t] \in Loads /\ call \in [Threads -> Calls] /\ f \in Files
  BY LoaderCalls DEF LoadReadThrows, At, Loading, Inv, Sound
<1>2. call'[t].pc = "next" /\ \A u \in Threads \ {t} : call'[u] = call[u]
  BY <1>1 DEF LoadReadThrows, NextFile, Become, Loads
<1>3. RecordInv'
  BY RecordsKept DEF LoadReadThrows, registry, files
<1>4. FailureRetried'
  <2>1. stamps[f] = 0
    BY <1>1 DEF LoadReadThrows, At, Reading, LoadInv, QuietInv
  <2>2. stamps' = stamps /\ \A g \in Files \ {f} : failed'[g] = failed[g]
    BY <1>1 DEF LoadReadThrows, Fails, Inv, TypeOK
  <2> QED
    BY <2>1, <2>2 DEF LoadInv, FailureRetried
<1> QED
  BY <1>1, <1>2, <1>3, <1>4, LoaderStep DEF Reading, AppliedSoFar

LEMMA LoadUnmarkedLoad ==
  ASSUME OneLoader, Inv, LoadInv, NEW t \in Threads, LoadUnmarked(t)
  PROVE  LoadInv'
<1> DEFINE f == call[t].file
<1>1. t \in Loaders /\ call[t] \in Loads /\ call \in [Threads -> Calls] /\ f \in Files
  <2>1. call[t] \in Loads /\ call[t].pc = "apply"
    BY CallKinds DEF Inv, LoadUnmarked, Applied, At
  <2>2. f \in Files
    BY <2>1 DEF LoadUnmarked, Loads
  <2> QED
    BY <2>1, <2>2, LoaderCalls DEF Loading
<1>2. call'[t].pc = "next" /\ \A u \in Threads \ {t} : call'[u] = call[u]
  BY <1>1 DEF LoadUnmarked, NextFile, Become, Loads
<1>3. RecordInv'
  BY RecordsKept DEF LoadUnmarked, registry, files
<1>4. FailureRetried'
  <2>1. stamps[f] = 0
    BY <1>1 DEF LoadUnmarked, Applied, At, Reading, LoadInv, QuietInv
  <2>2. stamps' = stamps /\ \A g \in Files \ {f} : failed'[g] = failed[g]
    BY <1>1 DEF LoadUnmarked, Fails, Inv, TypeOK
  <2> QED
    BY <2>1, <2>2 DEF LoadInv, FailureRetried
<1> QED
  BY <1>1, <1>2, <1>3, <1>4, LoaderStep DEF Reading, AppliedSoFar

\* The record is made of a version that has been applied to its end, or of a
\* file that has been replaced since.
LEMMA LoadMarkLoad ==
  ASSUME OneLoader, Inv, LoadInv, NEW t \in Threads, LoadMark(t)
  PROVE  LoadInv'
<1> DEFINE f == call[t].file
           c == call[t]
<1>1. /\ t \in Loaders /\ c \in Loads /\ call \in [Threads -> Calls] /\ f \in Files
      /\ c.pc = "apply" /\ c.nodes = <<>> /\ c.success
  <2>1. c \in Loads /\ c.pc = "apply" /\ c.nodes = <<>> /\ c.success
    BY CallKinds DEF Inv, LoadMark, Applied, At
  <2>2. f \in Files
    BY <2>1 DEF LoadMark, Loads
  <2> QED
    BY <2>1, <2>2, LoaderCalls DEF Loading
<1>2. call'[t].pc = "next" /\ \A u \in Threads \ {t} : call'[u] = call[u]
  BY <1>1 DEF LoadMark, NextFile, Become, Loads
<1>3. /\ stamps'[f] = c.writeTime /\ \A g \in Files \ {f} : stamps'[g] = stamps[g]
      /\ UNCHANGED <<datas, objects, missed, failed, disk>>
  BY <1>1 DEF LoadMark, TimeToRecord, Inv, TypeOK, registry, files
<1>4. FailureRetried'
  <2>1. failed[f] = "no"
    BY <1>1 DEF Reading, LoadInv, QuietInv
  <2> QED
    BY <1>3, <2>1 DEF LoadInv, FailureRetried
<1>5. ASSUME NEW g \in Files, NEW n \in NamesIn(disk[g].text), stamps'[g] = disk[g].time
      PROVE  Covered(g, n, stamps'[g])
  <2>1. CASE g # f
    BY <1>3, <1>5, <2>1 DEF LoadInv, RecordInv
  <2>2. CASE g = f
    <3>1. c.writeTime = disk[g].time /\ c.version = disk[g].time
      <4>1. c.writeTime = disk[g].time
        BY <1>3, <1>5, <2>2
      <4>2. c.version \in c.writeTime .. disk[g].time
        BY <1>1, <2>2 DEF Inv, Sound
      <4> QED
        BY <4>1, <4>2, FileTimes
    <3>2. Len(c.nodes) = 0
      BY <1>1
    <3>3. Behind(c, g) = Len(disk[g].text.nodes)
      BY <3>2, Contents DEF Behind
    <3>4. \A i \in 1 .. Len(disk[g].text.nodes) : Covered(g, disk[g].text.nodes[i].name, c.version)
      BY <1>1, <2>2, <3>1, <3>3 DEF LoadInv, ApplyInv, AppliedSoFar
    <3>5. PICK i \in 1 .. Len(disk[g].text.nodes) : n = disk[g].text.nodes[i].name
      BY Contents DEF NamesIn
    <3> QED
      BY <1>3, <2>2, <3>1, <3>4, <3>5
  <2> QED
    BY <2>1, <2>2
<1>6. RecordInv'
  BY <1>3, <1>5 DEF RecordInv, Covered
<1> QED
  BY <1>1, <1>2, <1>4, <1>6, LoaderStep DEF Reading, AppliedSoFar

\* A node of the file that is loaded.
LEMMA ApplyFileLoad ==
  ASSUME OneLoader, Inv, LoadInv, NEW t \in Threads, Apply(t), call[t].file # NoFile
  PROVE  LoadInv'
<1> DEFINE c == call[t]
           n == Head(c.nodes).name
           set == datas[n] # 0 /\ Converted(c)
<1>1. /\ c \in Loads /\ c.pc = "apply" /\ c.nodes # <<>>
      /\ n \in Names /\ Len(objects') = Len(objects)
      /\ \A j \in 1 .. Len(objects) : j # datas[n] => objects'[j] = objects[j]
      /\ IF set THEN objects'[datas[n]].value = Source(c) ELSE objects' = objects
  BY ApplyValue
<1>2. PICK f \in Files : f = c.file
  BY <1>1 DEF Loads
<1>3. t \in Loaders /\ call \in [Threads -> Calls]
  BY <1>1, <1>2, LoaderCalls DEF Loading
<1>4. /\ call'[t].pc = "apply" /\ call'[t].file = f /\ call'[t].version = c.version
      /\ call'[t].nodes = Tail(c.nodes)
      /\ call'[t].success <=> c.success /\ (datas[n] # 0 => set)
      /\ \A u \in Threads \ {t} : call'[u] = call[u]
  BY <1>1, <1>2, <1>3 DEF Apply, Become, Loads
<1>5. /\ UNCHANGED <<datas, stamps, failed, disk>>
      /\ \A g \in Files \ {f} : missed'[g] = missed[g]
      /\ missed[f] \subseteq missed'[f]
      /\ datas[n] = 0 => n \in missed'[f]
  BY <1>2 DEF Apply, Inv, TypeOK, files
<1>6. Source(c) = [by |-> "file", file |-> f, version |-> c.version]
  BY <1>2 DEF Source
<1>7. stamps[f] = 0 /\ failed[f] = "no"
  BY <1>1, <1>2 DEF Reading, LoadInv, QuietInv
<1>8. \A k \in Names : \/ objects'[datas[k]] = objects[datas[k]]
                       \/ datas[k] = 0
                       \/ datas[k] = datas[n] /\ set /\ objects'[datas[k]].value = Source(c)
  <2>1. \A k \in Names : datas[k] # 0 => datas[k] \in 1 .. Len(objects)
    BY Registered DEF Inv
  <2> QED
    BY <1>1, <2>1
<1>9. ASSUME NEW g \in Files, NEW k \in Names, NEW v, Covered(g, k, v), g = f => v = c.version
      PROVE  Covered(g, k, v)'
  <2>1. missed[g] \subseteq missed'[g] /\ datas'[k] = datas[k]
    BY <1>5
  <2>2. CASE datas[k] = 0 \/ objects'[datas[k]] = objects[datas[k]]
    BY <1>9, <2>1, <2>2 DEF Covered
  <2>3. CASE datas[k] # 0 /\ objects'[datas[k]].value = Source(c)
    BY <1>6, <1>9, <2>1, <2>3 DEF Covered
  <2> QED
    BY <1>8, <2>2, <2>3
<1>10. FailureRetried'
  BY <1>5 DEF LoadInv, FailureRetried
<1>11. RecordInv'
  <2>1. SUFFICES ASSUME NEW g \in Files, stamps[g] = disk[g].time, NEW k \in NamesIn(disk[g].text)
                 PROVE  Covered(g, k, stamps[g])'
    BY <1>5 DEF RecordInv
  <2>2. g # f
    BY <1>7, <2>1, FileTimes
  <2>3. k \in Names /\ Covered(g, k, stamps[g])
    BY <2>1, Contents DEF LoadInv, RecordInv
  <2>4. PICK v \in Nat : v = stamps[g] /\ v = stamps'[g]
    BY <1>5, FileTimes
  <2>5. Covered(g, k, v)'
    BY <1>9, <2>2, <2>3, <2>4
  <2> QED
    BY <2>4, <2>5
<1>12. \A g \in Files : Reading(call'[t], g) => stamps'[g] = 0 /\ failed'[g] = "no"
  BY <1>4, <1>5, <1>7 DEF Reading
<1>13. ASSUME NEW g \in Files
       PROVE  AppliedSoFar(call[t], g)'
  <2>1. SUFFICES ASSUME g = f, c.version = disk[f].time
                 PROVE  AppliedSoFar(call[t], g)'
    BY <1>4, <1>5 DEF AppliedSoFar
  <2> DEFINE s == disk[f].text.nodes
             b == Behind(c, f)
  <2>2. /\ InStep(c, f)
        /\ c.success => \A i \in 1 .. b : Covered(f, s[i].name, c.version)
    BY <1>1, <1>2, <2>1 DEF LoadInv, ApplyInv, AppliedSoFar
  <2>3. /\ Len(s) \in Nat /\ c.nodes \in Seq(Nodes) /\ Len(c.nodes) \in Nat /\ Len(c.nodes) >= 1
        /\ Len(Tail(c.nodes)) = Len(c.nodes) - 1
        /\ \A i \in 1 .. Len(c.nodes) - 1 : Tail(c.nodes)[i] = c.nodes[i + 1]
        /\ Head(c.nodes) = c.nodes[1]
    BY <1>1, Contents DEF Loads, Nodes
  <2>4. b \in Nat /\ b + 1 \in 1 .. Len(s) /\ s[b + 1].name = n
    <3>1. b = Len(s) - Len(c.nodes) /\ Len(c.nodes) <= Len(s)
      BY <2>2 DEF InStep, Behind
    <3>2. b \in Nat /\ b + 1 \in 1 .. Len(s)
      <4>1. Len(s) \in Nat /\ Len(c.nodes) \in Nat /\ Len(c.nodes) >= 1
        BY <2>3
      <4> HIDE DEF b, s, c
      <4> QED
        BY <3>1, <4>1
    <3>3. c.nodes[1] = s[b + 1]
      BY <2>2, <2>3 DEF InStep
    <3> QED
      BY <2>3, <3>2, <3>3
  <2>5. Behind(call[t], g)' = b + 1
    <3>1. Behind(call[t], g)' = Len(s) - Len(Tail(c.nodes))
      BY <1>4, <1>5, <2>1 DEF Behind
    <3>2. b = Len(s) - Len(c.nodes)
      BY DEF Behind
    <3>3. Len(s) \in Nat /\ Len(c.nodes) \in Nat /\ Len(Tail(c.nodes)) = Len(c.nodes) - 1
      BY <2>3
    <3>4. ASSUME NEW m \in Nat, NEW k \in Nat, NEW l, l = k - 1
          PROVE  m - l = (m - k) + 1
      BY <3>4
    <3>5. Len(s) - Len(Tail(c.nodes)) = b + 1
      BY <3>2, <3>3, <3>4
    <3> QED
      BY <3>1, <3>5, Zenon
  <2>6. InStep(call[t], g)'
    <3>1. Len(call'[t].nodes) <= Len(disk'[g].text.nodes)
      BY <1>4, <1>5, <2>1, <2>2, <2>3 DEF InStep
    <3>2. ASSUME NEW i \in 1 .. Len(c.nodes) - 1
          PROVE  Tail(c.nodes)[i] = s[b + 1 + i]
      <4>1. i + 1 \in 1 .. Len(c.nodes) /\ i \in Nat
        BY <2>3
      <4>2. c.nodes[i + 1] = s[b + (i + 1)]
        BY <2>2, <4>1 DEF InStep
      <4>3. b + (i + 1) = b + 1 + i
        BY <2>4, <4>1
      <4> QED
        BY <2>3, <4>2, <4>3
    <3> HIDE DEF b
    <3> QED
      BY <1>4, <1>5, <2>1, <2>3, <2>5, <3>1, <3>2 DEF InStep
  <2>7. ASSUME call'[t].success, NEW i \in 1 .. b + 1
        PROVE  \A v : v = c.version => Covered(f, s[i].name, v)'
    <3>1. PICK k \in Names : k = s[i].name /\ k = disk'[f].text.nodes[i].name
      BY <1>5, <2>4, Contents
    <3>2. PICK v : v = c.version
      OBVIOUS
    <3>3. CASE i \in 1 .. b
      BY <1>4, <1>9, <2>2, <2>7, <3>1, <3>2, <3>3
    <3>4. CASE i = b + 1
      <4>1. k = n /\ (datas[n] # 0 => set)
        BY <1>4, <2>4, <2>7, <3>1, <3>4
      <4>2. CASE datas[n] = 0
        BY <1>5, <3>1, <4>1, <4>2 DEF Covered
      <4>3. CASE datas[n] # 0
        <5>1. objects'[datas'[k]].value = [by |-> "file", file |-> f, version |-> c.version]
          BY <1>1, <1>5, <1>6, <4>1, <4>3
        <5> QED
          BY <1>5, <3>1, <4>1, <4>3, <5>1 DEF Covered
      <4> QED
        BY <4>2, <4>3
    <3> QED
      BY <2>4, <3>3, <3>4
  <2> QED
    BY <1>4, <1>5, <2>1, <2>5, <2>6, <2>7 DEF AppliedSoFar
<1> QED
  BY <1>3, <1>4, <1>10, <1>11, <1>12, <1>13, LoaderStep

-----------------------------------------------------------------------------
(* Changes of the files.                                                   *)

\* A new version is newer than what anybody has read or recorded.
LEMMA FileStepsLoad ==
  ASSUME Inv, LoadInv, FileSteps
  PROVE  LoadInv'
<1>1. /\ \A f \in Files : \/ disk'[f].time = disk[f].time /\ disk'[f].text = disk[f].text
                          \/ disk'[f].time = clock + 2
      /\ UNCHANGED <<registry, records, call>>
  BY FileChange
<1>2. UNCHANGED <<datas, objects, stamps, failed, missed, call>>
  BY <1>1 DEF registry, records
<1>3. LoaderInv' /\ QuietInv' /\ FailureRetried'
  BY <1>2 DEF LoadInv, LoaderInv, Loading, QuietInv, Reading, FailureRetried
<1>4. RecordInv'
  <2>1. SUFFICES ASSUME NEW f \in Files, stamps[f] = disk'[f].time, NEW n \in NamesIn(disk'[f].text)
                 PROVE  Covered(f, n, stamps[f])
    BY <1>2 DEF RecordInv, Covered
  <2>2. disk'[f].time = disk[f].time /\ disk'[f].text = disk[f].text
    BY <1>1, <2>1, FileTimes
  <2> QED
    BY <2>1, <2>2 DEF LoadInv, RecordInv
<1>5. ASSUME NEW t \in Threads, NEW f \in Files
      PROVE  AppliedSoFar(call[t], f)'
  <2>1. SUFFICES ASSUME call[t].pc = "apply", call[t].file = f, call[t].version = disk'[f].time
                 PROVE  AppliedSoFar(call[t], f)'
    BY <1>2 DEF AppliedSoFar
  <2>2. call[t].version \in call[t].writeTime .. disk[f].time /\ call[t].version \in Nat
    BY <2>1, CallKinds DEF Inv, Sound, Loads, Versions
  <2>3. disk'[f].time = disk[f].time /\ disk'[f].text = disk[f].text
    BY <1>1, <2>1, <2>2, FileTimes
  <2>4. /\ InStep(call[t], f)
        /\ call[t].success => \A i \in 1 .. Behind(call[t], f) :
              Covered(f, disk[f].text.nodes[i].name, call[t].version)
    BY <2>1, <2>3 DEF LoadInv, ApplyInv, AppliedSoFar
  <2>5. Behind(call[t], f)' = Behind(call[t], f) /\ InStep(call[t], f)'
    BY <1>2, <2>3, <2>4 DEF InStep, Behind
  <2>6. ASSUME NEW n, NEW v, Covered(f, n, v)
        PROVE  Covered(f, n, v)'
    BY <1>2, <2>6 DEF Covered
  <2>7. ASSUME call'[t].success, NEW i \in 1 .. Behind(call[t], f)
        PROVE  Covered(f, disk[f].text.nodes[i].name, call[t].version)'
    BY <1>2, <2>3, <2>4, <2>6, <2>7
  <2> QED
    BY <2>5, <2>7 DEF AppliedSoFar
<1> QED
  BY <1>3, <1>4, <1>5 DEF LoadInv, ApplyInv

-----------------------------------------------------------------------------
(* The invariant, and what holds of the records.                           *)

LEMMA InitLoad ==
  ASSUME Init
  PROVE  LoadInv
<1>1. \A t \in Threads : call[t].pc = "idle"
  BY DEF Init, Idle
<1>2. \A f \in Files : stamps[f] = 0 /\ disk[f].time = 1 /\ failed[f] = "no"
  BY DEF Init
<1> QED
  BY <1>1, <1>2 DEF LoadInv, LoaderInv, Loading, QuietInv, Reading, FailureRetried, ApplyInv,
                    AppliedSoFar, RecordInv

LEMMA NextLoad ==
  ASSUME OneLoader, Inv, LoadInv, Next
  PROVE  LoadInv'
<1>1. CASE FileSteps
  BY <1>1, FileStepsLoad
<1>2. ASSUME NEW t \in Threads, LookupSteps(t)
      PROVE  LoadInv'
  BY <1>2, LookupFindLoad, LookupEmplaceLoad, EndLoad DEF LookupSteps
<1>3. ASSUME NEW t \in Threads, LoadSteps(t)
      PROVE  LoadInv'
  BY <1>3, LoadStatLoad, LoadStatThrowsLoad, LoadCheckLoad, LoadEraseLoad, LoadReadLoad,
     LoadReadThrowsLoad, LoadMarkLoad, LoadUnmarkedLoad, EndLoad, ApplyFileLoad,
     ApplyOtherLoad DEF LoadSteps
<1>4. ASSUME NEW t \in Threads, Begin(t)
      PROVE  LoadInv'
  BY <1>4, LookupBeginLoad, YamlBeginLoad, LoadBeginLoad, VisitLoad, SetValueLoad DEF Begin
<1> QED
  BY <1>1, <1>2, <1>3, <1>4 DEF Next

LEMMA StutterLoad ==
  ASSUME LoadInv, UNCHANGED vars
  PROVE  LoadInv'
<1>1. LoaderInv' /\ QuietInv' /\ FailureRetried'
  BY DEF vars, LoadInv, LoaderInv, Loading, QuietInv, Reading, FailureRetried
<1>2. ASSUME NEW t \in Threads, NEW f \in Files
      PROVE  AppliedSoFar(call[t], f)'
  <2>1. UNCHANGED <<datas, objects, disk, call, missed>> /\ AppliedSoFar(call[t], f)
    BY DEF vars, LoadInv, ApplyInv
  <2>2. Behind(call[t], f)' = Behind(call[t], f) /\ (InStep(call[t], f) => InStep(call[t], f)')
    BY <2>1 DEF Behind, InStep
  <2>3. \A n, v : Covered(f, n, v)' <=> Covered(f, n, v)
    BY <2>1 DEF Covered
  <2> QED
    BY <2>1, <2>2, <2>3 DEF AppliedSoFar
<1>3. RecordInv'
  BY DEF vars, LoadInv, RecordInv, Covered
<1> QED
  BY <1>1, <1>2, <1>3 DEF LoadInv, ApplyInv

\* The invariant of the one load, its file and the records.
THEOREM LoadInvariance ==
  ASSUME OneLoader
  PROVE  Spec => []LoadInv
<1>1. Init => LoadInv
  BY InitLoad
<1>2. Inv /\ LoadInv /\ [Next]_vars => LoadInv'
  BY OneLoader, NextLoad, StutterLoad
<1> QED
  BY <1>1, <1>2, Invariance, PTL DEF Spec

\* After a load that failed to read or convert a file nothing is recorded for
\* it, so the next load tries it again.
THEOREM FailuresRetried ==
  ASSUME OneLoader
  PROVE  Spec => []FailureRetried
<1>1. LoadInv => FailureRetried
  BY DEF LoadInv
<1> QED
  BY <1>1, LoadInvariance, PTL

\* A record with the time of the file means that this version of the file was
\* applied, whenever the file is replaced.
THEOREM RecordsTrue ==
  ASSUME OneLoader
  PROVE  Spec => []RecordMeansApplied
<1>1. LoadInv => RecordMeansApplied
  BY DEF LoadInv, RecordInv, Covered, RecordMeansApplied
<1> QED
  BY <1>1, LoadInvariance, PTL

-----------------------------------------------------------------------------
(* A forced load during which no file changes.                             *)

Current(c) == IF c.pc \in {"check", "erase", "read", "apply"} THEN {c.file} ELSE {}

\* The files the load is through with.
Done(c) == {f \in Files : disk[f].there} \ (c.todo \cup Current(c))

From(n, f) == LET value == objects[datas[n]].value IN
              \/ value.by \in {"program", "yaml"}
              \/ value.by = "file" /\ value.file = f

\* One of the nodes applied so far fits n.
Taken(c, n) == /\ c.pc = "apply"
               /\ \E i \in 1 .. Behind(c, c.file) :
                     /\ disk[c.file].text.nodes[i].name = n
                     /\ objects[datas[n]].type \in disk[c.file].text.nodes[i].fits

\* The files are taken in their order, and all of them.
QueueInv(c) ==
    /\ c.pc # "check"
    /\ c.todo \cup Current(c) \subseteq {f \in Files : disk[f].there}
    /\ Current(c) \cap c.todo = {}
    /\ \A f \in Done(c) : \A g \in c.todo \cup Current(c) : Before(f, g)
    /\ \A f \in Current(c), g \in c.todo : Before(f, g)

\* A name that is not registered has been missed.
MetInv(c) ==
    /\ \A f \in Done(c) : disk[f].text.loads =>
          \A n \in NamesIn(disk[f].text) : datas[n] = 0 => n \in missed[f]
    /\ c.pc = "apply" =>
          /\ disk[c.file].text.loads /\ InStep(c, c.file)
          /\ \A i \in 1 .. Behind(c, c.file) :
                LET n == disk[c.file].text.nodes[i].name IN datas[n] = 0 => n \in missed[c.file]

LastOf(c, f, n) == Gives(f, n) /\ ~ \E g \in Done(c) : Before(f, g) /\ Gives(g, n)

\* What the last path so far gives.
WonInv(c, n) ==
    /\ (\A f \in Done(c) : n \notin missed[f]) /\ ~Taken(c, n) =>
          \A f \in Done(c) : LastOf(c, f, n) => From(n, f)
    /\ c.pc = "apply" /\ n \notin missed[c.file] /\ Taken(c, n) => From(n, c.file)

ForcedInv(c) ==
    /\ c.since <= clock
    /\ c.force /\ c.since = clock =>
          /\ QueueInv(c) /\ MetInv(c)
          /\ \A n \in Names : datas[n] # 0 => WonInv(c, n)

LoadsForced == \A t \in Threads : Loading(call[t]) => ForcedInv(call[t])

-----------------------------------------------------------------------------
(* Steps that are not the loader's.                                        *)

\* A variable is new, or has its value or another one from elsewhere.
Mild(n) == \/ datas[n] = 0 /\ datas'[n] # 0
           \/ /\ datas'[n] = datas[n]
              /\ datas[n] # 0 =>
                    /\ objects'[datas[n]].type = objects[datas[n]].type
                    /\ \/ objects'[datas[n]].value = objects[datas[n]].value
                       \/ objects'[datas[n]].value.by \in {"program", "yaml"}

LEMMA MildForced ==
  ASSUME Inv, NEW c \in Loads, c.file \in Files \/ c.pc # "apply", ForcedInv(c),
         \A n \in Names : Mild(n), UNCHANGED <<missed, disk, clock>>
  PROVE  ForcedInv(c)'
<1>1. c' = c
  OBVIOUS
<1>2. SUFFICES ASSUME c.force, c.since = clock
               PROVE  /\ QueueInv(c)' /\ MetInv(c)'
                      /\ \A n \in Names : datas'[n] # 0 => WonInv(c, n)'
  BY DEF ForcedInv
<1>3. QueueInv(c) /\ MetInv(c) /\ \A n \in Names : datas[n] # 0 => WonInv(c, n)
  BY <1>2 DEF ForcedInv
<1>4. Done(c)' = Done(c) /\ Behind(c, c.file)' = Behind(c, c.file)
  BY DEF Done, Behind
<1>5. QueueInv(c)'
  BY <1>3, <1>4 DEF QueueInv
<1>6. \A n \in Names : datas'[n] = 0 => datas[n] = 0
  BY DEF Mild
<1>7. c.pc = "apply" => \A i \in 1 .. Behind(c, c.file) : disk[c.file].text.nodes[i].name \in Names
  <2>1. SUFFICES ASSUME c.pc = "apply", NEW i \in 1 .. Behind(c, c.file)
                 PROVE  disk[c.file].text.nodes[i].name \in Names
    OBVIOUS
  <2>2. c.nodes \in Seq(Nodes) /\ c.file \in Files
    BY <2>1 DEF Loads, Nodes
  <2>3. Len(c.nodes) \in Nat /\ Len(disk[c.file].text.nodes) \in Nat
    BY <2>2, Contents
  <2>4. i \in 1 .. Len(disk[c.file].text.nodes)
    BY <2>3 DEF Behind
  <2> QED
    BY <2>2, <2>4, Contents
<1>8. MetInv(c)'
  <2>1. \A f \in Done(c) : NamesIn(disk[f].text) \subseteq Names
    BY Contents DEF Done
  <2>2. InStep(c, c.file) => InStep(c, c.file)'
    BY <1>4 DEF InStep
  <2>3. ASSUME NEW f \in Done(c), disk[f].text.loads, NEW n \in NamesIn(disk[f].text), datas'[n] = 0
        PROVE  n \in missed[f]
    BY <1>3, <1>6, <2>1, <2>3 DEF MetInv
  <2>4. ASSUME c.pc = "apply", NEW i \in 1 .. Behind(c, c.file),
               datas'[disk[c.file].text.nodes[i].name] = 0
        PROVE  disk[c.file].text.nodes[i].name \in missed[c.file]
    BY <1>3, <1>6, <1>7, <2>4 DEF MetInv
  <2>5. c.pc = "apply" => disk[c.file].text.loads /\ InStep(c, c.file)'
    BY <1>3, <2>2 DEF MetInv
  <2> QED
    BY <1>4, <2>3, <2>4, <2>5 DEF MetInv, NamesIn
<1>9. ASSUME NEW n \in Names, datas'[n] # 0
      PROVE  WonInv(c, n)'
  <2>1. CASE datas[n] = 0
    <3>1. ASSUME NEW f \in Done(c), n \notin missed[f]
          PROVE  ~Gives(f, n)'
      <4>1. ~(disk[f].text.loads /\ n \in NamesIn(disk[f].text))
        BY <1>3, <2>1, <3>1 DEF MetInv
      <4> QED
        BY <4>1 DEF Gives, NamesIn
    <3>2. c.pc = "apply" /\ n \notin missed[c.file] => ~Taken(c, n)'
      BY <1>3, <1>4, <2>1 DEF MetInv, Taken
    <3> QED
      BY <1>4, <3>1, <3>2 DEF WonInv, LastOf
  <2>2. CASE datas[n] # 0
    <3>1. datas'[n] = datas[n] /\ objects'[datas[n]].type = objects[datas[n]].type
      BY <2>2 DEF Mild
    <3>2. \A f : Gives(f, n)' <=> Gives(f, n)
      BY <3>1 DEF Gives
    <3>3. Taken(c, n)' <=> Taken(c, n)
      BY <1>4, <3>1 DEF Taken
    <3>4. \A f : From(n, f) => From(n, f)'
      <4>1. CASE objects'[datas[n]].value = objects[datas[n]].value
        BY <3>1, <4>1 DEF From
      <4>2. CASE objects'[datas[n]].value.by \in {"program", "yaml"}
        BY <3>1, <4>2 DEF From
      <4>3. Mild(n)
        OBVIOUS
      <4> QED
        BY <2>2, <4>1, <4>2, <4>3 DEF Mild
    <3>5. \A f : LastOf(c, f, n)' <=> LastOf(c, f, n)
      BY <1>4, <3>2 DEF LastOf
    <3> QED
      BY <1>3, <1>4, <2>2, <3>3, <3>4, <3>5 DEF WonInv
  <2> QED
    BY <2>1, <2>2
<1> QED
  BY <1>5, <1>8, <1>9

\* Such a step of a thread that does not load.
LEMMA OtherForced ==
  ASSUME Inv, LoadsForced, NEW t \in Threads,
         \A u \in Threads \ {t} : call'[u] = call[u], ~Loading(call'[t]),
         \A n \in Names : Mild(n), UNCHANGED <<missed, disk, clock>>
  PROVE  LoadsForced'
<1>1. SUFFICES ASSUME NEW u \in Threads, Loading(call'[u])
               PROVE  ForcedInv(call[u])'
  BY DEF LoadsForced, Loading
<1>2. call'[u] = call[u] /\ Loading(call[u])
  BY <1>1
<1>3. call[u] \in Loads /\ (call[u].file \in Files \/ call[u].pc # "apply") /\ ForcedInv(call[u])
  BY <1>2, CallKinds DEF Inv, LoadsForced, Loading
<1>4. PICK c : c = call[u] /\ c = call'[u]
  BY <1>2
<1>5. ForcedInv(c)'
  BY <1>3, <1>4, MildForced
<1> QED
  BY <1>4, <1>5

LEMMA NothingNew ==
  ASSUME UNCHANGED <<datas, objects>>
  PROVE  \A n \in Names : Mild(n)
BY DEF Mild

LEMMA LookupForced ==
  ASSUME Inv, LoadsForced, NEW t \in Threads,
         \/ \E n \in Names, type \in Types : LookupBegin(t, n, type)
         \/ LookupFind(t) \/ LookupEmplace(t)
  PROVE  LoadsForced'
<1>1. call \in [Threads -> Calls]
  BY DEF Inv, TypeOK, Calls
<1>2. ~Loading(call'[t]) /\ \A u \in Threads \ {t} : call'[u] = call[u]
  <2>1. CASE \E n \in Names, type \in Types : LookupBegin(t, n, type)
    BY <1>1, <2>1 DEF LookupBegin, Become, Loading
  <2>2. CASE LookupFind(t) \/ LookupEmplace(t)
    <3>1. call[t] \in Lookups
      BY <2>2, CallKinds DEF Inv, LookupFind, LookupEmplace, At
    <3> QED
      <4>1. PICK pc \in {"emplace", "type"} : \E object :
                     Become(t, [call[t] EXCEPT !.pc = pc, !.object = object])
        <5>1. CASE LookupFind(t)
          BY <5>1 DEF LookupFind
        <5>2. CASE LookupEmplace(t) /\ Stores(call[t].name)
          BY <5>2 DEF LookupEmplace
        <5>3. CASE LookupEmplace(t) /\ ~Stores(call[t].name)
          BY <5>3 DEF LookupEmplace
        <5> QED
          BY <2>2, <5>1, <5>2, <5>3
      <4>2. call'[t].pc = pc
        BY <1>1, <3>1, <4>1 DEF Become, Lookups
      <4> QED
        BY <1>1, <4>1, <4>2 DEF Become, Loading
  <2> QED
    BY <2>1, <2>2
<1>3. UNCHANGED <<missed, disk, clock>>
  BY DEF LookupBegin, LookupFind, LookupEmplace, records, files
<1>4. \A n \in Names : Mild(n)
  <2>1. CASE UNCHANGED <<datas, objects>>
    BY <2>1, NothingNew
  <2>2. CASE ~UNCHANGED <<datas, objects>>
    <3> DEFINE m == call[t].name
    <3>1. LookupEmplace(t) /\ Stores(m)
      BY <2>2 DEF LookupBegin, LookupFind, LookupEmplace, registry
    <3>2. /\ datas' = [datas EXCEPT ![m] = Len(objects) + 1] /\ datas[m] = 0
          /\ objects' = Append(objects, [type |-> call[t].type, value |-> [by |-> "default"]])
      BY <3>1 DEF LookupEmplace, Stores
    <3>3. /\ objects \in Seq(Objects) /\ datas \in [Names -> 0 .. Len(objects)] /\ Len(objects) \in Nat
          /\ \A n \in Names : datas[n] # 0 => datas[n] \in 1 .. Len(objects)
      BY Registered DEF Inv, TypeOK, Objects
    <3>4. \A i \in 1 .. Len(objects) : objects'[i] = objects[i]
      BY <3>2, <3>3
    <3>5. Len(objects) + 1 # 0
      BY <3>3
    <3> QED
      BY <3>2, <3>3, <3>4, <3>5 DEF Mild
  <2> QED
    BY <2>1, <2>2
<1> QED
  BY <1>2, <1>3, <1>4, OtherForced

LEMMA AsideForced ==
  ASSUME Inv, LoadsForced, NEW t \in Threads,
         \/ LookupFails(t) \/ LookupEnd(t) \/ YamlEnd(t) \/ LoadEnd(t) \/ Visit(t)
         \/ \E text \in Texts : YamlBegin(t, text)
  PROVE  LoadsForced'
<1>1. call \in [Threads -> Calls]
  BY DEF Inv, TypeOK, Calls
<1>2. ~Loading(call'[t]) /\ \A u \in Threads \ {t} : call'[u] = call[u]
  <2>1. CASE LookupFails(t) \/ LookupEnd(t) \/ YamlEnd(t) \/ LoadEnd(t) \/ Visit(t)
    BY <1>1, <2>1
       DEF LookupFails, LookupEnd, YamlEnd, LoadEnd, Visit, At, Become, Idle, Loading
  <2>2. ASSUME NEW text \in Texts, YamlBegin(t, text)
        PROVE  ~Loading(call'[t]) /\ \A u \in Threads \ {t} : call'[u] = call[u]
    <3>1. call'[t].pc = "apply" /\ call'[t].file = NoFile /\ \A u \in Threads \ {t} : call'[u] = call[u]
      BY <1>1, <2>2 DEF YamlBegin, Become
    <3> QED
      BY <3>1, ConfigAssumption DEF Loading
  <2> QED
    BY <2>1, <2>2
<1>3. UNCHANGED <<datas, objects, missed, disk, clock>>
  BY DEF LookupFails, LookupEnd, YamlEnd, LoadEnd, Visit, YamlBegin, registry, records, files
<1> QED
  BY <1>2, <1>3, NothingNew, OtherForced

LEMMA SetValueForced ==
  ASSUME Inv, LoadsForced, NEW t \in Threads, SetValue(t)
  PROVE  LoadsForced'
<1>1. ~Loading(call'[t]) /\ call' = call /\ UNCHANGED <<datas, missed, disk, clock>>
  BY DEF SetValue, At, Loading, records, files
<1>2. PICK a \in answers : objects' = [objects EXCEPT ![a.object].value = [by |-> "program"]]
  BY DEF SetValue
<1>3. a.object \in 1 .. Len(objects) /\ [by |-> "program"] \in Sources
  BY Registered DEF Inv, Sources
<1>4. /\ objects'[a.object].value = [by |-> "program"]
      /\ \A j \in 1 .. Len(objects) : j # a.object => objects'[j] = objects[j]
      /\ \A j \in 1 .. Len(objects) : objects'[j].type = objects[j].type
  BY <1>2, <1>3, ValueStep
<1>5. \A n \in Names : Mild(n)
  BY <1>1, <1>4, Registered DEF Inv, Mild
<1> QED
  BY <1>1, <1>5, OtherForced

LEMMA ApplyOtherForced ==
  ASSUME Inv, LoadsForced, NEW t \in Threads, Apply(t), call[t].file = NoFile
  PROVE  LoadsForced'
<1> DEFINE n == Head(call[t].nodes).name
<1>1. /\ call[t] \in Loads /\ call[t].pc = "apply"
      /\ \A j \in 1 .. Len(objects) : objects'[j].type = objects[j].type
      /\ \A j \in 1 .. Len(objects) : j # datas[n] => objects'[j] = objects[j]
      /\ IF datas[n] # 0 /\ Converted(call[t]) THEN objects'[datas[n]].value = Source(call[t])
         ELSE objects' = objects
  BY ApplyValue
<1>2. call \in [Threads -> Calls]
  BY DEF Inv, TypeOK, Calls
<1>3. call'[t].pc = "apply" /\ call'[t].file = NoFile /\ \A u \in Threads \ {t} : call'[u] = call[u]
  BY <1>1, <1>2 DEF Apply, Become, Loads
<1>4. ~Loading(call'[t])
  BY <1>3, ConfigAssumption DEF Loading
<1>5. UNCHANGED <<missed, datas, disk, clock>>
  BY ConfigAssumption DEF Apply, Inv, TypeOK, files
<1>6. Source(call[t]) = [by |-> "yaml"]
  BY DEF Source
<1>7. ASSUME NEW m \in Names
      PROVE  Mild(m)
  <2>1. datas[m] # 0 => datas[m] \in 1 .. Len(objects)
    BY Registered DEF Inv
  <2>2. CASE datas[m] = 0 \/ objects'[datas[m]] = objects[datas[m]]
    BY <1>5, <2>2 DEF Mild
  <2>3. CASE datas[m] # 0 /\ objects'[datas[m]] # objects[datas[m]]
    <3>1. objects'[datas[m]].value = [by |-> "yaml"]
      BY <1>1, <1>6, <2>1, <2>3
    <3> QED
      BY <1>1, <1>5, <2>1, <2>3, <3>1 DEF Mild
  <2> QED
    BY <2>2, <2>3
<1> QED
  BY <1>3, <1>4, <1>5, <1>7, OtherForced

LEMMA FileStepsForced ==
  ASSUME Inv, LoadsForced, FileSteps
  PROVE  LoadsForced'
<1>1. clock' = clock + 1 /\ call' = call /\ clock \in Nat
  BY FileChange DEF Inv, TypeOK
<1>2. SUFFICES ASSUME NEW u \in Threads, Loading(call[u])
               PROVE  call'[u].since <= clock' /\ call'[u].since # clock'
  BY <1>1 DEF LoadsForced, ForcedInv
<1>3. call[u].since \in Nat /\ call[u].since <= clock
  BY <1>2, CallKinds DEF Inv, Loading, Loads, Versions, LoadsForced, ForcedInv
<1> QED
  BY <1>1, <1>3

-----------------------------------------------------------------------------
(* Steps of the loader in a forced load.                                   *)

LEMMA PathOrder ==
  ASSUME NEW f \in Files, NEW g \in Files
  PROVE  /\ f # g => Before(f, g) \/ Before(g, f)
         /\ Before(f, g) => f # g /\ ~Before(g, f)
<1>1. Paths \in Seq(Files) /\ \A i, j \in DOMAIN Paths : Paths[i] = Paths[j] => i = j
  BY ConfigAssumption DEF IsInjective
<1>2. DOMAIN Paths = 1 .. Len(Paths) /\ Len(Paths) \in Nat
  BY <1>1
<1>3. PICK i \in DOMAIN Paths : Paths[i] = f
  BY DEF Files, ToSet
<1>4. PICK j \in DOMAIN Paths : Paths[j] = g
  BY DEF Files, ToSet
<1>5. f # g => Before(f, g) \/ Before(g, f)
  BY <1>2, <1>3, <1>4 DEF Before
<1>6. Before(f, g) => i < j
  BY <1>1, <1>3, <1>4 DEF Before
<1>7. Before(g, f) => j < i
  BY <1>1, <1>3, <1>4 DEF Before
<1> QED
  BY <1>1, <1>2, <1>3, <1>4, <1>5, <1>6, <1>7

LEMMA LoaderForced ==
  ASSUME OneLoader, Inv, LoadInv, LoadsForced, NEW t \in Loaders,
         \A u \in Threads \ {t} : call'[u] = call[u],
         NEW d, d = call'[t], Loading(d) => ForcedInv(d)'
  PROVE  LoadsForced'
<1>1. \A u \in Threads : Loading(call'[u]) => u = t
  BY ConfigAssumption DEF OneLoader, LoadInv, LoaderInv
<1>2. SUFFICES ASSUME NEW u \in Threads, Loading(call[u])'
               PROVE  ForcedInv(call[u])'
  BY DEF LoadsForced
<1>3. u = t /\ Loading(d)
  BY <1>1, <1>2 DEF Loading
<1> QED
  BY <1>3

LEMMA LoadBeginForced ==
  ASSUME OneLoader, Inv, LoadInv, LoadsForced, NEW t \in Threads, NEW force \in BOOLEAN,
         LoadBegin(t, force)
  PROVE  LoadsForced'
<1>1. t \in Loaders /\ call \in [Threads -> Calls] /\ clock \in Nat
  BY DEF LoadBegin, Inv, TypeOK, Calls
<1>2. PICK d : d = call'[t]
  OBVIOUS
<1>3. /\ d.pc = "next" /\ d.since = clock /\ d.todo = {f \in Files : disk[f].there}
      /\ \A u \in Threads \ {t} : call'[u] = call[u]
  BY <1>1, <1>2 DEF LoadBegin, Become
<1>4. disk' = disk /\ clock' = clock
  BY DEF LoadBegin, files
<1>5. Done(d)' = {} /\ Current(d) = {}
  BY <1>3, <1>4 DEF Done, Current
<1>6. ForcedInv(d)'
  BY <1>1, <1>3, <1>4, <1>5 DEF ForcedInv, QueueInv, MetInv, WonInv, Taken
<1> QED
  BY <1>1, <1>2, <1>3, <1>6, LoaderForced

\* The load goes on to another step of a file; none of its nodes is applied.
LEMMA GoesOnForced ==
  ASSUME NEW c \in Loads, NEW d \in Loads, ForcedInv(c), c.pc # "apply",
         d.force = c.force, d.since = c.since,
         UNCHANGED <<datas, objects, disk, clock>>,
         Done(d) = Done(c), \A g \in Done(c) : missed'[g] = missed[g],
         QueueInv(c) /\ c.force => QueueInv(d),
         d.pc = "apply" => /\ disk[d.file].text.loads /\ InStep(d, d.file)
                           /\ Behind(d, d.file) = 0
  PROVE  ForcedInv(d)'
<1>1. SUFFICES ASSUME c.force, c.since = clock
               PROVE  /\ QueueInv(d)' /\ MetInv(d)'
                      /\ \A n \in Names : datas[n] # 0 => WonInv(d, n)'
  BY DEF ForcedInv
<1>2. QueueInv(c) /\ MetInv(c) /\ \A n \in Names : datas[n] # 0 => WonInv(c, n)
  BY <1>1 DEF ForcedInv
<1>3. Done(d)' = Done(c) /\ Behind(d, d.file)' = Behind(d, d.file)
  BY DEF Done, Behind
<1>4. QueueInv(d)'
  BY <1>1, <1>2, <1>3 DEF QueueInv
<1>5. d.pc = "apply" => 1 .. Behind(d, d.file) = {}
  OBVIOUS
<1>6. MetInv(d)'
  <2>1. d.pc = "apply" => InStep(d, d.file)'
    BY <1>3 DEF InStep
  <2> QED
    BY <1>2, <1>3, <1>5, <2>1 DEF MetInv, NamesIn
<1>7. ASSUME NEW n \in Names, datas[n] # 0
      PROVE  WonInv(d, n)'
  <2>1. ~Taken(d, n)' /\ ~Taken(c, n)
    BY <1>3, <1>5 DEF Taken
  <2>2. \A f : (LastOf(d, f, n)' <=> LastOf(c, f, n)) /\ (From(n, f)' <=> From(n, f))
    BY <1>3 DEF LastOf, Gives, From
  <2> QED
    BY <1>2, <1>3, <1>7, <2>1, <2>2 DEF WonInv
<1> QED
  BY <1>4, <1>6, <1>7

LEMMA LoadStatForced ==
  ASSUME OneLoader, Inv, LoadInv, LoadsForced, NEW t \in Threads, LoadStat(t)
  PROVE  LoadsForced'
<1> DEFINE c == call[t]
<1>1. /\ t \in Loaders /\ c \in Loads /\ call \in [Threads -> Calls]
      /\ c.pc = "next" /\ ForcedInv(c)
  BY LoaderCalls DEF LoadStat, At, Loading, LoadsForced
<1>2. PICK f \in Files : /\ IsNext(t, f) /\ disk[f].there
                         /\ Become(t, [c EXCEPT !.pc = IF c.force THEN "erase" ELSE "check",
                                                !.todo = @ \ {f}, !.file = f,
                                                !.writeTime = disk[f].time])
  BY DEF LoadStat
<1>3. PICK d : d = [c EXCEPT !.pc = IF c.force THEN "erase" ELSE "check",
                             !.todo = @ \ {f}, !.file = f, !.writeTime = disk[f].time]
  OBVIOUS
<1>4. disk[f].time \in Versions
  BY DEF Inv, TypeOK
<1>5. /\ d \in Loads /\ d.force = c.force /\ d.since = c.since /\ d.todo = c.todo \ {f}
      /\ d.file = f /\ d.pc = IF c.force THEN "erase" ELSE "check"
  BY <1>1, <1>3, <1>4 DEF Loads
<1>6. call'[t] = d /\ \A u \in Threads \ {t} : call'[u] = call[u]
  BY <1>1, <1>2, <1>3 DEF Become
<1>7. f \in c.todo /\ c.todo \subseteq Files /\ Current(c) = {} /\ Current(d) = {f}
  BY <1>1, <1>2, <1>5 DEF IsNext, Loads, Current
<1>8. Done(d) = Done(c)
  BY <1>5, <1>7 DEF Done
<1>9. ASSUME QueueInv(c), c.force
      PROVE  QueueInv(d)
  <2>1. \A g \in d.todo : Before(f, g)
    BY <1>2, <1>5, <1>7, PathOrder DEF IsNext
  <2> QED
    BY <1>5, <1>7, <1>8, <1>9, <2>1 DEF QueueInv
<1>10. UNCHANGED <<datas, objects, disk, clock, missed>>
  BY DEF LoadStat, registry, records, files
<1>11. ForcedInv(d)'
  BY <1>1, <1>5, <1>8, <1>9, <1>10, GoesOnForced
<1> QED
  BY <1>1, <1>6, <1>11, LoaderForced

\* With force and no change of the files, no file is found missing.
LEMMA LoadStatThrowsForced ==
  ASSUME OneLoader, Inv, LoadInv, LoadsForced, NEW t \in Threads, LoadStatThrows(t)
  PROVE  LoadsForced'
<1> DEFINE c == call[t]
<1>1. /\ t \in Loaders /\ c \in Loads /\ call \in [Threads -> Calls]
      /\ c.pc = "next" /\ ForcedInv(c)
  BY LoaderCalls DEF LoadStatThrows, At, Loading, LoadsForced
<1>2. PICK f \in Files : IsNext(t, f) /\ ~disk[f].there /\ Become(t, [c EXCEPT !.todo = @ \ {f}])
  BY DEF LoadStatThrows
<1>3. PICK d : d = [c EXCEPT !.todo = @ \ {f}]
  OBVIOUS
<1>4. /\ call'[t] = d /\ d.force = c.force /\ d.since = c.since
      /\ \A u \in Threads \ {t} : call'[u] = call[u]
  BY <1>1, <1>2, <1>3 DEF Become, Loads
<1>5. clock' = clock
  BY DEF LoadStatThrows, files
<1>6. ~(c.force /\ c.since = clock)
  BY <1>1, <1>2 DEF ForcedInv, QueueInv, IsNext
<1>7. ForcedInv(d)'
  BY <1>1, <1>4, <1>5, <1>6 DEF ForcedInv
<1> QED
  BY <1>1, <1>4, <1>7, LoaderForced

LEMMA LoadCheckForced ==
  ASSUME OneLoader, Inv, LoadInv, LoadsForced, NEW t \in Threads, LoadCheck(t)
  PROVE  LoadsForced'
<1> DEFINE c == call[t]
<1>1. /\ t \in Loaders /\ c \in Loads /\ call \in [Threads -> Calls]
      /\ c.pc = "check" /\ ForcedInv(c)
  BY LoaderCalls DEF LoadCheck, At, Loading, LoadsForced
<1>2. PICK d : d = call'[t]
  OBVIOUS
<1>3. d.force = c.force /\ d.since = c.since /\ \A u \in Threads \ {t} : call'[u] = call[u]
  BY <1>1, <1>2 DEF LoadCheck, NextFile, Become, Loads
<1>4. clock' = clock
  BY DEF LoadCheck, files
<1>5. ~(c.force /\ c.since = clock)
  BY <1>1 DEF ForcedInv, QueueInv
<1>6. ForcedInv(d)'
  BY <1>1, <1>3, <1>4, <1>5 DEF ForcedInv
<1> QED
  BY <1>1, <1>2, <1>3, <1>6, LoaderForced

LEMMA LoadEraseForced ==
  ASSUME OneLoader, Inv, LoadInv, LoadsForced, NEW t \in Threads, LoadErase(t)
  PROVE  LoadsForced'
<1> DEFINE c == call[t]
<1>1. /\ t \in Loaders /\ c \in Loads /\ call \in [Threads -> Calls] /\ c.file \in Files
      /\ c.pc = "erase" /\ ForcedInv(c)
  BY LoaderCalls DEF LoadErase, At, Loading, LoadsForced, Inv, Sound
<1>2. PICK d : d = [c EXCEPT !.pc = "read"]
  OBVIOUS
<1>3. /\ d \in Loads /\ d.force = c.force /\ d.since = c.since /\ d.todo = c.todo
      /\ d.file = c.file /\ d.pc = "read"
  BY <1>1, <1>2 DEF Loads
<1>4. call'[t] = d /\ \A u \in Threads \ {t} : call'[u] = call[u]
  BY <1>1, <1>2 DEF LoadErase, Become
<1>5. Current(c) = {c.file} /\ Current(d) = {c.file} /\ Done(d) = Done(c)
  BY <1>1, <1>3 DEF Current, Done
<1>6. QueueInv(c) => QueueInv(d)
  BY <1>3, <1>5 DEF QueueInv
<1>7. \A g \in Done(c) : missed'[g] = missed[g]
  BY <1>5 DEF LoadErase, Done, Inv, TypeOK
<1>8. UNCHANGED <<datas, objects, disk, clock>>
  BY DEF LoadErase, registry, files
<1>9. ForcedInv(d)'
  BY <1>1, <1>3, <1>5, <1>6, <1>7, <1>8, GoesOnForced
<1> QED
  BY <1>1, <1>4, <1>9, LoaderForced

LEMMA LoadReadForced ==
  ASSUME OneLoader, Inv, LoadInv, LoadsForced, NEW t \in Threads, LoadRead(t)
  PROVE  LoadsForced'
<1> DEFINE c == call[t]
           f == c.file
<1>1. /\ t \in Loaders /\ c \in Loads /\ call \in [Threads -> Calls] /\ f \in Files
      /\ c.pc = "read" /\ ForcedInv(c) /\ Readable(f)
  BY LoaderCalls DEF LoadRead, At, Loading, LoadsForced, Inv, Sound
<1>2. PICK d : d = [c EXCEPT !.pc = "apply", !.version = disk[f].time,
                             !.nodes = disk[f].text.nodes, !.success = disk[f].text.clean]
  OBVIOUS
<1>3. /\ disk[f].time \in Versions /\ disk[f].text.nodes \in Seq(Nodes)
      /\ disk[f].text.clean \in BOOLEAN
  BY <1>1, Contents, TextsAssumption DEF Inv, TypeOK
<1>4. /\ d \in Loads /\ d.force = c.force /\ d.since = c.since /\ d.todo = c.todo
      /\ d.file = f /\ d.pc = "apply" /\ d.nodes = disk[f].text.nodes
  BY <1>1, <1>2, <1>3 DEF Loads, Nodes
<1>5. call'[t] = d /\ \A u \in Threads \ {t} : call'[u] = call[u]
  BY <1>1, <1>2 DEF LoadRead, Become
<1>6. Current(c) = {f} /\ Current(d) = {f} /\ Done(d) = Done(c)
  BY <1>1, <1>4 DEF Current, Done
<1>7. QueueInv(c) => QueueInv(d)
  BY <1>4, <1>6 DEF QueueInv
<1>8. UNCHANGED <<datas, objects, disk, clock, missed>>
  BY DEF LoadRead, registry, records, files
<1>9. Behind(d, f) = 0 /\ InStep(d, f) /\ disk[f].text.loads
  <2>1. Len(disk[f].text.nodes) \in Nat
    BY <1>1, Contents
  <2> HIDE DEF f
  <2>2. Behind(d, f) = 0
    BY <1>4, <2>1 DEF Behind
  <2> QED
    BY <1>1, <1>4, <2>1, <2>2 DEF InStep, Readable
<1>10. ForcedInv(d)'
  BY <1>1, <1>4, <1>6, <1>7, <1>8, <1>9, GoesOnForced
<1> QED
  BY <1>1, <1>5, <1>10, LoaderForced

\* The load is through with a file that was applied to its end, or unreadable.
LEMMA FinishForced ==
  ASSUME Inv, NEW c \in Loads, NEW d \in Loads, ForcedInv(c), c.file \in Files,
         d = [c EXCEPT !.pc = "next"],
         UNCHANGED <<datas, objects, disk, clock, missed>>,
         \/ c.pc = "apply" /\ c.nodes = <<>>
         \/ c.pc = "read" /\ ~Readable(c.file)
  PROVE  ForcedInv(d)'
<1> DEFINE h == c.file
<1>1. /\ d.force = c.force /\ d.since = c.since /\ d.pc = "next" /\ d.todo = c.todo
  BY DEF Loads
<1>2. SUFFICES ASSUME c.force, c.since = clock
               PROVE  /\ QueueInv(d)' /\ MetInv(d)'
                      /\ \A n \in Names : datas[n] # 0 => WonInv(d, n)'
  BY <1>1 DEF ForcedInv
<1>3. QueueInv(c) /\ MetInv(c) /\ \A n \in Names : datas[n] # 0 => WonInv(c, n)
  BY <1>2 DEF ForcedInv
<1>4. Current(c) = {h} /\ Current(d) = {} /\ disk[h].there /\ h \notin c.todo
  BY <1>1, <1>3 DEF Current, QueueInv
<1>5. Done(d)' = Done(c) \cup {h} /\ h \notin Done(c)
  BY <1>1, <1>4 DEF Done
<1>6. QueueInv(d)'
  BY <1>1, <1>3, <1>4, <1>5 DEF QueueInv
<1>7. c.pc = "apply" => 1 .. Behind(c, h) = DOMAIN disk[h].text.nodes
  <2>1. c.nodes = <<>> => Len(c.nodes) = 0
    OBVIOUS
  <2>2. Len(disk[h].text.nodes) \in Nat /\ DOMAIN disk[h].text.nodes = 1 .. Len(disk[h].text.nodes)
    BY Contents
  <2> HIDE DEF h
  <2>3. SUFFICES ASSUME c.nodes = <<>>
                 PROVE  Behind(c, h) = Len(disk[h].text.nodes)
    BY <2>2
  <2> QED
    BY <2>1, <2>2, <2>3 DEF Behind
<1>8. MetInv(d)'
  <2>1. ASSUME disk[h].text.loads, NEW n \in NamesIn(disk[h].text), datas[n] = 0
        PROVE  n \in missed[h]
    <3>1. c.pc = "apply"
      BY <1>4, <2>1 DEF Readable
    <3>2. PICK i \in DOMAIN disk[h].text.nodes : n = disk[h].text.nodes[i].name
      BY DEF NamesIn
    <3> QED
      BY <1>3, <1>7, <2>1, <3>1, <3>2 DEF MetInv
  <2>2. \A f \in Done(c) : disk[f].text.loads =>
           \A n \in NamesIn(disk[f].text) : datas[n] = 0 => n \in missed[f]
    BY <1>3 DEF MetInv
  <2> QED
    BY <1>1, <1>5, <2>1, <2>2 DEF MetInv, NamesIn
<1>9. ASSUME NEW n \in Names, datas[n] # 0
      PROVE  WonInv(d, n)'
  <2>1. Gives(h, n) <=> Taken(c, n)
    <3>1. CASE c.pc = "read"
      BY <1>4, <3>1 DEF Gives, Taken, Readable
    <3>2. CASE c.pc = "apply"
      BY <1>3, <1>4, <1>7, <3>2 DEF Gives, Taken, MetInv
    <3> QED
      BY <3>1, <3>2
  <2>2. SUFFICES ASSUME \A f \in Done(c) \cup {h} : n \notin missed[f],
                        NEW f \in Done(c) \cup {h}, Gives(f, n),
                        ~ \E g \in Done(c) \cup {h} : Before(f, g) /\ Gives(g, n)
                 PROVE  From(n, f)
    BY <1>1, <1>5 DEF WonInv, LastOf, Gives, From
  <2>3. CASE f = h
    <3>1. Taken(c, n) /\ c.pc = "apply"
      BY <2>1, <2>2, <2>3 DEF Taken
    <3> QED
      BY <1>3, <1>9, <2>2, <2>3, <3>1 DEF WonInv
  <2>4. CASE f # h
    <3>1. f \in Done(c) /\ Before(f, h)
      BY <1>3, <1>4, <2>2, <2>4 DEF QueueInv
    <3>2. ~Taken(c, n) /\ LastOf(c, f, n)
      BY <2>1, <2>2, <3>1 DEF LastOf
    <3> QED
      BY <1>3, <1>9, <2>2, <3>1, <3>2 DEF WonInv
  <2> QED
    BY <2>3, <2>4
<1> QED
  BY <1>6, <1>8, <1>9

LEMMA FinishesForced ==
  ASSUME OneLoader, Inv, LoadInv, LoadsForced, NEW t \in Threads,
         LoadReadThrows(t) \/ LoadMark(t) \/ LoadUnmarked(t)
  PROVE  LoadsForced'
<1> DEFINE c == call[t]
<1>1. /\ c \in Loads /\ c.file \in Files /\ Loading(c)
      /\ \/ c.pc = "apply" /\ c.nodes = <<>>
         \/ c.pc = "read" /\ ~Readable(c.file)
  <2>1. CASE LoadReadThrows(t)
    BY <2>1, CallKinds DEF LoadReadThrows, At, Loading, Inv, Sound
  <2>2. CASE LoadMark(t) \/ LoadUnmarked(t)
    <3>1. c.pc = "apply" /\ c.nodes = <<>> /\ c.file # NoFile
      BY <2>2 DEF LoadMark, LoadUnmarked, Applied, At
    <3>2. c \in Loads /\ c.file \in Files
      BY <3>1, CallKinds DEF Inv, Loads
    <3> QED
      BY <3>1, <3>2 DEF Loading
  <2> QED
    BY <2>1, <2>2
<1>2. t \in Loaders /\ call \in [Threads -> Calls] /\ ForcedInv(c)
  BY <1>1, LoaderCalls DEF LoadsForced
<1>3. PICK d : d = [c EXCEPT !.pc = "next"]
  OBVIOUS
<1>4. d \in Loads
  BY <1>1, <1>3 DEF Loads
<1>5. call'[t] = d /\ \A u \in Threads \ {t} : call'[u] = call[u]
  BY <1>2, <1>3 DEF LoadReadThrows, LoadMark, LoadUnmarked, NextFile, Become
<1>6. UNCHANGED <<datas, objects, disk, clock, missed>>
  BY DEF LoadReadThrows, LoadMark, LoadUnmarked, registry, files
<1>7. ForcedInv(d)'
  BY <1>1, <1>2, <1>3, <1>4, <1>6, FinishForced
<1> QED
  BY <1>2, <1>5, <1>7, LoaderForced

\* A node is applied: it now has the last word on its name, if it fits.
LEMMA ApplyFileForced ==
  ASSUME OneLoader, Inv, LoadInv, LoadsForced, NEW t \in Threads, Apply(t), call[t].file # NoFile
  PROVE  LoadsForced'
<1> DEFINE c == call[t]
           n == Head(c.nodes).name
           set == datas[n] # 0 /\ Converted(c)
<1>1. /\ c \in Loads /\ c.pc = "apply" /\ c.nodes # <<>>
      /\ n \in Names
      /\ \A j \in 1 .. Len(objects) : objects'[j].type = objects[j].type
      /\ \A j \in 1 .. Len(objects) : j # datas[n] => objects'[j] = objects[j]
      /\ IF set THEN objects'[datas[n]].value = Source(c) ELSE objects' = objects
  BY ApplyValue
<1>2. PICK h \in Files : h = c.file
  BY <1>1 DEF Loads
<1>3. t \in Loaders /\ call \in [Threads -> Calls] /\ ForcedInv(c)
  BY <1>1, <1>2, LoaderCalls DEF Loading, LoadsForced
<1>4. PICK d : d = call'[t]
  OBVIOUS
<1>5. /\ d.pc = "apply" /\ d.file = h /\ d.nodes = Tail(c.nodes)
      /\ d.force = c.force /\ d.since = c.since /\ d.todo = c.todo
      /\ \A u \in Threads \ {t} : call'[u] = call[u]
  BY <1>1, <1>2, <1>3, <1>4 DEF Apply, Become, Loads
<1>6. /\ UNCHANGED <<datas, disk, clock>>
      /\ \A g \in Files \ {h} : missed'[g] = missed[g]
      /\ missed[h] \subseteq missed'[h]
      /\ datas[n] = 0 => n \in missed'[h]
  BY <1>2 DEF Apply, Inv, TypeOK, files
<1>7. SUFFICES ASSUME c.force, c.since = clock
               PROVE  /\ QueueInv(d)' /\ MetInv(d)'
                      /\ \A m \in Names : datas[m] # 0 => WonInv(d, m)'
  BY <1>3, <1>4, <1>5, <1>6, LoaderForced DEF ForcedInv
<1>8. QueueInv(c) /\ MetInv(c) /\ \A m \in Names : datas[m] # 0 => WonInv(c, m)
  BY <1>3, <1>7 DEF ForcedInv
<1>9. Current(c) = {h} /\ Current(d) = {h} /\ Done(d)' = Done(c) /\ h \notin Done(c)
  BY <1>1, <1>2, <1>5, <1>6 DEF Current, Done
<1>10. QueueInv(d)'
  BY <1>1, <1>2, <1>5, <1>6, <1>8, <1>9 DEF QueueInv
<1>11. PICK s : s = disk[h].text.nodes /\ s = disk'[h].text.nodes
  BY <1>6
<1>12. PICK b : b = Behind(c, h)
  OBVIOUS
<1>13. /\ Len(s) \in Nat /\ Len(c.nodes) \in Nat /\ Len(c.nodes) >= 1
       /\ Len(Tail(c.nodes)) = Len(c.nodes) - 1
  BY <1>1, <1>11, Contents DEF Loads, Nodes
<1>14. /\ b = Len(s) - Len(c.nodes) /\ Len(c.nodes) <= Len(s)
       /\ \A i \in 1 .. Len(c.nodes) : c.nodes[i] = s[b + i]
  BY <1>1, <1>2, <1>8, <1>11, <1>12 DEF MetInv, InStep, Behind
<1>15. b \in Nat /\ b + 1 \in 1 .. Len(s) /\ Len(s) - Len(Tail(c.nodes)) = b + 1
  <2>1. ASSUME NEW m \in Nat, NEW k \in Nat, NEW l, NEW e,
               k >= 1, k <= m, l = k - 1, e = m - k
        PROVE  e \in Nat /\ e + 1 \in 1 .. m /\ m - l = e + 1
    BY <2>1
  <2>2. PICK k : k = Len(c.nodes)
    OBVIOUS
  <2>3. PICK l : l = Len(Tail(c.nodes))
    OBVIOUS
  <2>4. k \in Nat /\ k >= 1 /\ l = k - 1
    BY <1>13, <2>2, <2>3
  <2>5. k <= Len(s) /\ b = Len(s) - k
    BY <1>14, <2>2
  <2>6. b \in Nat /\ b + 1 \in 1 .. Len(s) /\ Len(s) - l = b + 1
    BY <1>13, <2>1, <2>4, <2>5
  <2> QED
    BY <2>3, <2>6
<1>16. Behind(d, h)' = b + 1
  BY <1>5, <1>11, <1>15 DEF Behind
<1>17. Head(c.nodes) = s[b + 1] /\ s[b + 1].name = n
  <2>1. Head(c.nodes) = c.nodes[1]
    BY <1>1 DEF Loads
  <2>2. 1 \in 1 .. Len(c.nodes)
    BY <1>13
  <2>3. c.nodes[1] = s[b + 1]
    BY <1>14, <2>2
  <2> QED
    BY <2>1, <2>3
<1>18. MetInv(d)'
  <2>1. InStep(d, h)'
    <3>1. ASSUME NEW i \in 1 .. Len(c.nodes) - 1
          PROVE  Tail(c.nodes)[i] = s[b + 1 + i]
      <4>1. i + 1 \in 1 .. Len(c.nodes) /\ b + (i + 1) = b + 1 + i
        BY <1>13, <1>15
      <4>2. Tail(c.nodes)[i] = c.nodes[i + 1]
        BY <1>1 DEF Loads
      <4> QED
        BY <1>14, <4>1, <4>2
    <3>2. Len(Tail(c.nodes)) <= Len(s)
      BY <1>13, <1>14
    <3> QED
      BY <1>5, <1>11, <1>13, <1>16, <3>1, <3>2 DEF InStep
  <2>2. ASSUME NEW i \in 1 .. b + 1, datas[s[i].name] = 0
        PROVE  s[i].name \in missed'[h]
    <3>1. CASE i \in 1 .. b
      <4>1. \A k \in 1 .. Behind(c, c.file) :
               LET m == disk[c.file].text.nodes[k].name
               IN  datas[m] = 0 => m \in missed[c.file]
        BY <1>1, <1>2, <1>8 DEF MetInv
      <4>2. \A k \in 1 .. b : datas[s[k].name] = 0 => s[k].name \in missed[h]
        BY <1>2, <1>11, <1>12, <4>1
      <4>3. s[i].name \in missed[h]
        BY <2>2, <3>1, <4>2
      <4>4. missed[h] \subseteq missed'[h]
        BY <1>6
      <4> QED
        BY <4>3, <4>4
    <3>2. CASE i = b + 1
      BY <1>6, <1>17, <2>2, <3>2
    <3>3. ASSUME NEW e \in Nat, NEW k \in 1 .. e + 1
          PROVE  k \in 1 .. e \/ k = e + 1
      OBVIOUS
    <3>4. b \in Nat /\ i \in 1 .. b + 1
      BY <1>15, <2>2
    <3>5. i \in 1 .. b \/ i = b + 1
      BY <3>3, <3>4
    <3> QED
      BY <3>1, <3>2, <3>5
  <2>3. \A f \in Done(c) : disk[f].text.loads =>
           \A m \in NamesIn(disk[f].text) : datas[m] = 0 => m \in missed[f]
    BY <1>8 DEF MetInv
  <2>4. \A f \in Done(c) : missed'[f] = missed[f]
    BY <1>6, <1>9 DEF Done
  <2>5. disk[h].text.loads
    BY <1>1, <1>2, <1>8 DEF MetInv
  <2> QED
    BY <1>5, <1>6, <1>9, <1>11, <1>16, <2>1, <2>2, <2>3, <2>4, <2>5 DEF MetInv, NamesIn
<1>19. ASSUME NEW m \in Names, datas[m] # 0
       PROVE  WonInv(d, m)'
  <2>1. datas[m] \in 1 .. Len(objects) /\ datas'[m] = datas[m]
    BY <1>6, <1>19, Registered DEF Inv
  <2>2. objects'[datas[m]].type = objects[datas[m]].type
    BY <1>1, <2>1
  <2>3. Taken(d, m)' <=> Taken(c, m) \/ (m = n /\ Converted(c))
    <3>1. Taken(c, m) <=> \E i \in 1 .. b : s[i].name = m /\ objects[datas[m]].type \in s[i].fits
      BY <1>1, <1>2, <1>11, <1>12 DEF Taken
    <3>2. Taken(d, m)' <=> \E i \in 1 .. b + 1 : s[i].name = m /\ objects[datas[m]].type \in s[i].fits
      BY <1>5, <1>11, <1>16, <2>1, <2>2 DEF Taken
    <3>3. m = n => (Converted(c) <=> objects[datas[m]].type \in s[b + 1].fits)
      BY <1>17 DEF Converted
    <3>4. \A i : i \in 1 .. b + 1 <=> i \in 1 .. b \/ i = b + 1
      BY <1>15
    <3> QED
      BY <1>17, <3>1, <3>2, <3>3, <3>4
  <2>4. \/ objects'[datas[m]] = objects[datas[m]] /\ ~(m = n /\ Converted(c))
        \/ m = n /\ Converted(c) /\ objects'[datas[m]].value = Source(c)
    <3>1. datas[m] = datas[n] => m = n
      BY <1>1, <1>19 DEF Inv, DistinctInv
    <3> QED
      BY <1>1, <1>19, <2>1, <3>1
  <2>5. \A f \in Done(c) : missed'[f] = missed[f]
    BY <1>6, <1>9 DEF Done
  <2>6. WonInv(c, m)
    BY <1>8, <1>19
  <2>7. \A f : Gives(f, m)' <=> Gives(f, m)
    BY <1>6, <2>1, <2>2 DEF Gives
  <2>8. \A f : LastOf(d, f, m)' <=> LastOf(c, f, m)
    BY <1>9, <2>7 DEF LastOf
  <2>9. CASE objects'[datas[m]] = objects[datas[m]] /\ ~(m = n /\ Converted(c))
    <3>1. \A f : From(m, f)' <=> From(m, f)
      BY <2>1, <2>9 DEF From
    <3> QED
      BY <1>1, <1>2, <1>5, <1>6, <1>9, <2>3, <2>5, <2>6, <2>8, <2>9, <3>1 DEF WonInv
  <2>10. CASE m = n /\ Converted(c) /\ objects'[datas[m]].value = Source(c)
    <3>1. Source(c) = [by |-> "file", file |-> h, version |-> c.version]
      BY <1>2 DEF Source
    <3>2. From(m, h)'
      BY <2>1, <2>10, <3>1 DEF From
    <3> QED
      BY <1>5, <2>3, <2>10, <3>2 DEF WonInv
  <2> QED
    BY <2>4, <2>9, <2>10
<1> QED
  BY <1>10, <1>18, <1>19

-----------------------------------------------------------------------------
(* What a forced load leaves.                                              *)

LEMMA NextForced ==
  ASSUME OneLoader, Inv, LoadInv, LoadsForced, Next
  PROVE  LoadsForced'
<1>1. CASE FileSteps
  BY <1>1, FileStepsForced
<1>2. ASSUME NEW t \in Threads, LookupSteps(t)
      PROVE  LoadsForced'
  BY <1>2, LookupForced, AsideForced DEF LookupSteps
<1>3. ASSUME NEW t \in Threads, LoadSteps(t)
      PROVE  LoadsForced'
  BY <1>3, LoadStatForced, LoadStatThrowsForced, LoadCheckForced, LoadEraseForced, LoadReadForced,
     FinishesForced, AsideForced, ApplyFileForced, ApplyOtherForced DEF LoadSteps
<1>4. ASSUME NEW t \in Threads, Begin(t)
      PROVE  LoadsForced'
  BY <1>4, LookupForced, AsideForced, LoadBeginForced, SetValueForced DEF Begin
<1> QED
  BY <1>1, <1>2, <1>3, <1>4 DEF Next

LEMMA StutterForced ==
  ASSUME Inv, LoadsForced, UNCHANGED vars
  PROVE  LoadsForced'
<1>1. UNCHANGED <<datas, objects, disk, clock, call, missed>>
  BY DEF vars
<1>2. SUFFICES ASSUME NEW u \in Threads, Loading(call[u])
               PROVE  ForcedInv(call[u])'
  BY <1>1 DEF LoadsForced, Loading
<1>3. call[u] \in Loads /\ (call[u].file \in Files \/ call[u].pc # "apply") /\ ForcedInv(call[u])
  BY <1>2, CallKinds DEF Inv, LoadsForced, Loading
<1>4. PICK c : c = call[u] /\ c = call'[u]
  BY <1>1
<1>5. ForcedInv(c)'
  BY <1>1, <1>3, <1>4, NothingNew, MildForced
<1> QED
  BY <1>4, <1>5

LEMMA EndForced ==
  ASSUME Inv, LoadInv, LoadsForced, NEW t \in Loaders,
         LoadEnd(t), call[t].force, call[t].since = clock,
         NEW n \in Names, datas[n] # 0, \A f \in Files : n \notin missed[f],
         NEW f \in Files, Gives(f, n), ~ \E g \in Files : Before(f, g) /\ Gives(g, n)
  PROVE  From(n, f)
<1>1. t \in Threads /\ call[t].pc = "next" /\ call[t].todo = {}
  BY ConfigAssumption DEF LoadEnd, At
<1>2. WonInv(call[t], n) /\ ~Taken(call[t], n)
  BY <1>1 DEF LoadsForced, Loading, ForcedInv, Taken
<1>3. f \in Done(call[t])
  BY <1>1 DEF Gives, Done, Current
<1>4. LastOf(call[t], f, n)
  BY DEF LastOf, Done
<1> QED
  BY <1>2, <1>3, <1>4 DEF WonInv, Done

\* A forced load during which no file changes leaves each variable with what
\* the last path that gives it a value gives, whatever else fails.
THEOREM LastPathWinsAlways ==
  ASSUME OneLoader
  PROVE  Spec => LastPathWins
<1>1. Init => LoadsForced
  BY DEF Init, Idle, LoadsForced, Loading
<1>2. Inv /\ LoadInv /\ LoadsForced /\ [Next]_vars => LoadsForced'
  BY OneLoader, NextForced, StutterForced
<1>3. ASSUME Inv, LoadInv, LoadsForced, NEW t \in Loaders,
             LoadEnd(t), call[t].force, call[t].since = clock,
             NEW n \in Names, datas[n] # 0, \A f \in Files : n \notin missed[f]
      PROVE  LET value == objects[datas[n]].value IN
             \A f \in Files : Gives(f, n) /\ ~(\E g \in Files : Before(f, g) /\ Gives(g, n)) =>
                 \/ value.by \in {"program", "yaml"}
                 \/ value.by = "file" /\ value.file = f
  BY <1>3, EndForced DEF From
<1>4. Inv /\ LoadInv /\ LoadsForced => 
        \A t \in Loaders : LoadEnd(t) /\ call[t].force /\ call[t].since = clock =>
          \A n \in Names : datas[n] # 0 /\ (\A f \in Files : n \notin missed[f]) =>
              LET value == objects[datas[n]].value IN
              \A f \in Files : Gives(f, n) /\ ~(\E g \in Files : Before(f, g) /\ Gives(g, n)) =>
                  \/ value.by \in {"program", "yaml"}
                  \/ value.by = "file" /\ value.file = f
  BY <1>3
<1> QED
  BY <1>1, <1>2, <1>4, Invariance, LoadInvariance, PTL DEF Spec, LastPathWins
=============================================================================
