--------------------------- MODULE Startup_proofs ---------------------------
(***************************************************************************)
(* Theorems about Startup, for any list of definitions: the registry's two *)
(* maps agree, each resource is served from one storage, and the exit code *)
(* tells why the server stopped.                                           *)
(***************************************************************************)
EXTENDS Startup, Routing_proofs

-----------------------------------------------------------------------------
(***************************************************************************)
(* Definitions, and where main is among them.                              *)
(***************************************************************************)

\* Boot is a sequence of definitions whose GVRs differ.
LEMMA Boots1 ==
  /\ Len(Boot) \in Nat /\ Len(Boot) # 0 /\ DOMAIN Boot = 1..Len(Boot)
  /\ \A k \in 1..Len(Boot) : /\ Boot[k] \in Definitions
                             /\ GVR(Boot[k]) \in GVRs
                             /\ Boot[k].group \in Groups
                             /\ GVR(Boot[k])[1] = Boot[k].group
  /\ \A j, k \in 1..Len(Boot) : GVR(Boot[j]) = GVR(Boot[k]) => j = k
  /\ GVRs = Registered(Len(Boot))
<1>1. Len(Boot) \in Nat /\ Len(Boot) # 0 /\ DOMAIN Boot = 1..Len(Boot)
  BY BootAssumption
<1>2. \A k \in 1..Len(Boot) : GVR(Boot[k])[1] = Boot[k].group
  BY DEF GVR
<1>3. QED BY <1>1, <1>2, BootAssumption DEF Definitions, GVRs, Groups, Registered

\* Registering the next definition adds its GVR, which was not registered.
LEMMA RegisteredNext ==
  ASSUME NEW n \in 1..Len(Boot)
  PROVE  /\ Registered(n) = Registered(n - 1) \cup {GVR(Boot[n])}
         /\ \A j \in 1..Len(Boot) : j >= n => GVR(Boot[j]) \notin Registered(n - 1)
<1>1. 1..n = (1..(n - 1)) \cup {n} /\ 1..(n - 1) \subseteq 1..Len(Boot)
  BY Boots1
<1>2. Registered(n) = Registered(n - 1) \cup {GVR(Boot[n])}
  BY <1>1 DEF Registered
<1>3. ASSUME NEW j \in 1..Len(Boot), j >= n, GVR(Boot[j]) \in Registered(n - 1)
      PROVE  FALSE
  <2>1. PICK i \in 1..(n - 1) : GVR(Boot[j]) = GVR(Boot[i])
    BY <1>3 DEF Registered
  <2>2. i = j BY <1>1, <2>1, Boots1
  <2>3. QED BY <1>3, <2>1, <2>2, Boots1
<1>4. QED BY <1>2, <1>3

\* The definition that main is about to register, while it is.
LEMMA Underway1 ==
  ASSUME StartInv, stage \in {"build", "wrap", "register"}
  PROVE  /\ next \in 1..Len(Boot)
         /\ Current = Boot[next]
         /\ GVR(Current) \in GVRs /\ Current.group \in Groups
         /\ GVR(Current)[1] = Current.group
         /\ GVR(Current) \notin resources
         /\ resources = Registered(next - 1)
         /\ resources \cup {GVR(Current)} = Registered(next)
<1>1. next \in 1..Len(Boot) BY Boots1 DEF StartInv, TypeOK
<1>2. resources = Registered(next - 1) BY DEF StartInv, StageOK, Booting
<1>3. QED BY <1>1, <1>2, Boots1, RegisteredNext DEF Current

-----------------------------------------------------------------------------
(***************************************************************************)
(* Building.                                                               *)
(***************************************************************************)

\* After a Build the factory has made one storage for the definition, which
\* the info and the builder share; the other definitions are as they were.
LEMMA BuildMakesOne ==
  ASSUME StartInv, stage \in {"build", "register"}, Build,
         NEW g, g = GVR(Current)
  PROVE  /\ builder' \in Infos /\ info' \in [GVRs -> Infos]
         /\ instances' \in Seq(GVRs)
         /\ builder'.storage.instance # 0
         /\ MadeFor(g)' = {builder'.storage.instance}
         /\ info'[g].storage = builder'.storage
         /\ info'[g].subs = builder.subs /\ builder'.subs = builder.subs
         /\ stage = "build" => builder.subs = {}
         /\ \A s \in builder.subs : s.over.instance = builder'.storage.instance
         /\ \A h \in GVRs \ {g} : info'[h] = info[h] /\ MadeFor(h)' = MadeFor(h)
<1> DEFINE n == Len(instances)
<1>1. /\ g \in GVRs /\ instances \in Seq(GVRs) /\ n \in Nat
      /\ builder \in Infos /\ info \in [GVRs -> Infos]
  <2>1. TypeOK BY DEF StartInv
  <2>2. /\ instances \in Seq(GVRs)
        /\ builder \in Infos /\ info \in [GVRs -> Infos]
    BY <2>1 DEF TypeOK
  <2>3. g \in GVRs BY Underway1
  <2>4. QED BY <2>2, <2>3
<1>2. info[g].subs = {} /\ info[g] \in Infos
  BY <1>1 DEF StartInv, StageOK, Unmade, Underway
<1>3. CASE builder.storage = NoStorage
  <2>1. /\ instances' = Append(instances, g)
        /\ builder' = [builder EXCEPT !.storage = Bare(n + 1)]
        /\ info' = [info EXCEPT ![g] = [storage |-> Bare(n + 1),
                                        subs |-> @.subs \cup builder.subs]]
    BY <1>3 DEF Build, Cached
  <2>2. stage = "build"
    <3>1. ASSUME stage = "register" PROVE FALSE
      <4>1. MadeFor(g) = {0}
        BY <1>3, <3>1 DEF StartInv, StageOK, Underway, NoStorage
      <4>2. 0 \in DOMAIN instances BY <4>1 DEF MadeFor
      <4>3. QED BY <1>1, <4>2
    <3>2. QED BY <3>1
  <2>3. builder.subs = {} /\ MadeFor(g) = {}
    BY <2>2 DEF StartInv, StageOK, NewBuilder, Unmade
  <2>4. Bare(n + 1) \in Storages /\ Bare(n + 1).instance = n + 1
    BY <1>1 DEF Bare, Storages
  <2>5. /\ builder'.storage = Bare(n + 1) /\ builder'.subs = {}
        /\ builder' \in Infos
    BY <1>1, <2>1, <2>3, <2>4 DEF Infos
  <2>6. /\ info' \in [GVRs -> Infos]
        /\ info'[g].storage = Bare(n + 1) /\ info'[g].subs = {}
        /\ \A h \in GVRs \ {g} : info'[h] = info[h]
    BY <1>1, <1>2, <2>1, <2>3, <2>4 DEF Infos
  <2>7. /\ instances' \in Seq(GVRs)
        /\ DOMAIN instances' = DOMAIN instances \cup {n + 1}
        /\ n + 1 \notin DOMAIN instances
        /\ instances'[n + 1] = g
        /\ \A k \in DOMAIN instances : instances'[k] = instances[k]
    BY <1>1, <2>1
  <2>8. MadeFor(g)' = MadeFor(g) \cup {n + 1}
    BY <2>7 DEF MadeFor
  <2>9. \A h \in GVRs \ {g} : MadeFor(h)' = MadeFor(h)
    BY <2>7 DEF MadeFor
  <2>10. QED BY <1>1, <2>2, <2>3, <2>4, <2>5, <2>6, <2>7, <2>8, <2>9
<1>4. CASE builder.storage # NoStorage
  <2>1. /\ instances' = instances
        /\ builder' = [builder EXCEPT !.storage = builder.storage]
        /\ info' = [info EXCEPT ![g] = [storage |-> builder.storage,
                                        subs |-> @.subs \cup builder.subs]]
    BY <1>4 DEF Build, Cached
  <2>2. stage = "register" /\ Underway(g)
    BY <1>4 DEF StartInv, StageOK, NewBuilder
  <2>3. builder'.storage = builder.storage /\ builder'.subs = builder.subs
        /\ builder' \in Infos
    BY <1>1, <2>1 DEF Infos
  <2>4. /\ info' \in [GVRs -> Infos]
        /\ info'[g].storage = builder.storage /\ info'[g].subs = builder.subs
        /\ \A h \in GVRs \ {g} : info'[h] = info[h]
    BY <1>1, <1>2, <2>1 DEF Infos
  <2>5. \A h \in GVRs : MadeFor(h)' = MadeFor(h) BY <2>1 DEF MadeFor
  <2>6. builder.storage.instance # 0
    <3>1. builder.storage.instance \in DOMAIN instances
      BY <2>2 DEF Underway, MadeFor
    <3>2. QED BY <1>1, <3>1
  <2>7. QED BY <1>1, <2>1, <2>2, <2>3, <2>4, <2>5, <2>6 DEF Underway
<1>5. QED BY <1>3, <1>4

-----------------------------------------------------------------------------
(***************************************************************************)
(* The registry.                                                           *)
(***************************************************************************)

RegistryGood == RegistryCoherent /\ OneStorageEach /\ IsFiniteSet(resources)

\* What happens to a definition that is not registered is not seen in the
\* registry.
LEMMA RegistryKept ==
  ASSUME StartInv, UNCHANGED registry,
         \A h \in resources : info'[h] = info[h] /\ MadeFor(h)' = MadeFor(h)
  PROVE  RegistryGood'
<1>1. UNCHANGED <<resources, subresources, groups>> BY DEF registry
<1>2. RegistryCoherent /\ OneStorageEach /\ IsFiniteSet(resources)
  BY DEF StartInv
<1>3. RegistryCoherent' BY <1>1, <1>2 DEF RegistryCoherent
<1>4. OneStorageEach' BY <1>1, <1>2 DEF OneStorageEach, MadeFor
<1>5. QED BY <1>1, <1>2, <1>3, <1>4 DEF RegistryGood

\* Registering enters a new resource into both maps and the list of its group.
LEMMA RegistryGrown ==
  ASSUME StartInv, Register
  PROVE  RegistryGood'
<1>1. CASE UNCHANGED <<instances, builder, info, registry>>
  BY <1>1, RegistryKept DEF MadeFor
<1>2. ASSUME NEW g, g = GVR(Current), stage \in {"build", "register"}, Build,
             resources' = resources \cup {g},
             subresources' =
               subresources \cup {<<g, s.name>> : s \in info'[g].subs},
             groups' = [groups EXCEPT ![Current.group] = Listed(@, g)]
      PROVE  RegistryGood'
  <2>1. /\ g \in GVRs /\ Current.group \in Groups /\ g[1] = Current.group
        /\ g \notin resources
    BY <1>2, Underway1
  <2>2. /\ info'[g].storage = builder'.storage
        /\ info'[g].subs = builder.subs
        /\ MadeFor(g)' = {builder'.storage.instance}
        /\ \A s \in builder.subs : s.over.instance = builder'.storage.instance
        /\ \A h \in GVRs \ {g} : info'[h] = info[h] /\ MadeFor(h)' = MadeFor(h)
    BY <1>2, BuildMakesOne
  <2>3. /\ resources \subseteq GVRs /\ groups \in [Groups -> Seq(GVRs)]
        /\ RegistryCoherent /\ OneStorageEach /\ IsFiniteSet(resources)
    BY DEF StartInv, TypeOK
  <2>4. \A h \in resources : h \in GVRs \ {g} BY <2>1, <2>3
  <2>5. IsFiniteSet(resources') BY <1>2, <2>3, FS_AddElement
  <2>6. OneStorageEach'
    <3>1. ASSUME NEW h \in resources'
          PROVE  /\ MadeFor(h)' = {info'[h].storage.instance}
                 /\ \A s \in info'[h].subs :
                      s.over.instance = info'[h].storage.instance
      <4>1. CASE h = g BY <2>2, <4>1
      <4>2. CASE h # g
        <5>1. h \in resources BY <1>2, <3>1, <4>2
        <5>2. MadeFor(h)' = MadeFor(h) /\ info'[h] = info[h]
          BY <2>2, <2>4, <5>1
        <5>3. /\ MadeFor(h) = {info[h].storage.instance}
              /\ \A s \in info[h].subs :
                   s.over.instance = info[h].storage.instance
          BY <2>3, <5>1 DEF OneStorageEach, MadeFor
        <5>4. QED BY <5>2, <5>3
      <4>3. QED BY <4>1, <4>2
    <3>2. QED BY <3>1 DEF OneStorageEach, MadeFor
  <2>7. subresources'
          = UNION {{<<h, s.name>> : s \in info'[h].subs} : h \in resources'}
    <3>1. \A h \in resources : info'[h] = info[h] BY <2>2, <2>4
    <3>2. subresources
            = UNION {{<<h, s.name>> : s \in info[h].subs} : h \in resources}
      BY <2>3 DEF RegistryCoherent
    <3>3. subresources
            = UNION {{<<h, s.name>> : s \in info'[h].subs} : h \in resources}
      BY <3>1, <3>2
    <3>4. QED BY <1>2, <3>3
  <2>8. ASSUME NEW gv \in Groups
        PROVE  /\ {groups'[gv][k] : k \in DOMAIN groups'[gv]}
                    = {h \in resources' : h[1] = gv}
               /\ Len(groups'[gv]) = Cardinality({h \in resources' : h[1] = gv})
    <3> DEFINE of == {h \in resources : h[1] = gv}
               list == groups[gv]
    <3>1. /\ list \in Seq(GVRs) /\ {list[k] : k \in DOMAIN list} = of
          /\ Len(list) = Cardinality(of)
      BY <2>3 DEF RegistryCoherent
    <3>2. CASE gv # Current.group
      <4>1. groups'[gv] = list BY <1>2, <2>3, <3>2
      <4>2. {h \in resources' : h[1] = gv} = of BY <1>2, <2>1, <3>2
      <4>3. QED BY <3>1, <4>1, <4>2
    <3>3. CASE gv = Current.group
      <4>1. groups'[gv] = Append(list, g) BY <1>2, <2>3, <3>3 DEF Listed
      <4>2. {h \in resources' : h[1] = gv} = of \cup {g} BY <1>2, <2>1, <3>3
      <4>3. IsFiniteSet(of) /\ g \notin of BY <2>1, <2>3, FS_Subset
      <4>4. Cardinality(of \cup {g}) = Cardinality(of) + 1
        BY <4>3, FS_AddElement
      <4> HIDE DEF list, of
      <4>5. /\ DOMAIN Append(list, g) = DOMAIN list \cup {Len(list) + 1}
            /\ \A k \in DOMAIN list : Append(list, g)[k] = list[k]
            /\ Append(list, g)[Len(list) + 1] = g
            /\ Len(Append(list, g)) = Len(list) + 1
        BY <2>1, <3>1
      <4>6. {Append(list, g)[k] : k \in DOMAIN Append(list, g)} = of \cup {g}
        BY <3>1, <4>5
      <4> DEFINE more == Append(list, g)
                 now == groups'[gv]
                 all == {h \in resources' : h[1] = gv}
      <4>7. now = more /\ all = of \cup {g} BY <4>1, <4>2
      <4>8. {more[k] : k \in DOMAIN more} = all /\ Len(more) = Cardinality(all)
        BY <3>1, <4>2, <4>4, <4>5, <4>6
      <4> HIDE DEF more, now, all
      <4>9. {now[k] : k \in DOMAIN now} = all /\ Len(now) = Cardinality(all)
        BY <4>7, <4>8
      <4>10. QED BY <4>9 DEF now, all
    <3>4. QED BY <3>2, <3>3
  <2>9. RegistryCoherent' BY <2>7, <2>8 DEF RegistryCoherent
  <2>10. QED BY <2>5, <2>6, <2>9 DEF RegistryGood
<1>3. QED BY <1>1, <1>2 DEF Register

\* No step disturbs the registry.
LEMMA RegistryStep ==
  ASSUME StartInv, [Next]_vars
  PROVE  RegistryGood'
<1>1. CASE Register BY <1>1, RegistryGrown
<1>2. CASE BuildFirst
  <2>1. stage = "build" /\ UNCHANGED registry BY <1>2 DEF BuildFirst
  <2>2. CASE Build
    <3>1. PICK g : g = GVR(Current) OBVIOUS
    <3>2. g \notin resources /\ resources \subseteq GVRs
      BY <2>1, <3>1, Underway1 DEF StartInv, TypeOK
    <3>3. \A h \in GVRs \ {g} : info'[h] = info[h] /\ MadeFor(h)' = MadeFor(h)
      BY <2>1, <2>2, <3>1, BuildMakesOne
    <3>4. QED BY <2>1, <3>2, <3>3, RegistryKept
  <2>3. CASE UNCHANGED <<instances, info>>
    BY <2>1, <2>3, RegistryKept DEF MadeFor
  <2>4. QED BY <1>2, <2>2, <2>3 DEF BuildFirst
<1>3. CASE Wrap
  <2>1. stage = "wrap" /\ UNCHANGED <<registry, instances>>
    BY <1>3 DEF Wrap
  <2>2. \A h \in GVRs \ {GVR(Current)} : info'[h] = info[h]
    BY <1>3 DEF Wrap, StartInv, TypeOK
  <2>3. GVR(Current) \notin resources /\ resources \subseteq GVRs
    BY <2>1, Underway1 DEF StartInv, TypeOK
  <2>4. QED BY <2>1, <2>2, <2>3, RegistryKept DEF MadeFor
<1>4. CASE UNCHANGED <<instances, info, registry>>
  BY <1>4, RegistryKept DEF MadeFor
<1>5. [Next]_vars => \/ Register \/ BuildFirst \/ Wrap
                     \/ UNCHANGED <<instances, info, registry>>
  BY Zenon
  DEF Next, Boots, vars, server, NewContainerServer, Connect, NextDefinition,
      RegisterResource, SetResourceRegistry, ListenAndServe, Signal, Cancel,
      RunReturns, Dispatch
<1>6. QED BY <1>1, <1>2, <1>3, <1>4, <1>5

-----------------------------------------------------------------------------
(***************************************************************************)
(* The stages.                                                             *)
(***************************************************************************)

\* The stages keep to their order, and only serving takes more than a step of
\* main.
LEMMA StageKept ==
  ASSUME StartInv,
         UNCHANGED <<next, builder, pending, instances, info, resources,
                     storageRegistry>>,
         \/ stage' \in {stage, "serving", "exited"}
         \/ stage = "create" /\ stage' = "connect"
         \/ stage = "connect" /\ stage' = "build"
  PROVE  StageOK'
<1>1. GVR(Current)' = GVR(Current) BY DEF Current
<1>2. StageOK BY DEF StartInv
<1>3. \A j \in DOMAIN Boot : Unmade(GVR(Boot[j]))' <=> Unmade(GVR(Boot[j]))
  BY DEF Unmade, MadeFor
<1>4. Unmade(GVR(Current))' <=> Unmade(GVR(Current))
  BY <1>1 DEF Unmade, MadeFor
<1>5. Underway(GVR(Current))' <=> Underway(GVR(Current))
  BY <1>1 DEF Underway, MadeFor
<1>6. CASE stage' \in {"serving", "exited"}
  BY <1>6 DEF StageOK, Booting
<1>7. CASE stage' = stage
  BY <1>1, <1>2, <1>3, <1>4, <1>5, <1>7 DEF StageOK, Booting
<1>8. CASE \/ stage = "create" /\ stage' = "connect"
           \/ stage = "connect" /\ stage' = "build"
  BY <1>1, <1>2, <1>3, <1>4, <1>5, <1>8 DEF StageOK, Booting
<1>9. QED BY <1>6, <1>7, <1>8

\* A definition that is wrapped is built, wrapped and registered.
LEMMA StageBuilding ==
  ASSUME StartInv, BuildFirst \/ Wrap \/ Register
  PROVE  StageOK'
<1>1. CASE stage' = "exited" BY <1>1 DEF StageOK, Booting
<1>2. PICK g : g = GVR(Current) OBVIOUS
<1>3. stage \in {"build", "wrap", "register"} /\ next' = next
  BY DEF BuildFirst, Wrap, Register
<1>4. /\ next \in 1..Len(Boot) /\ GVR(Current)' = g /\ g = GVR(Boot[next])
      /\ g \in GVRs /\ resources = Registered(next - 1)
      /\ resources \cup {g} = Registered(next)
  BY <1>2, <1>3, Underway1 DEF Current
<1>5. /\ \A j \in 1..Len(Boot) :
           j > next => /\ Unmade(GVR(Boot[j]))
                       /\ GVR(Boot[j]) \in GVRs \ {g}
  <2>1. \A j \in DOMAIN Boot : j > next => Unmade(GVR(Boot[j]))
    BY <1>3 DEF StartInv, StageOK, Booting
  <2>2. QED BY <1>4, <2>1, Boots1
<1>6. ASSUME Build, stage \in {"build", "register"}
      PROVE  /\ Underway(g)' \/ stage' # "wrap"
             /\ \A j \in 1..Len(Boot) : j > next => Unmade(GVR(Boot[j]))'
  <2>1. /\ MadeFor(g)' = {builder'.storage.instance}
        /\ info'[g].storage = builder'.storage
        /\ info'[g].subs = builder.subs /\ builder'.subs = builder.subs
        /\ stage = "build" => builder.subs = {}
        /\ \A s \in builder.subs : s.over.instance = builder'.storage.instance
        /\ \A h \in GVRs \ {g} : info'[h] = info[h] /\ MadeFor(h)' = MadeFor(h)
    BY <1>2, <1>6, BuildMakesOne
  <2>2. \A j \in 1..Len(Boot) : j > next => Unmade(GVR(Boot[j]))'
    BY <1>5, <2>1 DEF Unmade
  <2>3. stage' = "wrap" => stage = "build"
    <3>1. CASE BuildFirst BY <3>1 DEF BuildFirst
    <3>2. CASE Wrap BY <1>6, <3>2 DEF Wrap
    <3>3. CASE Register
      BY <3>3 DEF Register, FactoryFails, GoOn, Abort
    <3>4. QED BY <3>1, <3>2, <3>3
  <2>4. stage' = "wrap" => Underway(g)'
    BY <2>1, <2>3 DEF Underway
  <2>5. QED BY <2>2, <2>4
<1>7. CASE BuildFirst /\ stage' # "exited"
  <2>1. Build /\ stage = "build" /\ stage' = "wrap" /\ UNCHANGED resources
    BY <1>7 DEF BuildFirst, FactoryFails, Abort, GoOn, registry
  <2>2. Underway(GVR(Current))' BY <1>4, <1>6, <2>1 DEF Underway, MadeFor
  <2>3. QED BY <1>3, <1>4, <1>6, <2>1, <2>2, Boots1 DEF StageOK, Booting
<1>8. CASE Wrap
  <2>1. /\ stage = "wrap" /\ stage' = "register"
        /\ UNCHANGED <<resources, instances>>
        /\ info' = [info EXCEPT ![g].storage = Wrapped(info[g].storage)]
        /\ builder' = [builder EXCEPT !.subs =
             {[name |-> s, over |-> Wrapped(info[g].storage)] :
                s \in Current.subs \cap {"status"}}]
    BY <1>2, <1>8 DEF Wrap, GoOn, registry
  <2>2. Underway(g) BY <1>2, <2>1 DEF StartInv, StageOK
  <2>3. info \in [GVRs -> Infos] /\ builder \in Infos
    BY DEF StartInv, TypeOK
  <2>4. info[g] \in Infos BY <1>4, <2>3
  <2>5. Wrapped(info[g].storage).instance = info[g].storage.instance
    BY <2>4 DEF Wrapped, Infos, Storages
  <2>6. /\ info'[g].storage = Wrapped(info[g].storage)
        /\ info'[g].subs = info[g].subs
        /\ \A h \in GVRs \ {g} : info'[h] = info[h]
    BY <1>4, <2>1, <2>3, <2>4 DEF Infos
  <2>7. /\ builder'.storage = builder.storage
        /\ \A s \in builder'.subs : s.over = Wrapped(info[g].storage)
    BY <2>1, <2>3 DEF Infos
  <2>8. Underway(g)'
    BY <2>1, <2>2, <2>5, <2>6, <2>7 DEF Underway, MadeFor
  <2>9. Underway(GVR(Current))' BY <1>4, <2>8 DEF Underway, MadeFor
  <2>10. \A j \in 1..Len(Boot) : j > next => Unmade(GVR(Boot[j]))'
    BY <1>5, <2>1, <2>6 DEF Unmade, MadeFor
  <2>11. QED BY <1>3, <1>4, <2>1, <2>9, <2>10, Boots1 DEF StageOK, Booting
<1>9. CASE Register /\ stage' # "exited"
  <2>1. /\ Build /\ stage \in {"build", "register"} /\ stage' = "next"
        /\ resources' = resources \cup {g}
    BY <1>2, <1>9 DEF Register, FactoryFails, Abort, GoOn
  <2>2. QED BY <1>3, <1>4, <1>6, <2>1, Boots1 DEF StageOK, Booting
<1>10. QED BY <1>1, <1>7, <1>8, <1>9

\* When the last definition is registered, all are.
LEMMA StageNext ==
  ASSUME StartInv, NextDefinition
  PROVE  StageOK'
<1>1. /\ stage = "next" /\ builder' = NewBuilder
      /\ UNCHANGED <<instances, info, resources, storageRegistry>>
  BY DEF NextDefinition, server, registry
<1>2. /\ next \in 1..Len(Boot) /\ resources = Registered(next)
      /\ \A j \in 1..Len(Boot) : j > next => Unmade(GVR(Boot[j]))
      /\ Len(Boot) \in Nat
  BY <1>1, Boots1 DEF StartInv, TypeOK, StageOK, Booting
<1>3. \A j \in 1..Len(Boot) : j > next => Unmade(GVR(Boot[j]))'
  BY <1>1, <1>2 DEF Unmade, MadeFor
<1>4. CASE next < Len(Boot)
  <2>1. stage' = "build" /\ next' = next + 1
    BY <1>4 DEF NextDefinition, More, GoOn
  <2>2. PICK k : k = next + 1 OBVIOUS
  <2>3. k \in 1..Len(Boot) /\ k > next BY <1>2, <1>4, <2>2
  <2>4. Unmade(GVR(Boot[k]))' BY <1>3, <2>3
  <2>5. Unmade(GVR(Current))'
    BY <2>1, <2>2, <2>4 DEF Current, Unmade, MadeFor
  <2>6. /\ \A j \in 1..Len(Boot) : j > next' => Unmade(GVR(Boot[j]))'
        /\ resources' = Registered(next' - 1)
    BY <1>1, <1>2, <1>3, <2>1
  <2>7. QED BY <1>1, <2>1, <2>5, <2>6, Boots1 DEF StageOK, Booting
<1>5. CASE ~ next < Len(Boot)
  <2>1. stage' = "install" /\ pending' = resources
    BY <1>5 DEF NextDefinition, More, GoOn
  <2>2. resources = GVRs BY <1>2, <1>5, Boots1
  <2>3. QED BY <1>1, <2>1, <2>2 DEF StageOK, Booting
<1>6. QED BY <1>4, <1>5

LEMMA StageStep ==
  ASSUME StartInv, [Next]_vars
  PROVE  StageOK'
<1>1. CASE UNCHANGED vars
  BY <1>1, StageKept DEF vars, server, registry
<1>2. CASE NewContainerServer
  BY <1>2, StageKept DEF NewContainerServer, GoOn, Abort, server, registry
<1>3. CASE Connect
  BY <1>3, StageKept DEF Connect, GoOn, Abort, server, registry
<1>4. CASE BuildFirst \/ Wrap \/ Register BY <1>4, StageBuilding
<1>5. CASE NextDefinition BY <1>5, StageNext
<1>6. CASE RegisterResource
  <2>1. /\ stage = "install" /\ stage' = "install"
        /\ UNCHANGED <<info, resources>>
        /\ \E g \in pending :
             /\ storageRegistry' = [storageRegistry EXCEPT ![g] = info[g].storage]
             /\ pending' = pending \ {g}
    BY <1>6 DEF RegisterResource, registry
  <2>2. /\ resources = GVRs /\ storageRegistry \in [GVRs -> Storages]
        /\ pending \subseteq GVRs
        /\ \A g \in GVRs \ pending : storageRegistry[g] = info[g].storage
    BY <2>1 DEF StartInv, TypeOK, StageOK
  <2>3. \A g \in GVRs \ pending' : storageRegistry'[g] = info'[g].storage
    BY <2>1, <2>2
  <2>4. QED BY <2>1, <2>2, <2>3 DEF StageOK, Booting
<1>7. CASE SetResourceRegistry
  BY <1>7 DEF SetResourceRegistry, GoOn, StageOK, Booting
<1>8. CASE ListenAndServe \/ Signal \/ Cancel \/ RunReturns \/ Dispatch
  <2>1. /\ stage' \in {stage, "exited"}
        /\ UNCHANGED <<next, builder, pending, server>>
    BY <1>8 DEF ListenAndServe, Signal, Cancel, RunReturns, Dispatch
  <2>2. QED BY <2>1, StageKept DEF server, registry
<1>9. QED
  BY <1>1, <1>2, <1>3, <1>4, <1>5, <1>6, <1>7, <1>8 DEF Next, Boots

-----------------------------------------------------------------------------
(***************************************************************************)
(* What is served, how it ends, and types.                                 *)
(***************************************************************************)

\* What a registered resource is served from was made.
LEMMA MadeIsSome ==
  ASSUME StartInv, NEW g \in resources
  PROVE  info[g].storage # NoStorage /\ instances # <<>>
<1>1. info[g].storage.instance \in DOMAIN instances /\ instances \in Seq(GVRs)
  BY DEF StartInv, OneStorageEach, TypeOK
<1>2. DOMAIN instances = 1..Len(instances) /\ Len(instances) \in Nat
  BY <1>1
<1>3. info[g].storage.instance # 0 /\ Len(instances) # 0 BY <1>1, <1>2
<1>4. QED BY <1>3 DEF NoStorage

LEMMA ServesStep ==
  ASSUME StartInv, [Next]_vars
  PROVE  ServesAllOrNothing'
<1> SUFFICES ASSUME stage' = "serving" PROVE ServesAllOrNothing'
  BY DEF ServesAllOrNothing
<1>1. ServesAllOrNothing BY DEF StartInv
<1>2. CASE stage = "serving"
  <2>1. UNCHANGED <<resources, instances, info, storageRegistry>>
    BY <1>2 DEF Next, Boots, vars, server, registry, NewContainerServer, Connect,
       BuildFirst, Wrap, Register, NextDefinition, RegisterResource,
       SetResourceRegistry, ListenAndServe, Signal, Cancel, RunReturns, Dispatch
  <2>2. QED BY <1>1, <1>2, <2>1 DEF ServesAllOrNothing
<1>3. CASE stage # "serving"
  <2>1. Connect \/ SetResourceRegistry
    BY <1>3 DEF Next, Boots, vars, NewContainerServer, BuildFirst, Wrap, Register,
       NextDefinition, RegisterResource, FactoryFails, GoOn, Abort,
       ListenAndServe, Signal, Cancel, RunReturns, Dispatch
  <2>2. CASE Connect
    <3>1. stage = "connect" /\ UNCHANGED <<resources, instances>>
      BY <2>2 DEF Connect, server, registry
    <3>2. instances = <<>> /\ resources = Registered(0)
      BY <3>1 DEF StartInv, StageOK, Booting
    <3>3. resources = {} BY <3>2 DEF Registered
    <3>4. QED BY <3>1, <3>2, <3>3 DEF ServesAllOrNothing
  <2>3. CASE SetResourceRegistry
    <3>1. /\ stage = "install" /\ UNCHANGED <<resources, instances, info>>
          /\ storageRegistry' =
               [g \in GVRs |-> IF g \in resources THEN info[g].storage
                                                  ELSE storageRegistry[g]]
      BY <2>3 DEF SetResourceRegistry, registry
    <3>2. resources = GVRs BY <3>1 DEF StartInv, StageOK
    <3>3. GVR(Boot[1]) \in GVRs BY Boots1
    <3>4. instances # <<>> BY <3>2, <3>3, MadeIsSome
    <3>5. \A g \in GVRs : info[g].storage # NoStorage
      BY <3>2, MadeIsSome
    <3>6. QED BY <3>1, <3>2, <3>4, <3>5 DEF ServesAllOrNothing
  <2>4. QED BY <2>1, <2>2, <2>3
<1>4. QED BY <1>2, <1>3

\* Only Run ends with a signal taken or a listener lost.
LEMMA ExitStep ==
  ASSUME StartInv, [Next]_vars
  PROVE  ExitTellsWhy' /\ RunStartsThem'
<1>1. ExitTellsWhy /\ RunStartsThem BY DEF StartInv
<1>2. CASE UNCHANGED <<stage, signal, listener, code>>
  BY <1>1, <1>2 DEF ExitTellsWhy, RunStartsThem
<1>3. CASE stage \in Booting \cup {"install"} /\ UNCHANGED <<signal, listener>>
           /\ ((UNCHANGED code /\ stage' # "exited") \/ Abort)
  BY <1>1, <1>3 DEF ExitTellsWhy, RunStartsThem, Booting, Abort
<1>4. CASE Boots
  <2>1. stage \in Booting \cup {"install"} /\ UNCHANGED <<signal, listener>>
    BY <1>4 DEF Boots, life, Booting, NewContainerServer, Connect,
       BuildFirst, Wrap, Register, NextDefinition, RegisterResource,
       SetResourceRegistry
  <2>2. (UNCHANGED code /\ stage' # "exited") \/ Abort
    BY <1>4 DEF Boots, life, GoOn, FactoryFails, NewContainerServer, Connect,
       BuildFirst, Wrap, Register, NextDefinition, RegisterResource,
       SetResourceRegistry
  <2>3. QED BY <1>3, <2>1, <2>2
<1>5. CASE ListenAndServe
  BY <1>1, <1>5 DEF ExitTellsWhy, RunStartsThem, ListenAndServe
<1>6. CASE Signal
  BY <1>1, <1>6 DEF ExitTellsWhy, RunStartsThem, Signal
<1>7. CASE Cancel
  BY <1>1, <1>7 DEF ExitTellsWhy, RunStartsThem, Cancel
<1>8. CASE RunReturns
  BY <1>1, <1>8 DEF ExitTellsWhy, RunStartsThem, RunReturns, Ready, ExitCode
<1>9. CASE Dispatch BY <1>2, <1>9 DEF Dispatch, life
<1>10. CASE UNCHANGED vars BY <1>2, <1>10 DEF vars, life
<1>11. QED BY <1>4, <1>5, <1>6, <1>7, <1>8, <1>9, <1>10 DEF Next

\* The heap of infos and the builder keep their types.
LEMMA BuildTypes ==
  ASSUME StartInv, [Next]_vars
  PROVE  /\ builder' \in Infos /\ info' \in [GVRs -> Infos]
         /\ instances' \in Seq(GVRs)
<1>1. /\ builder \in Infos /\ info \in [GVRs -> Infos]
      /\ instances \in Seq(GVRs)
  BY DEF StartInv, TypeOK
<1>2. PICK g : g = GVR(Current) OBVIOUS
<1>3. ASSUME stage \in {"build", "register"}, Build
      PROVE  /\ builder' \in Infos /\ info' \in [GVRs -> Infos]
             /\ instances' \in Seq(GVRs)
  BY <1>2, <1>3, BuildMakesOne
<1>4. CASE Wrap
  <2>1. /\ stage = "wrap" /\ instances' = instances
        /\ info' = [info EXCEPT ![g].storage = Wrapped(info[g].storage)]
        /\ builder' = [builder EXCEPT !.subs =
             {[name |-> s, over |-> Wrapped(info[g].storage)] :
                s \in Current.subs \cap {"status"}}]
    BY <1>2, <1>4 DEF Wrap
  <2>2. g \in GVRs /\ Current \in Definitions
    BY <1>2, <2>1, Underway1, Boots1 DEF Current
  <2>3. Wrapped(info[g].storage) \in Storages
    BY <1>1, <2>2 DEF Infos, Storages, Wrapped
  <2>4. {[name |-> s, over |-> Wrapped(info[g].storage)] :
            s \in Current.subs \cap {"status"}} \subseteq Subresources
    BY <2>2, <2>3 DEF Subresources, SubNames
  <2>5. builder' \in Infos BY <1>1, <2>1, <2>4 DEF Infos
  <2>6. info' \in [GVRs -> Infos] BY <1>1, <2>1, <2>2, <2>3 DEF Infos
  <2>7. QED BY <1>1, <2>1, <2>5, <2>6
<1>5. CASE NextDefinition
  <2>1. NewBuilder \in Infos
    BY DEF NewBuilder, NoStorage, Infos, Storages, Subresources
  <2>2. QED BY <1>1, <1>5, <2>1 DEF NextDefinition, server
<1>6. CASE UNCHANGED <<builder, info, instances>> BY <1>1, <1>6
<1>7. [Next]_vars => \/ Wrap \/ NextDefinition
                     \/ UNCHANGED <<builder, info, instances>>
                     \/ stage \in {"build", "register"} /\ Build
  BY DEF Next, Boots, vars, server, NewContainerServer, Connect, BuildFirst,
     Register, RegisterResource, SetResourceRegistry, ListenAndServe, Signal,
     Cancel, RunReturns, Dispatch
<1>8. QED BY <1>3, <1>4, <1>5, <1>6, <1>7

\* So do the two maps of the registry and that of the server.
LEMMA MapTypes ==
  ASSUME StartInv, [Next]_vars
  PROVE  /\ resources' \subseteq GVRs /\ pending' \subseteq GVRs
         /\ groups' \in [Groups -> Seq(GVRs)]
         /\ storageRegistry' \in [GVRs -> Storages]
<1>1. /\ resources \subseteq GVRs /\ pending \subseteq GVRs
      /\ groups \in [Groups -> Seq(GVRs)]
      /\ storageRegistry \in [GVRs -> Storages]
      /\ \A g \in GVRs : info[g].storage \in Storages
  BY DEF StartInv, TypeOK, Infos
<1>2. CASE Register
  <2>1. /\ stage \in {"build", "register"}
        /\ UNCHANGED <<pending, storageRegistry>>
        /\ \/ UNCHANGED <<resources, groups>>
           \/ /\ resources' = resources \cup {GVR(Current)}
              /\ groups' = [groups EXCEPT ![Current.group] =
                              Append(@, GVR(Current))]
    BY <1>2 DEF Register, registry, Listed
  <2>2. GVR(Current) \in GVRs /\ Current.group \in Groups
    BY <2>1, Underway1
  <2>3. PICK g, gv : g = GVR(Current) /\ gv = Current.group OBVIOUS
  <2>4. g \in GVRs /\ gv \in Groups BY <2>2, <2>3
  <2>5. CASE UNCHANGED <<resources, groups>> BY <1>1, <2>1, <2>5
  <2>6. CASE /\ resources' = resources \cup {g}
             /\ groups' = [groups EXCEPT ![gv] = Append(@, g)]
    <3>1. Append(groups[gv], g) \in Seq(GVRs) BY <1>1, <2>4
    <3>2. groups' \in [Groups -> Seq(GVRs)] BY <1>1, <2>4, <2>6, <3>1
    <3>3. QED BY <1>1, <2>1, <2>4, <2>6, <3>2
  <2>7. QED BY <2>1, <2>3, <2>5, <2>6
<1>3. CASE NextDefinition
  BY <1>1, <1>3 DEF NextDefinition, server, registry
<1>4. CASE RegisterResource
  BY <1>1, <1>4 DEF RegisterResource, registry
<1>5. CASE SetResourceRegistry
  BY <1>1, <1>5 DEF SetResourceRegistry, registry
<1>6. CASE UNCHANGED <<resources, pending, groups, storageRegistry>>
  BY <1>1, <1>6
<1>7. [Next]_vars =>
        \/ Register \/ NextDefinition \/ RegisterResource \/ SetResourceRegistry
        \/ UNCHANGED <<resources, pending, groups, storageRegistry>>
  BY Zenon
  DEF Next, Boots, vars, server, registry, NewContainerServer, Connect,
      BuildFirst, Wrap, ListenAndServe, Signal, Cancel, RunReturns, Dispatch
<1>8. QED BY <1>2, <1>3, <1>4, <1>5, <1>6, <1>7

\* And what main, its signal and its listener have come to.
LEMMA PlaceTypes ==
  ASSUME StartInv, [Next]_vars
  PROVE  /\ stage' \in Booting \cup {"install", "serving", "exited"}
         /\ next' \in DOMAIN Boot
         /\ signal' \in {"none", "sent", "taken"}
         /\ listener' \in {"off", "up", "failed"}
         /\ code' \in {"", "0", "1", "killed"}
<1>1. /\ stage \in Booting \cup {"install", "serving", "exited"}
      /\ next \in DOMAIN Boot
      /\ signal \in {"none", "sent", "taken"}
      /\ listener \in {"off", "up", "failed"}
      /\ code \in {"", "0", "1", "killed"}
  BY DEF StartInv, TypeOK, Booting
<1>2. CASE UNCHANGED vars BY <1>1, <1>2 DEF vars, life
<1>3. CASE Boots
  <2>1. UNCHANGED <<signal, listener>> /\ code' \in {code, "1"}
        /\ (next' = next \/ NextDefinition)
        /\ stage' \in Booting \cup {"install", "serving", "exited"}
    BY <1>1, <1>3 DEF Boots, Booting, life, GoOn, Abort, FactoryFails,
       NewContainerServer, Connect, BuildFirst, Wrap, Register, NextDefinition,
       RegisterResource, SetResourceRegistry
  <2>2. NextDefinition => next' \in DOMAIN Boot
    <3>1. DOMAIN Boot = 1..Len(Boot) /\ Len(Boot) \in Nat BY Boots1
    <3>2. NextDefinition => next' = next
                            \/ (next' = next + 1 /\ next < Len(Boot))
      BY DEF NextDefinition, More
    <3>3. next \in 1..Len(Boot) BY <1>1, <3>1
    <3>4. next < Len(Boot) => next + 1 \in 1..Len(Boot) BY <3>1, <3>3
    <3>5. QED BY <3>1, <3>2, <3>3, <3>4
  <2>3. QED BY <1>1, <2>1, <2>2
<1>4. CASE RunReturns
  BY <1>1, <1>4 DEF RunReturns, ExitCode
<1>5. CASE ListenAndServe BY <1>1, <1>5 DEF ListenAndServe
<1>6. CASE Signal BY <1>1, <1>6 DEF Signal
<1>7. CASE Cancel BY <1>1, <1>7 DEF Cancel
<1>8. CASE Dispatch BY <1>1, <1>8 DEF Dispatch, life
<1>9. QED BY <1>2, <1>3, <1>4, <1>5, <1>6, <1>7, <1>8 DEF Next

-----------------------------------------------------------------------------
(***************************************************************************)
(* Subresources, and answers.                                              *)
(***************************************************************************)

\* The definition of a GVR is the one that has it.
LEMMA DefinitionIs ==
  /\ \A d \in Definitions : Definition(GVR(d)) = d
  /\ \A g \in GVRs : Definition(g) \in Definitions /\ GVR(Definition(g)) = g
<1>1. \A d, e \in Definitions : GVR(d) = GVR(e) => d = e
  BY BootAssumption DEF Definitions
<1>2. ASSUME NEW g \in GVRs
      PROVE  Definition(g) \in Definitions /\ GVR(Definition(g)) = g
  <2>1. \E d \in Definitions : GVR(d) = g BY DEF GVRs
  <2>2. QED BY <2>1 DEF Definition
<1>3. \A d \in Definitions : GVR(d) \in GVRs BY DEF GVRs
<1>4. QED BY <1>1, <1>2, <1>3

\* No step adds a subresource that the definition does not list.
LEMMA SubsStep == ASSUME StartInv, [Next]_vars PROVE SubsListed'
<1> DEFINE g == GVR(Current)
<1>1. /\ SubsListed /\ stage \in Booting \cup {"install", "serving", "exited"}
      /\ info \in [GVRs -> Infos] /\ builder \in Infos
  BY DEF StartInv, TypeOK, Booting
<1>2. stage \in {"build", "wrap", "register"}
        => g \in GVRs /\ Definition(g) = Current
  BY Underway1, Boots1, DefinitionIs DEF Definitions
<1>3. ASSUME stage \in {"build", "register"}, Build, next' = next
      PROVE  SubsListed'
  <2>1. /\ info'[g].subs = builder.subs /\ builder'.subs = builder.subs
        /\ \A h \in GVRs \ {g} : info'[h] = info[h]
    BY <1>3, BuildMakesOne
  <2>2. \A s \in builder.subs : s.name \in Current.subs
    BY <1>1, <1>3 DEF SubsListed
  <2>3. Current' = Current BY <1>3 DEF Current
  <2>4. QED BY <1>1, <1>2, <1>3, <2>1, <2>2, <2>3 DEF SubsListed
<1>4. CASE Wrap
  <2>1. /\ stage = "wrap" /\ next' = next
        /\ info' = [info EXCEPT ![g].storage = Wrapped(info[g].storage)]
        /\ builder' = [builder EXCEPT !.subs =
             {[name |-> s, over |-> Wrapped(info[g].storage)] :
                s \in Current.subs \cap {"status"}}]
    BY <1>4 DEF Wrap
  <2>2. \A h \in GVRs : info'[h].subs = info[h].subs
    BY <1>1, <2>1 DEF Infos
  <2>3. \A s \in builder'.subs : s.name \in Current.subs
    BY <1>1, <2>1 DEF Infos
  <2>4. Current' = Current BY <2>1 DEF Current
  <2>5. QED BY <1>1, <2>2, <2>3, <2>4 DEF SubsListed
<1>5. CASE NextDefinition
  <2>1. info' = info /\ builder' = NewBuilder
    BY <1>5 DEF NextDefinition, server
  <2>2. QED BY <1>1, <2>1 DEF SubsListed, NewBuilder
<1>6. CASE /\ UNCHANGED <<info, builder, next>>
           /\ stage' \in {"build", "wrap", "register"} =>
                stage = "connect" \/ stage' = stage
  <2>1. stage = "connect" => builder.subs = {}
    BY DEF StartInv, StageOK, NewBuilder
  <2>2. Current' = Current BY <1>6 DEF Current
  <2>3. QED BY <1>1, <1>6, <2>1, <2>2 DEF SubsListed
<1>7. \/ stage \in {"build", "register"} /\ Build /\ next' = next
      \/ Wrap \/ NextDefinition
      \/ /\ UNCHANGED <<info, builder, next>>
         /\ stage' \in {"build", "wrap", "register"} =>
              stage = "connect" \/ stage' = stage
  <2>1. CASE UNCHANGED vars BY <2>1 DEF vars, server
  <2>2. CASE NewContainerServer \/ Connect
    BY <2>2 DEF NewContainerServer, Connect, GoOn, Abort, server
  <2>3. CASE BuildFirst BY <2>3 DEF BuildFirst, FactoryFails, Abort
  <2>4. CASE Register BY <2>4 DEF Register, FactoryFails, Abort
  <2>5. CASE RegisterResource \/ SetResourceRegistry
    BY <2>5 DEF RegisterResource, SetResourceRegistry, GoOn
  <2>6. CASE RunReturns \/ ListenAndServe \/ Cancel \/ Signal \/ Dispatch
    BY <2>6
    DEF RunReturns, ListenAndServe, Cancel, Signal, Dispatch, server
  <2>7. QED BY <2>1, <2>2, <2>3, <2>4, <2>5, <2>6 DEF Next, Boots
<1>8. QED BY <1>3, <1>4, <1>5, <1>6, <1>7

\* What is answered is answered by Dispatch.
LEMMA AnswerStep ==
  ASSUME StartInv, [Next]_vars, answer' # NoAnswer
  PROVE  Dispatch \/ UNCHANGED vars
<1>1. CASE Boots
  <2>1. stage # "serving"
    BY <1>1
    DEF Boots, NewContainerServer, Connect, BuildFirst, Wrap, Register,
        NextDefinition, RegisterResource, SetResourceRegistry
  <2>2. answer' = answer
    BY <1>1
    DEF Boots, NewContainerServer, Connect, BuildFirst, Wrap, Register,
        NextDefinition, RegisterResource, SetResourceRegistry
  <2>3. QED BY <2>1, <2>2 DEF StartInv, ServingAnswers
<1>2. CASE RunReturns \/ ListenAndServe \/ Cancel \/ Signal
  <2>1. answer' = NoAnswer
    BY <1>2 DEF RunReturns, ListenAndServe, Cancel, Signal, Forget
  <2>2. QED BY <2>1
<1>3. QED BY <1>1, <1>2 DEF Next

-----------------------------------------------------------------------------
(***************************************************************************)
(* Routes.                                                                 *)
(***************************************************************************)

\* What the router sees of a definition.
ServedAs(d) ==
  [group |-> d.group, resource |-> d.resource, namespaced |-> d.namespaced,
   verbs |-> d.verbs,
   subs |-> {[name |-> s.name, verbs |-> {"get", "update"}] :
               s \in info[GVR(d)].subs}]

\* What the server serves keeps its routes apart.
LEMMA ServedApart == ASSUME StartInv PROVE Apart(Served)
<1>1. resources \subseteq GVRs BY DEF StartInv, TypeOK
<1>2. ASSUME NEW i \in Served
      PROVE  \E d \in Definitions :
               /\ i.group = d.group /\ i.resource = d.resource
               /\ i.namespaced = d.namespaced /\ i.verbs = d.verbs
               /\ \A s \in i.subs : s.name \in d.subs
               /\ i = ServedAs(d)
  <2>1. PICK g \in resources :
          i = [group |-> g[1], resource |-> g[2],
               namespaced |-> Definition(g).namespaced,
               verbs |-> Definition(g).verbs,
               subs |-> {[name |-> s.name, verbs |-> {"get", "update"}] :
                           s \in info[g].subs}]
    BY DEF Served
  <2>2. Definition(g) \in Definitions /\ GVR(Definition(g)) = g
    BY <1>1, DefinitionIs
  <2>3. Definition(g).group = g[1] /\ Definition(g).resource = g[2]
    BY <2>2 DEF GVR
  <2>4. \A s \in info[g].subs : s.name \in Definition(g).subs
    BY <1>1 DEF StartInv, SubsListed
  <2>5. \A s \in i.subs : s.name \in Definition(g).subs BY <2>1, <2>4
  <2>6. i = ServedAs(Definition(g)) BY <2>1, <2>2, <2>3 DEF ServedAs
  <2>7. QED BY <2>1, <2>2, <2>3, <2>5, <2>6
<1>3. ASSUME NEW i \in Served
      PROVE  /\ i.namespaced \in BOOLEAN /\ i.resource \notin Parameters
             /\ \A s \in i.subs : s.name \notin Parameters
             /\ i.namespaced => ~ ({"list", "watch"} \subseteq i.verbs)
  BY <1>2, RoutesAssumption
<1>4. ASSUME NEW i \in Served, NEW j \in Served, i.group = j.group
      PROVE  /\ i.resource = j.resource => i = j
             /\ i.resource = "namespaces" /\ ~ i.namespaced /\ j.namespaced
                  => \A s \in i.subs : s.name # j.resource
  <2>1. PICK d \in Definitions :
          /\ i.group = d.group /\ i.resource = d.resource
          /\ i.namespaced = d.namespaced
          /\ \A s \in i.subs : s.name \in d.subs
          /\ i = ServedAs(d)
    BY <1>2
  <2>2. PICK e \in Definitions :
          /\ j.group = e.group /\ j.resource = e.resource
          /\ j.namespaced = e.namespaced
          /\ j = ServedAs(e)
    BY <1>2
  <2>3. i.resource = j.resource => i = j
    <3>1. i.resource = j.resource => GVR(d) = GVR(e)
      BY <1>4, <2>1, <2>2 DEF GVR
    <3>2. GVR(d) = GVR(e) => d = e BY DefinitionIs
    <3>3. QED BY <2>1, <2>2, <3>1, <3>2
  <2>4. QED BY <1>4, <2>1, <2>2, <2>3, RoutesAssumption
<1>5. QED BY <1>3, <1>4 DEF Apart

\* A request on a path that one resource has is answered by a route of that
\* path.
LEMMA Answering ==
  ASSUME StartInv, Dispatch, NEW i \in Served,
         NEW path, NEW n \in Nat, DOMAIN path = 1..n,
         answer'.request.group = i.group,
         Matches(path, answer'.request.tokens),
         NEW r \in InstalledRoutes(Served, i.group),
         r.method = answer'.request.method, r.path = path,
         \A s \in InstalledRoutes(Served, i.group) :
           Matches(s.path, answer'.request.tokens) => s.path = path
  PROVE  \E s \in InstalledRoutes(Served, i.group) :
           /\ s.method = answer'.request.method
           /\ Matches(s.path, answer'.request.tokens)
           /\ answer'.outcome = s.handler /\ answer'.resource = s.resource
<1> DEFINE routes == InstalledRoutes(Served, i.group)
<1>1. i.group \in Services
  <2>1. PICK g \in resources : i.group = g[1] BY DEF Served
  <2>2. Definition(g) \in Definitions /\ GVR(Definition(g)) = g
    BY DefinitionIs DEF StartInv, TypeOK
  <2>3. QED BY <2>1, <2>2 DEF Services, GVR
<1>2. PICK q \in Requests :
        \/ /\ q.group \notin Services
           /\ Outcome(q, "discovery", "") \/ Outcome(q, "notFound", "")
        \/ /\ ~ PathKnown(InstalledRoutes(Served, q.group), q.tokens)
           /\ Outcome(q, "notFound", "")
        \/ /\ Candidates(InstalledRoutes(Served, q.group), q.method,
                         q.tokens) = {}
           /\ Outcome(q, "methodNotAllowed", "")
        \/ \E s \in Candidates(InstalledRoutes(Served, q.group), q.method,
                               q.tokens) :
             Outcome(q, s.handler, s.resource)
  BY Zenon DEF Dispatch
<1>3. answer'.request = q
  <2>1. \A outcome, resource :
          Outcome(q, outcome, resource) => answer'.request = q
    BY DEF Outcome
  <2>2. QED BY <1>2, <2>1
<1>4. /\ PathKnown(routes, q.tokens)
      /\ Candidates(routes, q.method, q.tokens) # {}
  BY <1>3, Found
<1>5. PICK s \in Candidates(routes, q.method, q.tokens) :
        answer' = [request |-> q, outcome |-> s.handler,
                   resource |-> s.resource]
  BY <1>1, <1>2, <1>3, <1>4 DEF Outcome
<1>6. s \in routes /\ s.method = q.method /\ Matches(s.path, q.tokens)
  BY DEF Candidates
<1>7. QED BY <1>3, <1>5, <1>6

\* Answer a is right, whichever of the infos its request is for.
RightFor(infos, a) ==
  \A i \in infos : i.group = a.request.group =>
    \A ns, name \in {a.request.tokens[k] : k \in DOMAIN a.request.tokens} :
      Unshadowed(i, a, ns, name)

\* The paths of the API match the router's, for all namespaces and names.
LEMMA PathsMatch ==
  ASSUME NEW i, NEW sub, NEW ns, NEW name
  PROVE  /\ Matches(BasePath(i), Collection(i, ns))
         /\ Matches(ItemPath(i), Append(Collection(i, ns), name))
         /\ Matches(SubresourcePath(i, sub),
                    Collection(i, ns) \o <<name, sub>>)
         /\ \E n \in Nat : DOMAIN BasePath(i) = 1..n
         /\ \E n \in Nat : DOMAIN ItemPath(i) = 1..n
         /\ \E n \in Nat : DOMAIN SubresourcePath(i, sub) = 1..n
<1>0. Namespace \in Parameters /\ Name \in Parameters BY DEF Parameters
<1>1. CASE i.namespaced
  <2>1. /\ Collection(i, ns) = <<"namespaces", ns, i.resource>>
        /\ Append(Collection(i, ns), name)
             = <<"namespaces", ns, i.resource, name>>
        /\ Collection(i, ns) \o <<name, sub>>
             = <<"namespaces", ns, i.resource, name, sub>>
    BY <1>1, AppendedTuples, JoinedTuples DEF Collection
  <2>2. /\ BasePath(i) = <<"namespaces", Namespace, i.resource>>
        /\ ItemPath(i) = <<"namespaces", Namespace, i.resource, Name>>
        /\ SubresourcePath(i, sub)
             = <<"namespaces", Namespace, i.resource, Name, sub>>
    BY <1>1, Templates
  <2>3. Matches(BasePath(i), Collection(i, ns))
    BY <1>0, <2>1, <2>2 DEF Matches
  <2>4. Matches(ItemPath(i), Append(Collection(i, ns), name))
    BY <1>0, <2>1, <2>2 DEF Matches
  <2>5. Matches(SubresourcePath(i, sub), Collection(i, ns) \o <<name, sub>>)
    BY <1>0, <2>1, <2>2 DEF Matches
  <2>6. /\ DOMAIN BasePath(i) = 1..3 /\ DOMAIN ItemPath(i) = 1..4
        /\ DOMAIN SubresourcePath(i, sub) = 1..5
    BY <2>2
  <2>7. QED BY <2>3, <2>4, <2>5, <2>6
<1>2. CASE ~ i.namespaced
  <2>1. /\ Collection(i, ns) = <<i.resource>>
        /\ Append(Collection(i, ns), name) = <<i.resource, name>>
        /\ Collection(i, ns) \o <<name, sub>> = <<i.resource, name, sub>>
    BY <1>2, AppendedTuples, JoinedTuples DEF Collection
  <2>2. /\ BasePath(i) = <<i.resource>>
        /\ ItemPath(i) = <<i.resource, Name>>
        /\ SubresourcePath(i, sub) = <<i.resource, Name, sub>>
    BY <1>2, Templates
  <2>3. Matches(BasePath(i), Collection(i, ns))
    BY <1>0, <2>1, <2>2 DEF Matches
  <2>4. Matches(ItemPath(i), Append(Collection(i, ns), name))
    BY <1>0, <2>1, <2>2 DEF Matches
  <2>5. Matches(SubresourcePath(i, sub), Collection(i, ns) \o <<name, sub>>)
    BY <1>0, <2>1, <2>2 DEF Matches
  <2>6. /\ DOMAIN BasePath(i) = 1..1 /\ DOMAIN ItemPath(i) = 1..2
        /\ DOMAIN SubresourcePath(i, sub) = 1..3
    BY <2>2
  <2>7. QED BY <2>3, <2>4, <2>5, <2>6
<1>3. QED BY <1>1, <1>2

\* A request for the collection is answered by its verb.
LEMMA CollectionReached ==
  ASSUME StartInv, Dispatch, NEW i \in Served,
         answer'.request.group = i.group,
         NEW v \in i.verbs, NEW m, <<v, m>> \in CollectionMethods, NEW ns,
         answer'.request.method = m,
         answer'.request.tokens = Collection(i, ns)
  PROVE  answer'.outcome = v /\ answer'.resource = i.resource
<1>1. Apart(Served) BY ServedApart
<1>2. Matches(BasePath(i), answer'.request.tokens) BY PathsMatch
<1>3. PICK n \in Nat : DOMAIN BasePath(i) = 1..n BY PathsMatch
<1>4. Route(m, BasePath(i), v, i) \in InstalledRoutes(Served, i.group)
  <2>1. <<v, m>>[1] = v /\ <<v, m>>[2] = m OBVIOUS
  <2>2. QED BY <2>1, RoutesThere
<1>5. \A s \in InstalledRoutes(Served, i.group) :
        Matches(s.path, answer'.request.tokens) => ForBase(i, s)
  BY <1>1, <1>2, OnlyItsCollection
<1>6. PICK s \in InstalledRoutes(Served, i.group) :
        /\ s.method = answer'.request.method
        /\ Matches(s.path, answer'.request.tokens)
        /\ answer'.outcome = s.handler /\ answer'.resource = s.resource
  <2>1. \A s \in InstalledRoutes(Served, i.group) :
          Matches(s.path, answer'.request.tokens) => s.path = BasePath(i)
    BY <1>5 DEF ForBase
  <2>2. /\ Route(m, BasePath(i), v, i).method = m
        /\ Route(m, BasePath(i), v, i).path = BasePath(i)
    BY DEF Route
  <2>3. QED BY <1>2, <1>3, <1>4, <2>1, <2>2, Answering
<1>7. ForBase(i, s) BY <1>5, <1>6
<1>8. i.namespaced => ~ ({"list", "watch"} \subseteq i.verbs)
  BY <1>1 DEF Apart
<1>9. s.handler = v
  BY <1>6, <1>7, <1>8 DEF ForBase, CollectionMethods
<1>10. QED BY <1>6, <1>7, <1>9 DEF ForBase

\* A request for an object is answered by its verb.
LEMMA ObjectReached ==
  ASSUME StartInv, Dispatch, NEW i \in Served,
         answer'.request.group = i.group,
         NEW v \in i.verbs, NEW m, <<v, m>> \in ItemMethods, NEW ns, NEW name,
         answer'.request.method = m,
         answer'.request.tokens = Append(Collection(i, ns), name)
  PROVE  answer'.outcome = v /\ answer'.resource = i.resource
<1>1. Apart(Served) BY ServedApart
<1>2. Matches(ItemPath(i), answer'.request.tokens) BY PathsMatch
<1>3. PICK n \in Nat : DOMAIN ItemPath(i) = 1..n BY PathsMatch
<1>4. Route(m, ItemPath(i), v, i) \in InstalledRoutes(Served, i.group)
  <2>1. <<v, m>>[1] = v /\ <<v, m>>[2] = m OBVIOUS
  <2>2. QED BY <2>1, RoutesThere
<1>5. \A s \in InstalledRoutes(Served, i.group) :
        Matches(s.path, answer'.request.tokens) => ForItem(i, s)
  BY <1>1, <1>2, OnlyItsObject
<1>6. PICK s \in InstalledRoutes(Served, i.group) :
        /\ s.method = answer'.request.method
        /\ Matches(s.path, answer'.request.tokens)
        /\ answer'.outcome = s.handler /\ answer'.resource = s.resource
  <2>1. \A s \in InstalledRoutes(Served, i.group) :
          Matches(s.path, answer'.request.tokens) => s.path = ItemPath(i)
    BY <1>5 DEF ForItem
  <2>2. /\ Route(m, ItemPath(i), v, i).method = m
        /\ Route(m, ItemPath(i), v, i).path = ItemPath(i)
    BY DEF Route
  <2>3. QED BY <1>2, <1>3, <1>4, <2>1, <2>2, Answering
<1>7. ForItem(i, s) BY <1>5, <1>6
<1>8. s.handler = v BY <1>6, <1>7 DEF ForItem, ItemMethods
<1>9. QED BY <1>6, <1>7, <1>8 DEF ForItem

\* A request for a subresource is answered by that verb of the subresource.
LEMMA SubresourceReached ==
  ASSUME StartInv, Dispatch, NEW i \in Served,
         answer'.request.group = i.group,
         NEW sub \in i.subs, NEW v \in sub.verbs,
         NEW m, <<v, m>> \in SubresourceMethods, NEW ns, NEW name,
         answer'.request.method = m,
         answer'.request.tokens = Collection(i, ns) \o <<name, sub.name>>
  PROVE  /\ answer'.outcome = sub.name \o "/" \o v
         /\ answer'.resource = i.resource
<1> DEFINE path == SubresourcePath(i, sub.name)
           handler == sub.name \o "/" \o v
<1>1. Apart(Served) BY ServedApart
<1>2. Matches(path, answer'.request.tokens) BY PathsMatch
<1>3. PICK n \in Nat : DOMAIN path = 1..n BY PathsMatch
<1>4. Route(m, path, handler, i) \in InstalledRoutes(Served, i.group)
  <2>1. <<v, m>>[1] = v /\ <<v, m>>[2] = m OBVIOUS
  <2>2. QED BY <2>1, RoutesThere
<1>5. \A s \in InstalledRoutes(Served, i.group) :
        Matches(s.path, answer'.request.tokens)
        => \E u \in i.subs : u.name = sub.name /\ ForSub(i, u, s)
  BY <1>1, <1>2, OnlyItsSubresource
<1> HIDE DEF handler
<1>6. PICK s \in InstalledRoutes(Served, i.group) :
        /\ s.method = answer'.request.method
        /\ Matches(s.path, answer'.request.tokens)
        /\ answer'.outcome = s.handler /\ answer'.resource = s.resource
  <2>1. \A s \in InstalledRoutes(Served, i.group) :
          Matches(s.path, answer'.request.tokens) => s.path = path
    BY <1>5 DEF ForSub
  <2>2. /\ Route(m, path, handler, i).method = m
        /\ Route(m, path, handler, i).path = path
    BY DEF Route
  <2> HIDE DEF path
  <2>3. QED BY <1>2, <1>3, <1>4, <2>1, <2>2, Answering
<1>7. PICK u \in i.subs : u.name = sub.name /\ ForSub(i, u, s)
  BY <1>5, <1>6
<1>8. PICK k \in SubresourceMethods :
        s.method = k[2] /\ s.handler = u.name \o "/" \o k[1]
  BY <1>7 DEF ForSub
<1>9. k[1] = v BY <1>6, <1>8 DEF SubresourceMethods
<1>10. QED BY <1>6, <1>7, <1>8, <1>9 DEF ForSub, handler

\* On a path of a resource, its own verb is reached, by all steps.
LEMMA UnshadowedStep ==
  ASSUME StartInv, RoutesUnshadowed, [Next]_vars
  PROVE  RoutesUnshadowed'
<1>1. /\ RoutesUnshadowed <=> (answer = NoAnswer \/ RightFor(Served, answer))
      /\ RoutesUnshadowed' <=> (answer' = NoAnswer \/ RightFor(Served', answer'))
  BY Zenon DEF RoutesUnshadowed, RightFor, NoAnswer
<1>2. CASE answer' = NoAnswer BY <1>1, <1>2
<1>3. CASE UNCHANGED vars
  <2>1. answer' = answer /\ resources' = resources /\ info' = info
    BY <1>3 DEF vars, server, registry
  <2>2. Served' = Served BY <2>1 DEF Served
  <2>3. QED BY <1>1, <2>1, <2>2, Zenon
<1>4. CASE Dispatch
  <2>1. Served' = Served
    <3>1. resources' = resources /\ info' = info
      BY Zenon, <1>4 DEF Dispatch, server, registry
    <3>2. QED BY <3>1 DEF Served
  <2>2. RightFor(Served, answer')
    <3>1. SUFFICES ASSUME NEW i \in Served, i.group = answer'.request.group,
                          NEW ns, NEW name
          PROVE  Unshadowed(i, answer', ns, name)
      BY DEF RightFor
    <3>2. \A v \in DOMAIN CollectionVerbs :
            <<v, CollectionVerbs[v]>> \in CollectionMethods
      BY DEF CollectionVerbs, CollectionMethods
    <3>3. \A v \in DOMAIN ItemVerbs : <<v, ItemVerbs[v]>> \in ItemMethods
      BY DEF ItemVerbs, ItemMethods
    <3>4. \A s \in i.subs : \A v \in s.verbs :
            <<v, ItemVerbs[v]>> \in SubresourceMethods
      BY DEF Served, ItemVerbs, SubresourceMethods
    <3>5. ASSUME NEW v \in i.verbs \cap DOMAIN CollectionVerbs,
                 answer'.request.method = CollectionVerbs[v],
                 answer'.request.tokens = Collection(i, ns)
          PROVE  answer'.outcome = v /\ answer'.resource = i.resource
      BY <1>4, <3>1, <3>2, <3>5, CollectionReached
    <3>6. ASSUME NEW v \in i.verbs \cap DOMAIN ItemVerbs,
                 answer'.request.method = ItemVerbs[v],
                 answer'.request.tokens = Append(Collection(i, ns), name)
          PROVE  answer'.outcome = v /\ answer'.resource = i.resource
      BY <1>4, <3>1, <3>3, <3>6, ObjectReached
    <3>7. ASSUME NEW s \in i.subs, NEW v \in s.verbs,
                 answer'.request.method = ItemVerbs[v],
                 answer'.request.tokens
                   = Collection(i, ns) \o <<name, s.name>>
          PROVE  /\ answer'.outcome = s.name \o "/" \o v
                 /\ answer'.resource = i.resource
      BY <1>4, <3>1, <3>4, <3>7, SubresourceReached
    <3>8. QED BY <3>5, <3>6, <3>7, Zenon DEF Unshadowed
  <2>3. QED BY <1>1, <2>1, <2>2, Zenon
<1>5. QED BY <1>2, <1>3, <1>4, AnswerStep

-----------------------------------------------------------------------------
(***************************************************************************)
(* The invariant, and the theorems.                                        *)
(***************************************************************************)
LEMMA InitStart == Init => StartInv
<1> SUFFICES ASSUME Init PROVE StartInv
  OBVIOUS
<1>0. next = 1 /\ instances = <<>> BY Zenon DEF Init
<1>1. /\ stage = "create"
      /\ builder = NewBuilder /\ resources = {} /\ subresources = {}
      /\ pending = {}
      /\ signal = "none" /\ listener = "off" /\ code = ""
  BY Zenon DEF Init
<1>2. /\ NoStorage \in Storages /\ NewBuilder \in Infos /\ NoInfo \in Infos
      /\ NoInfo.subs = {}
  BY DEF NoStorage, NewBuilder, NoInfo, Storages, Infos, Subresources
<1>3. TypeOK
  <2>1. info \in [GVRs -> Infos] /\ storageRegistry \in [GVRs -> Storages]
    BY <1>2 DEF Init
  <2>2. groups \in [Groups -> Seq(GVRs)]
    <3>1. groups = [g \in Groups |-> <<>>] BY Zenon DEF Init
    <3>2. <<>> \in Seq(GVRs) OBVIOUS
    <3>3. QED BY <3>1, <3>2, Zenon
  <2>3. next \in DOMAIN Boot /\ instances \in Seq(GVRs)
    BY <1>0, Boots1
  <2>4. QED BY <1>0, <1>1, <1>2, <2>1, <2>2, <2>3 DEF TypeOK
<1>4. \A g \in GVRs : Unmade(g)
  <2>1. \A g \in GVRs : info[g].subs = {} BY <1>2 DEF Init
  <2>2. DOMAIN instances = {} BY <1>0
  <2>3. QED BY <2>1, <2>2 DEF Unmade, MadeFor
<1>5. Registered(0) = {} BY DEF Registered
<1>6. StageOK
  <2>1. GVR(Current) \in GVRs BY <1>0, Boots1 DEF Current
  <2>2. next - 1 = 0 BY <1>0
  <2>3. \A j \in DOMAIN Boot : Unmade(GVR(Boot[j])) BY <1>4, Boots1
  <2>4. QED BY <1>0, <1>1, <1>4, <1>5, <2>1, <2>2, <2>3 DEF StageOK, Booting
<1>7. RegistryCoherent
  <2>1. \A gv \in Groups : {g \in resources : g[1] = gv} = {} BY <1>1
  <2>2. \A gv \in Groups : groups[gv] = <<>> BY DEF Init
  <2>3. DOMAIN <<>> = {} /\ Len(<<>>) = 0 OBVIOUS
  <2>4. \A gv \in Groups : {groups[gv][k] : k \in DOMAIN groups[gv]} = {}
    BY <2>2, <2>3
  <2>5. UNION {{<<g, s.name>> : s \in info[g].subs} : g \in resources} = {}
    BY <1>1
  <2>6. QED
    BY <1>1, <2>1, <2>2, <2>3, <2>4, <2>5, FS_EmptySet DEF RegistryCoherent
<1>8. /\ OneStorageEach /\ ServesAllOrNothing /\ ExitTellsWhy
      /\ RunStartsThem /\ IsFiniteSet(resources)
  BY <1>1, FS_EmptySet
  DEF OneStorageEach, ServesAllOrNothing, ExitTellsWhy, RunStartsThem
<1>9. SubsListed /\ ServingAnswers
  <2>1. answer = NoAnswer BY Zenon DEF Init
  <2>2. \A g \in GVRs : info[g].subs = {} BY <1>2 DEF Init
  <2>3. QED BY <1>1, <2>1, <2>2 DEF SubsListed, ServingAnswers
<1>10. QED BY <1>3, <1>6, <1>7, <1>8, <1>9 DEF StartInv

LEMMA NextStart == StartInv /\ [Next]_vars => StartInv'
<1> SUFFICES ASSUME StartInv, [Next]_vars PROVE StartInv'
  OBVIOUS
<1>1. (RegistryCoherent /\ OneStorageEach /\ IsFiniteSet(resources))'
  BY RegistryStep DEF RegistryGood
<1>2. StageOK' /\ ServesAllOrNothing' /\ ExitTellsWhy' /\ RunStartsThem'
  BY StageStep, ServesStep, ExitStep
<1>3. TypeOK'
  <2>1. subresources' \subseteq GVRs \X SubNames
    <3>1. \A g \in resources' : g \in GVRs /\ info'[g].subs \subseteq Subresources
      BY MapTypes, BuildTypes DEF Infos
    <3>2. \A s \in Subresources : s.name \in SubNames BY DEF Subresources
    <3>3. \A g \in resources' : \A s \in info'[g].subs :
            <<g, s.name>> \in GVRs \X SubNames
      BY <3>1, <3>2
    <3>4. QED BY <1>1, <3>3 DEF RegistryCoherent
  <2>2. QED BY <2>1, BuildTypes, MapTypes, PlaceTypes DEF TypeOK, Booting
<1>4. ServingAnswers'
  BY AnswerStep DEF StartInv, ServingAnswers, Dispatch, vars
<1>5. QED BY <1>1, <1>2, <1>3, <1>4, SubsStep DEF StartInv

\* What each stage of the start has done, whatever main registers.
THEOREM StartInvariance == Spec => []StartInv
<1>1. QED BY InitStart, NextStart, PTL DEF Spec

\* The variables have their types; main never looks past its last definition.
THEOREM StartTypes == Spec => []TypeOK
<1>1. StartInv => TypeOK BY DEF StartInv
<1>2. QED BY <1>1, StartInvariance, PTL

\* The registry's two maps and its lists of groups agree in every state.
THEOREM RegistryIsCoherent == Spec => []RegistryCoherent
<1>1. StartInv => RegistryCoherent BY DEF StartInv
<1>2. QED BY <1>1, StartInvariance, PTL

\* However often a definition is built, one storage is made for it, and its
\* subresources are over that one.
THEOREM OneStorageIsMade == Spec => []OneStorageEach
<1>1. StartInv => OneStorageEach BY DEF StartInv
<1>2. QED BY <1>1, StartInvariance, PTL

\* The server serves every definition, each from the storage its own map
\* holds, or without a database none.
THEOREM AllOrNothing == Spec => []ServesAllOrNothing
<1>1. StartInv => ServesAllOrNothing BY DEF StartInv
<1>2. QED BY <1>1, StartInvariance, PTL

\* The exit code tells why the server stopped.
THEOREM ExitCodeTellsWhy == Spec => []ExitTellsWhy
<1>1. StartInv => ExitTellsWhy BY DEF StartInv
<1>2. QED BY <1>1, StartInvariance, PTL

\* Whatever is registered, and however the namespaces and the objects are
\* called: the request for a collection, an object or a subresource reaches
\* that resource's handler of that verb.
THEOREM RoutesStayUnshadowed == Spec => []RoutesUnshadowed
<1>1. Init => RoutesUnshadowed
  BY Zenon DEF Init, RoutesUnshadowed, NoAnswer
<1>2. StartInv /\ RoutesUnshadowed /\ [Next]_vars => RoutesUnshadowed'
  BY UnshadowedStep
<1>3. QED BY <1>1, <1>2, StartInvariance, PTL DEF Spec

=============================================================================
