---------------------------- MODULE PipelineProof -----------------------------
(*****************************************************************************)
(* What the stages of the pipeline promise, for every value of the           *)
(* constants: the download cache, the acquisition, the terrain bundle and    *)
(* the evidence of Bambu Studio.                                             *)
(*****************************************************************************)
EXTENDS ProviderCache, SourceAcquisition, BuildBundle, BambuEvidence,
        FiniteSetTheorems, TLAPS

-----------------------------------------------------------------------------
(*****************************************************************************)
(* The download cache, for any set of clients, requests and contents, any    *)
(* number of attempts and of damages.                                        *)
(*****************************************************************************)

CacheSteps   == {"idle", "looking", "invalidating", "fetching", "checking", "dropping", "placing",
                 "indexing", "reopening", "hit", "miss", "failed", "gone"}
ClientRecord == [pc : CacheSteps, wants : Identities \cup {"none"}, only : BOOLEAN,
                 tries : 0..MaxAttempts, got : Contents \cup {"none"}]
ObjectFiles  == [Contents -> {"none", "good", "bad"}]
Harms        == [Contents -> {"none", "open", "mended"}]

\* An index names only what the server sent for its request.
IndexIsServed == \A i \in Identities : index[i] \in Contents => index[i] \in served[i]

\* What a client at work knows: its request, an attempt that is left, and content
\* that the server sent for this request.
Knows(c) ==
    /\ c.pc # "idle" => c.wants \in Identities
    /\ c.pc \in {"looking", "invalidating", "fetching"} => c.tries < MaxAttempts
    /\ c.pc \in {"checking", "dropping", "placing", "indexing", "hit"} => c.got \in served[c.wants]

\* Only a harmed object is bad, and it is not good before it is mended; a mended one
\* is there, or somebody is about to place it.
HarmIsTrue(o) ==
    /\ object[o] = "bad" => harm[o] = "open"
    /\ harm[o] = "open" => object[o] # "good"
    /\ harm[o] = "mended" =>
          object[o] = "good" \/ \E k \in Clients : client[k].pc = "placing" /\ client[k].got = o

\* Nobody drops an object that was never damaged, and who has one has it still.
Unharmed(c) ==
    c.pc \in {"dropping", "hit"} /\ harm[c.got] = "none" => c.pc = "hit" /\ object[c.got] = "good"

CacheInv == /\ ProviderCacheTypeOK /\ IndexIsServed
            /\ \A o \in Contents : HarmIsTrue(o)
            /\ \A k \in Clients : Knows(client[k]) /\ Unharmed(client[k])

\* The types, with the names they have here.
LEMMA CacheTypes ==
    ProviderCacheTypeOK <=>
        /\ serves \in [Identities -> Contents]
        /\ served \in [Identities -> SUBSET Contents]
        /\ index \in [Identities -> Contents \cup {"none", "bad"}]
        /\ object \in ObjectFiles /\ client \in [Clients -> ClientRecord]
        /\ harm \in Harms /\ cacheEvents \in 0..MaxCacheEvents
  BY DEF ProviderCacheTypeOK, ClientRecord, CacheSteps, ObjectFiles, Harms

\* So after a step.
LEMMA CacheTypesAfter ==
    ASSUME /\ serves' \in [Identities -> Contents]
           /\ served' \in [Identities -> SUBSET Contents]
           /\ index' \in [Identities -> Contents \cup {"none", "bad"}]
           /\ object' \in ObjectFiles /\ client' \in [Clients -> ClientRecord]
           /\ harm' \in Harms /\ cacheEvents' \in 0..MaxCacheEvents
    PROVE  ProviderCacheTypeOK'
  BY DEF ProviderCacheTypeOK, ClientRecord, CacheSteps, ObjectFiles, Harms

\* An empty cache, and nobody at work.
LEMMA CacheInitial == CacheInit => CacheInv
  <1> SUFFICES ASSUME CacheInit PROVE CacheInv
    OBVIOUS
  <1> USE CacheAssumption
  <1>1. Idle \in ClientRecord /\ Idle.pc = "idle"
    BY DEF Idle, ClientRecord, CacheSteps
  <1>2. ProviderCacheTypeOK
    BY <1>1, CacheTypes DEF CacheInit, ObjectFiles, Harms
  <1>3. IndexIsServed /\ \A o \in Contents : HarmIsTrue(o)
    BY DEF CacheInit, IndexIsServed, HarmIsTrue
  <1>4. \A k \in Clients : Knows(client[k]) /\ Unharmed(client[k])
    BY <1>1 DEF CacheInit, Knows, Unharmed
  <1> QED
    BY <1>2, <1>3, <1>4 DEF CacheInv

\* A step of one client that changes neither the index nor what was served: it
\* suffices to look at its own record, and at the objects it leaves.
LEMMA OneClientMoves ==
    ASSUME CacheInv, NEW k \in Clients, NEW c \in ClientRecord,
           client' = [client EXCEPT ![k] = c], Knows(c),
           c.pc \in {"dropping", "hit"} /\ harm'[c.got] = "none" =>
               c.pc = "hit" /\ object'[c.got] = "good",
           UNCHANGED <<serves, served, index>>, object' \in ObjectFiles, harm' \in Harms,
           cacheEvents' \in 0..MaxCacheEvents, \A o \in Contents : HarmIsTrue(o)',
           \A o \in Contents : harm'[o] = "none" =>
               harm[o] = "none" /\ (object[o] = "good" => object'[o] = "good")
    PROVE  CacheInv'
  <1>0. ProviderCacheTypeOK /\ client \in [Clients -> ClientRecord]
    BY CacheTypes DEF CacheInv
  <1>1. ProviderCacheTypeOK'
    BY <1>0, CacheTypes, CacheTypesAfter
  <1>2. IndexIsServed'
    BY DEF CacheInv, IndexIsServed
  <1>3. ASSUME NEW j \in Clients PROVE Knows(client[j])' /\ Unharmed(client[j])'
    <2>1. CASE j = k
      <3>1. client'[j] = c
        BY <1>0, <2>1
      <3> QED
        BY <3>1 DEF Knows, Unharmed
    <2>2. CASE j # k
      <3>1. client'[j] = client[j] /\ Knows(client[j]) /\ Unharmed(client[j])
        BY <1>0, <2>2 DEF CacheInv
      <3>2. client[j].pc \in {"dropping", "hit"} => client[j].got \in Contents
        BY <1>0, <3>1, CacheTypes DEF Knows, ClientRecord
      <3> QED
        BY <3>1, <3>2 DEF Knows, Unharmed
    <2> QED
      BY <2>1, <2>2
  <1> QED
    BY <1>1, <1>2, <1>3 DEF CacheInv

\* Who moves on, and is not about to place an object, leaves the objects as they are
\* described.
LEMMA HarmStays ==
    ASSUME CacheInv, NEW k \in Clients, NEW c, client' = [client EXCEPT ![k] = c],
           client[k].pc # "placing", UNCHANGED <<object, harm>>
    PROVE  \A o \in Contents : HarmIsTrue(o)'
  <1>1. \A j \in Clients : client[j].pc = "placing" => client'[j] = client[j]
    BY CacheTypes DEF CacheInv
  <1> QED
    BY <1>1 DEF CacheInv, HarmIsTrue

\* A failed attempt is repeated while attempts are left.
LEMMA RetryMoves ==
    ASSUME CacheInv, NEW k \in Clients, RetryOrFail(k), client[k].pc # "idle"
    PROVE  LET c == client'[k]
           IN  /\ client' = [client EXCEPT ![k] = c] /\ c \in ClientRecord /\ Knows(c)
               /\ c.pc \in {"fetching", "failed"}
  <1>1. client[k] \in ClientRecord /\ client \in [Clients -> ClientRecord] /\ Knows(client[k])
    BY CacheTypes DEF CacheInv
  <1>2. PICK pc \in {"fetching", "failed"} :
           /\ client' = [client EXCEPT ![k].pc = pc]
           /\ pc = "fetching" => client[k].tries < MaxAttempts
    BY DEF RetryOrFail
  <1> QED
    BY <1>1, <1>2 DEF ClientRecord, CacheSteps, Knows

\* The steps that only read the cache.
LEMMA ReadStepKeeps ==
    ASSUME CacheInv, NEW k \in Clients,
           Download(k) \/ LookInCache(k) \/ CheckObject(k) \/ ReopenStored(k)
    PROVE  CacheInv'
  <1> USE CacheAssumption
  <1> DEFINE c == client'[k]
  <1>0. /\ client[k] \in ClientRecord /\ client \in [Clients -> ClientRecord]
        /\ Knows(client[k]) /\ IndexIsServed
        /\ index \in [Identities -> Contents \cup {"none", "bad"}]
        /\ object \in ObjectFiles /\ harm \in Harms /\ cacheEvents \in 0..MaxCacheEvents
        /\ served \in [Identities -> SUBSET Contents]
    BY CacheTypes DEF CacheInv
  <1>1. /\ UNCHANGED <<serves, served, index, object, harm, cacheEvents>>
        /\ client[k].pc \in {"idle", "looking", "checking", "reopening"}
    BY DEF Download, LookInCache, CheckObject, ReopenStored, At
  <1>2. /\ client' = [client EXCEPT ![k] = c] /\ c \in ClientRecord /\ Knows(c)
        /\ c.pc = "hit" => object[c.got] = "good"
        /\ c.pc = "dropping" => c.got \in Contents /\ object[c.got] = "bad"
    <2>1. CASE Download(k)
      <3>1. PICK i \in Identities, only \in BOOLEAN :
               client' = [client EXCEPT ![k] = [Idle EXCEPT !.pc = "looking", !.wants = i,
                                                            !.only = only]]
        BY <2>1 DEF Download
      <3> DEFINE d == [Idle EXCEPT !.pc = "looking", !.wants = i, !.only = only]
      <3>2. Idle \in ClientRecord /\ Idle.tries = 0
        BY DEF Idle, ClientRecord, CacheSteps
      <3>3. d \in ClientRecord /\ d.pc = "looking" /\ d.wants = i /\ d.tries = 0
        BY <3>2 DEF ClientRecord, CacheSteps
      <3> HIDE DEF d
      <3>4. client' = [client EXCEPT ![k] = d] /\ c = d
        BY <1>0, <3>1 DEF d
      <3>5. Knows(d)
        BY <3>3 DEF Knows
      <3> QED
        BY <3>3, <3>4, <3>5
    <2>2. CASE LookInCache(k)
      <3>1. client[k].pc = "looking" /\ client[k].wants \in Identities /\ client[k].tries < MaxAttempts
        BY <1>0, <2>2 DEF LookInCache, At, Knows
      <3>2. PICK pc \in {"hit", "miss", "invalidating", "fetching"},
                 got \in Contents \cup {"none"} :
              /\ client' = [client EXCEPT ![k].pc = pc, ![k].got = got]
              /\ pc = "hit" => got = index[client[k].wants] /\ index[client[k].wants] \in Contents
                               /\ object[index[client[k].wants]] = "good"
        BY <1>0, <2>2, <3>1 DEF LookInCache, Lookup, Want
      <3>3. c = [client[k] EXCEPT !.pc = pc, !.got = got]
        BY <1>0, <3>2
      <3>4. /\ c \in ClientRecord /\ c.pc = pc /\ c.got = got /\ c.wants = client[k].wants
            /\ c.tries = client[k].tries
        BY <1>0, <3>3 DEF ClientRecord, CacheSteps
      <3>5. client' = [client EXCEPT ![k] = c]
        BY <1>0, <3>2, <3>3
      <3> HIDE DEF c
      <3> QED
        BY <1>0, <3>1, <3>2, <3>4, <3>5 DEF Knows, IndexIsServed
    <2>3. CASE CheckObject(k)
      BY <1>0, <2>3 DEF CheckObject, At, To, Got, Knows, ClientRecord, CacheSteps
    <2>4. CASE ReopenStored(k)
      <3>1. CASE RetryOrFail(k)
        BY <2>4, <3>1, RetryMoves DEF ReopenStored, At
      <3>2. CASE /\ client' = [client EXCEPT ![k].pc = "hit", ![k].got = index[Want(k)]]
                 /\ Lookup(Want(k)) = "hit"
        <4>1. /\ client[k].wants \in Identities /\ index[client[k].wants] \in Contents
              /\ object[index[client[k].wants]] = "good"
          BY <1>0, <2>4, <3>2 DEF ReopenStored, Lookup, At, Want, Knows
        <4> QED
          BY <1>0, <3>2, <4>1 DEF Want, Knows, IndexIsServed, ClientRecord, CacheSteps
      <3> QED
        BY <2>4, <3>1, <3>2 DEF ReopenStored
    <2> QED
      BY <2>1, <2>2, <2>3, <2>4
  <1> HIDE DEF c
  <1>3. c.pc \in {"dropping", "hit"} /\ harm'[c.got] = "none" => c.pc = "hit" /\ object'[c.got] = "good"
    BY <1>1, <1>2 DEF CacheInv, HarmIsTrue
  <1>4. \A o \in Contents : HarmIsTrue(o)'
    BY <1>1, <1>2, HarmStays
  <1> QED
    BY <1>0, <1>1, <1>2, <1>3, <1>4, OneClientMoves

\* The steps that write an object, or that leave the cache on an error.
LEMMA ObjectStepKeeps ==
    ASSUME CacheInv, NEW k \in Clients,
           DropObject(k) \/ PlaceObject(k) \/ StoreFails(k) \/ DownloadDies(k)
    PROVE  CacheInv'
  <1> USE CacheAssumption
  <1> DEFINE c == client'[k]
             got == client[k].got
  <1>0. /\ client[k] \in ClientRecord /\ client \in [Clients -> ClientRecord]
        /\ Knows(client[k]) /\ Unharmed(client[k])
        /\ object \in ObjectFiles /\ harm \in Harms /\ cacheEvents \in 0..MaxCacheEvents
        /\ served \in [Identities -> SUBSET Contents]
        /\ \A o \in Contents : HarmIsTrue(o)
    BY CacheTypes DEF CacheInv
  <1>1. /\ UNCHANGED <<serves, served, index>> /\ cacheEvents' \in 0..MaxCacheEvents
        /\ client[k].pc # "idle"
    BY <1>0 DEF DropObject, PlaceObject, StoreFails, DownloadDies, CacheEvent, At
  <1>2. /\ client' = [client EXCEPT ![k] = c] /\ c \in ClientRecord /\ Knows(c)
        /\ c.pc \notin {"dropping", "hit"}
    <2>1. CASE RetryOrFail(k)
      BY <1>1, <2>1, RetryMoves
    <2>2. CASE \E pc \in {"placing", "indexing", "gone"} :
                  /\ To(k, pc) /\ (pc # "gone" => client[k].pc \in {"dropping", "placing"})
      <3>1. PICK pc \in {"placing", "indexing", "gone"} :
                  /\ To(k, pc) /\ (pc # "gone" => client[k].pc \in {"dropping", "placing"})
        BY <2>2
      <3>2. c = [client[k] EXCEPT !.pc = pc] /\ client' = [client EXCEPT ![k] = c]
        BY <1>0, <3>1 DEF To
      <3> QED
        BY <1>0, <1>1, <3>1, <3>2 DEF Knows, ClientRecord, CacheSteps
    <2>3. CASE DropObject(k)
      BY <2>1, <2>2, <2>3 DEF DropObject, At
    <2>4. CASE PlaceObject(k)
      BY <2>2, <2>4 DEF PlaceObject, At
    <2>5. CASE StoreFails(k)
      BY <2>1, <2>5 DEF StoreFails
    <2>6. CASE DownloadDies(k)
      BY <2>2, <2>6 DEF DownloadDies
    <2> QED
      BY <2>3, <2>4, <2>5, <2>6
  <1>4. client[k].pc \in {"dropping", "placing"} => got \in Contents
    BY <1>0 DEF Knows, ClientRecord
  <1>5. \A j \in Clients : j # k => client'[j] = client[j]
    BY <1>0, <1>2
  <1>6. /\ object' \in ObjectFiles /\ harm' \in Harms /\ \A o \in Contents : HarmIsTrue(o)'
        /\ \A o \in Contents : harm'[o] = "none" =>
               harm[o] = "none" /\ (object[o] = "good" => object'[o] = "good")
    <2>1. CASE DropObject(k)
      <3>1. client[k].pc = "dropping" /\ got \in Contents /\ harm[got] # "none" /\ UNCHANGED harm
        BY <1>0, <1>4, <2>1 DEF DropObject, At, Unharmed
      <3>2. CASE UNCHANGED object
        BY <1>0, <1>2, <3>1, <3>2, HarmStays
      <3>3. CASE object' = [object EXCEPT ![got] = "none"] /\ To(k, "placing")
        <4>1. /\ object' \in ObjectFiles
              /\ \A o \in Contents : object'[o] = IF o = got THEN "none" ELSE object[o]
          BY <1>0, <3>1, <3>3 DEF ObjectFiles
        <4>2. client'[k].pc = "placing" /\ client'[k].got = got
          BY <1>0, <3>3 DEF To, ClientRecord
        <4>3. \A j \in Clients : client[j].pc = "placing" => client'[j] = client[j]
          BY <1>5, <3>1
        <4>4. \A o \in Contents : HarmIsTrue(o)'
          BY <1>0, <3>1, <4>1, <4>2, <4>3 DEF HarmIsTrue
        <4> QED
          BY <1>0, <3>1, <4>1, <4>4
      <3> QED
        BY <2>1, <3>2, <3>3 DEF DropObject, Got
    <2>2. CASE PlaceObject(k)
      <3>1. client[k].pc = "placing" /\ got \in Contents
        BY <1>4, <2>2 DEF PlaceObject, At
      <3>2. CASE UNCHANGED <<object, harm>> /\ object[got] # "none"
        <4>1. ASSUME NEW o \in Contents, HarmIsTrue(o) PROVE HarmIsTrue(o)'
          <5>1. CASE o = got
            BY <1>0, <3>2, <4>1, <5>1 DEF HarmIsTrue, ObjectFiles
          <5>2. CASE o # got
            <6>1. \A j \in Clients : client[j].got = o => client'[j] = client[j]
              BY <1>5, <5>2
            <6> QED
              BY <3>2, <4>1, <6>1 DEF HarmIsTrue
          <5> QED
            BY <5>1, <5>2
        <4> QED
          BY <1>0, <3>2, <4>1
      <3>3. CASE /\ object' = [object EXCEPT ![got] = "good"]
                 /\ harm' = [harm EXCEPT ![got] = IF @ = "none" THEN @ ELSE "mended"]
        <4>1. /\ object' \in ObjectFiles /\ harm' \in Harms
              /\ \A o \in Contents : object'[o] = IF o = got THEN "good" ELSE object[o]
              /\ \A o \in Contents : o # got => harm'[o] = harm[o]
              /\ harm'[got] = IF harm[got] = "none" THEN "none" ELSE "mended"
          BY <1>0, <3>1, <3>3 DEF ObjectFiles, Harms
        <4>2. ASSUME NEW o \in Contents, HarmIsTrue(o) PROVE HarmIsTrue(o)'
          <5>1. CASE o = got
            BY <4>1, <5>1 DEF HarmIsTrue
          <5>2. CASE o # got
            <6>1. \A j \in Clients : client[j].got = o => client'[j] = client[j]
              BY <1>5, <5>2
            <6> QED
              BY <4>1, <4>2, <5>2, <6>1 DEF HarmIsTrue
          <5> QED
            BY <5>1, <5>2
        <4> QED
          BY <1>0, <4>1, <4>2
      <3> QED
        BY <2>2, <3>2, <3>3 DEF PlaceObject, Got
    <2>3. CASE StoreFails(k) \/ DownloadDies(k)
      <3>1. Abandons(k) /\ UNCHANGED object
        BY <2>3 DEF StoreFails, DownloadDies
      <3>2. \A o \in Contents :
               harm'[o] = IF client[k].pc = "placing" /\ o = got /\ object[o] = "none"
                             /\ harm[o] = "mended" THEN "open" ELSE harm[o]
        BY <3>1 DEF Abandons, At, Got
      <3>3. harm' \in Harms
        BY <1>0, <3>1 DEF Abandons, Harms
      <3>4. ASSUME NEW o \in Contents, HarmIsTrue(o) PROVE HarmIsTrue(o)'
        <4>1. CASE client[k].pc = "placing" /\ o = got
          BY <1>0, <3>1, <3>2, <3>4, <4>1 DEF HarmIsTrue, ObjectFiles
        <4>2. CASE ~ (client[k].pc = "placing" /\ o = got)
          <5>1. \A j \in Clients : client[j].pc = "placing" /\ client[j].got = o =>
                                      client'[j] = client[j]
            BY <1>5, <4>2
          <5> QED
            BY <3>1, <3>2, <3>4, <4>2, <5>1 DEF HarmIsTrue
        <4> QED
          BY <4>1, <4>2
      <3> QED
        BY <1>0, <3>1, <3>2, <3>3, <3>4
    <2> QED
      BY <2>1, <2>2, <2>3
  <1> HIDE DEF c
  <1> QED
    BY <1>1, <1>2, <1>6, OneClientMoves

\* An answer of the server only adds to what was served.
LEMMA FetchKeeps ==
    ASSUME CacheInv, NEW k \in Clients, Fetch(k) PROVE CacheInv'
  <1> USE CacheAssumption
  <1> DEFINE c == client'[k]
  <1>0. /\ client[k] \in ClientRecord /\ client \in [Clients -> ClientRecord]
        /\ Knows(client[k]) /\ IndexIsServed
        /\ serves \in [Identities -> Contents] /\ served \in [Identities -> SUBSET Contents]
        /\ index \in [Identities -> Contents \cup {"none", "bad"}]
        /\ object \in ObjectFiles /\ harm \in Harms /\ cacheEvents \in 0..MaxCacheEvents
    BY CacheTypes DEF CacheInv
  <1>1. /\ client[k].pc = "fetching" /\ client[k].wants \in Identities
        /\ client[k].tries + 1 \in 0..MaxAttempts
        /\ UNCHANGED <<serves, index, object, harm>>
    BY <1>0 DEF Fetch, At, Knows, ClientRecord
  <1>2. CASE served' = [served EXCEPT ![Want(k)] = @ \cup {serves[Want(k)]}]
             /\ client' = [client EXCEPT ![k].pc = "checking", ![k].tries = client[k].tries + 1,
                                         ![k].got = serves[Want(k)]]
             /\ UNCHANGED cacheEvents
    <2>1. /\ client' = [client EXCEPT ![k] = c] /\ c \in ClientRecord /\ c.pc = "checking"
          /\ c.wants = client[k].wants /\ c.got = serves[c.wants]
      BY <1>0, <1>1, <1>2 DEF Want, ClientRecord, CacheSteps
    <2> HIDE DEF c
    <2>2. /\ served' \in [Identities -> SUBSET Contents]
          /\ \A i \in Identities : served[i] \subseteq served'[i]
          /\ serves[c.wants] \in served'[c.wants]
      BY <1>0, <1>1, <1>2, <2>1 DEF Want
    <2>3. client' \in [Clients -> ClientRecord] /\ client'[k] = c
          /\ \A j \in Clients : j # k => client'[j] = client[j]
      BY <1>0, <2>1
    <2>4. ProviderCacheTypeOK'
      BY <1>0, <1>1, <1>2, <2>2, <2>3, CacheTypesAfter
    <2>5. IndexIsServed'
      BY <1>0, <1>1, <2>2 DEF IndexIsServed
    <2>6. \A o \in Contents : HarmIsTrue(o)'
      BY <1>1, <2>1, HarmStays
    <2>7. ASSUME NEW j \in Clients PROVE Knows(client[j])' /\ Unharmed(client[j])'
      <3>1. CASE j = k
        BY <1>1, <2>1, <2>2, <2>3, <3>1 DEF Knows, Unharmed
      <3>2. CASE j # k
        <4>1. client'[j] = client[j] /\ Knows(client[j]) /\ Unharmed(client[j])
          BY <2>3, <3>2 DEF CacheInv
        <4> QED
          BY <1>1, <2>2, <4>1 DEF Knows, Unharmed
      <3> QED
        BY <3>1, <3>2
    <2> QED
      BY <2>4, <2>5, <2>6, <2>7 DEF CacheInv
  <1>3. CASE UNCHANGED served /\ CacheEvent
             /\ \E step \in {"fetching", "failed"} :
                   client' = [client EXCEPT ![k].tries = client[k].tries + 1,
                                 ![k].pc = IF client[k].tries + 1 < MaxAttempts THEN step
                                           ELSE "failed"]
    <2>1. /\ client' = [client EXCEPT ![k] = c] /\ c \in ClientRecord /\ Knows(c)
          /\ c.pc \notin {"dropping", "hit"}
      <3>2. PICK pc \in {"fetching", "failed"} :
               /\ client' = [client EXCEPT ![k].tries = client[k].tries + 1, ![k].pc = pc]
               /\ pc = "fetching" => client[k].tries + 1 < MaxAttempts
        BY <1>3
      <3> DEFINE d == [client[k] EXCEPT !.tries = client[k].tries + 1, !.pc = pc]
      <3>3. d \in ClientRecord /\ d.wants \in Identities /\ d.pc = pc
            /\ d.tries = client[k].tries + 1
        BY <1>0, <1>1 DEF ClientRecord, CacheSteps
      <3>4. client' = [client EXCEPT ![k] = d] /\ client'[k] = d
        BY <1>0, <3>2
      <3> QED
        BY <3>2, <3>3, <3>4 DEF Knows
    <2> HIDE DEF c
    <2>2. cacheEvents' \in 0..MaxCacheEvents
      BY <1>0, <1>3 DEF CacheEvent
    <2>3. \A o \in Contents : HarmIsTrue(o)'
      BY <1>1, <2>1, HarmStays
    <2> QED
      BY <1>0, <1>1, <1>3, <2>1, <2>2, <2>3, OneClientMoves
  <1> QED
    BY <1>2, <1>3 DEF Fetch

\* The index is written with content that was served for its request.
LEMMA IndexStepKeeps ==
    ASSUME CacheInv, NEW k \in Clients, Invalidate(k) \/ WriteIndex(k) PROVE CacheInv'
  <1>0. /\ client \in [Clients -> ClientRecord] /\ client[k] \in ClientRecord
        /\ index \in [Identities -> Contents \cup {"none", "bad"}]
        /\ ProviderCacheTypeOK /\ IndexIsServed
        /\ \A j \in Clients : Knows(client[j]) /\ Unharmed(client[j])
    BY CacheTypes DEF CacheInv
  <1>1. UNCHANGED <<serves, served, object, harm, cacheEvents>>
    BY DEF Invalidate, WriteIndex
  <1>2. PICK pc \in {"fetching", "reopening"} :
           /\ client' = [client EXCEPT ![k].pc = pc]
           /\ client[k].pc = IF pc = "fetching" THEN "invalidating" ELSE "indexing"
    BY DEF Invalidate, WriteIndex, At, To
  <1>3. /\ client' = [client EXCEPT ![k] = [client[k] EXCEPT !.pc = pc]]
        /\ client' \in [Clients -> ClientRecord]
    <2>1. [client[k] EXCEPT !.pc = pc] \in ClientRecord
      BY <1>0 DEF ClientRecord, CacheSteps
    <2>2. client' = [client EXCEPT ![k] = [client[k] EXCEPT !.pc = pc]]
      BY <1>0, <1>2
    <2> QED
      BY <1>0, <2>1, <2>2
  <1>4. /\ index' \in [Identities -> Contents \cup {"none", "bad"}]
        /\ \A i \in Identities : index'[i] \in Contents => index'[i] \in served[i]
    <2>1. CASE Invalidate(k)
      BY <1>0, <2>1, CacheAssumption DEF Invalidate, IndexIsServed
    <2>2. CASE WriteIndex(k)
      <3>1. /\ index' = [index EXCEPT ![client[k].wants] = client[k].got]
            /\ client[k].pc = "indexing"
        BY <2>2 DEF WriteIndex, At, Want, Got
      <3>2. client[k].wants \in Identities /\ client[k].got \in served[client[k].wants]
        BY <1>0, <3>1 DEF Knows
      <3>3. served \in [Identities -> SUBSET Contents]
        BY <1>0, CacheTypes
      <3> QED
        BY <1>0, <3>1, <3>2, <3>3 DEF IndexIsServed
    <2> QED
      BY <2>1, <2>2
  <1>5. ProviderCacheTypeOK' /\ IndexIsServed'
    BY <1>0, <1>1, <1>3, <1>4, CacheTypes, CacheTypesAfter DEF IndexIsServed
  <1>6. \A o \in Contents : HarmIsTrue(o)'
    BY <1>1, <1>2, <1>3, HarmStays
  <1>7. \A j \in Clients : Knows(client[j])' /\ Unharmed(client[j])'
    BY <1>0, <1>1, <1>2 DEF Knows, Unharmed
  <1> QED
    BY <1>5, <1>6, <1>7 DEF CacheInv

\* Damage and the server touch no client.
LEMMA OutsideKeeps ==
    ASSUME CacheInv, DamageCache \/ ServerChanges PROVE CacheInv'
  <1>0. /\ ProviderCacheTypeOK /\ object \in ObjectFiles /\ harm \in Harms
        /\ \A o \in Contents : HarmIsTrue(o)
        /\ \A k \in Clients : Knows(client[k]) /\ Unharmed(client[k])
    BY CacheTypes DEF CacheInv
  <1>1. UNCHANGED <<served, client>> /\ cacheEvents' \in 0..MaxCacheEvents
    BY CacheTypes, CacheAssumption DEF CacheInv, DamageCache, ServerChanges, CacheEvent
  <1>2. serves' \in [Identities -> Contents]
    BY CacheTypes DEF CacheInv, DamageCache, ServerChanges
  <1>3. /\ index' \in [Identities -> Contents \cup {"none", "bad"}]
        /\ \A i \in Identities : index'[i] \in Contents => index'[i] = index[i]
    <2>1. index \in [Identities -> Contents \cup {"none", "bad"}]
      BY <1>0, CacheTypes
    <2>2. CASE UNCHANGED index
      BY <2>1, <2>2
    <2>3. CASE \E i \in Identities : index' = [index EXCEPT ![i] = "bad"]
      BY <2>1, <2>3, CacheAssumption
    <2> QED
      BY <2>2, <2>3 DEF DamageCache, ServerChanges
  <1>4. IndexIsServed'
    BY <1>1, <1>3 DEF CacheInv, IndexIsServed
  <1>5. CASE UNCHANGED <<object, harm>>
    <2>1. ProviderCacheTypeOK'
      BY <1>0, <1>1, <1>2, <1>3, <1>5, CacheTypes, CacheTypesAfter
    <2> QED
      BY <1>0, <1>1, <1>4, <1>5, <2>1 DEF CacheInv, HarmIsTrue, Knows, Unharmed
  <1>6. CASE \E o \in Contents, now \in {"bad", "none"} :
                /\ object' = [object EXCEPT ![o] = now] /\ harm' = [harm EXCEPT ![o] = "open"]
    <2>1. PICK o \in Contents, now \in {"bad", "none"} :
             /\ object' = [object EXCEPT ![o] = now] /\ harm' = [harm EXCEPT ![o] = "open"]
      BY <1>6
    <2>2. /\ object' \in ObjectFiles /\ harm' \in Harms
          /\ object'[o] = now /\ harm'[o] = "open"
          /\ \A p \in Contents : p # o => object'[p] = object[p] /\ harm'[p] = harm[p]
      BY <1>0, <2>1 DEF ObjectFiles, Harms
    <2>3. \A p \in Contents : HarmIsTrue(p)'
      BY <1>0, <1>1, <2>2 DEF HarmIsTrue
    <2>4. ASSUME NEW k \in Clients PROVE Knows(client[k])' /\ Unharmed(client[k])'
      <3>1. Knows(client[k]) /\ Unharmed(client[k])
        BY <1>0
      <3>2. client[k].pc \in {"dropping", "hit"} => client[k].got \in Contents
        BY <3>1, CacheTypes DEF CacheInv, Knows, ClientRecord
      <3> QED
        BY <1>1, <2>2, <3>1, <3>2 DEF Knows, Unharmed
    <2>5. ProviderCacheTypeOK'
      BY <1>0, <1>1, <1>2, <1>3, <2>2, CacheTypes, CacheTypesAfter
    <2> QED
      BY <1>4, <2>3, <2>4, <2>5 DEF CacheInv
  <1> QED
    BY <1>5, <1>6 DEF DamageCache, ServerChanges

\* A download returns what the server sent for its request, and it is there or about
\* to be again.
LEMMA CacheInvImplies == CacheInv => DownloadsStay
  <1> SUFFICES ASSUME CacheInv, NEW k \in Clients, At(k, "hit")
               PROVE  /\ Got(k) \in served[Want(k)]
                      /\ \/ object[Got(k)] = "good" \/ harm[Got(k)] = "open"
                         \/ /\ harm[Got(k)] = "mended"
                            /\ \E other \in Clients : At(other, "placing") /\ Got(other) = Got(k)
    BY DEF DownloadsStay
  <1>1. /\ Knows(client[k]) /\ Unharmed(client[k]) /\ client[k] \in ClientRecord
        /\ served \in [Identities -> SUBSET Contents] /\ harm \in Harms
    BY CacheTypes DEF CacheInv
  <1>2. client[k].got \in served[client[k].wants] /\ client[k].got \in Contents
    BY <1>1 DEF Knows, At
  <1>3. HarmIsTrue(client[k].got) /\ harm[client[k].got] \in {"none", "open", "mended"}
    BY <1>1, <1>2 DEF CacheInv, Harms
  <1> QED
    BY <1>1, <1>2, <1>3 DEF Unharmed, HarmIsTrue, At, Got, Want

\* Whatever clients download at the same time, whatever is damaged or taken away
\* and whoever fails or dies meanwhile: a download returns only what the server sent
\* for its request; no client takes away an object that was never damaged from
\* outside, and who unlinks one that was mended meanwhile is about to place it again
\* (CachingHttpClient.download; ContentAddressedCache.lookup, store, invalidate).
THEOREM DownloadsStayHolds == CacheSpec => [](ProviderCacheTypeOK /\ DownloadsStay)
  <1>1. CacheInv /\ [CacheNext]_cacheVars => CacheInv'
    <2> SUFFICES ASSUME CacheInv, [CacheNext]_cacheVars PROVE CacheInv'
      OBVIOUS
    <2>1. CASE CacheNext
      BY <2>1, ReadStepKeeps, ObjectStepKeeps, FetchKeeps, IndexStepKeeps, OutsideKeeps
      DEF CacheNext, ClientStep
    <2>2. CASE UNCHANGED cacheVars
      BY <2>2 DEF cacheVars, CacheInv, ProviderCacheTypeOK, IndexIsServed, Knows, HarmIsTrue,
         Unharmed
    <2> QED
      BY <2>1, <2>2
  <1>2. CacheInv => ProviderCacheTypeOK /\ DownloadsStay
    BY CacheInvImplies DEF CacheInv
  <1> QED
    BY CacheInitial, <1>1, <1>2, PTL DEF CacheSpec

-----------------------------------------------------------------------------
(*****************************************************************************)
(* The acquisition, for any ranking of providers, any masks and any number   *)
(* of faults.                                                                *)
(*****************************************************************************)

Attempt == [provider : Providers, status : Statuses]
Mine    == [by |-> Current, whole |-> TRUE]
Sealed  == {"copying", "verifying", "cleaning", "acquired"}

\* Providers were tried in the order of their rank, and all but the last failed.
TriedInOrder ==
    /\ Len(attempts) <= Len(ranked)
    /\ apc = "evaluating" => attempts = <<>>
    /\ apc = "fetching" => Len(attempts) < Len(ranked)
    /\ apc \notin {"evaluating", "none_eligible", "fetching"} => attempts # <<>>
    /\ \A i \in 1..Len(attempts) :
          /\ attempts[i].provider = ranked[i]
          /\ i < Len(attempts) \/ apc = "fetching" => attempts[i].status = "failed"
    /\ apc \in Sealed => Last(attempts).status = "selected"

\* A running fetch writes the raster first and the manifest last, and what it has
\* written is its own.
FetchIsOwn ==
    /\ apc \in {"writing", "unlinking"} => before = {}
    /\ apc = "writing" =>
          /\ plan # <<>> /\ Last(plan) = "manifest"
          /\ \A i \in 1..Len(plan) - 1 : plan[i] # "manifest"
          /\ "raster" \notin written => Len(plan) > 1 /\ Head(plan) = "raster"
          /\ \A f \in written : drop[f] = Mine

\* The hashes of a manifest that is trusted are those of the fetch that wrote it.
SealIsOwn ==
    /\ apc \in {"writing", "tracing"} => \A f \in Exists(seal) : seal[f] = Mine
    /\ apc = "tracing" => seal["raster"] = Mine
    /\ apc \in Sealed =>
          \/ seal = Empty
          \/ /\ seal["raster"] = Mine /\ seal["manifest"] = Mine
             /\ \A f \in Exists(seal) : seal[f] = Mine
    /\ apc \in {"verifying", "cleaning", "acquired"} => snapshot["manifest"].whole
    /\ apc \in {"cleaning", "acquired"} => snapshot = seal

\* Between two fetches no provider has a file in the drop.
NothingLeft ==
    /\ apc \in {"evaluating", "fetching", "all_failed"} => \A f \in Files : drop[f].by \notin Providers
    /\ apc = "judging" => \A f \in before : drop[f].by \notin Providers

AcquisitionInv ==
    /\ SourceAcquisitionTypeOK /\ TriedInOrder /\ FetchIsOwn /\ SealIsOwn /\ NothingLeft

-----------------------------------------------------------------------------
(* Sequences *)

\* The masks on offer, one after the other.
LEMMA SetToSeqOfMasks ==
    ASSUME NEW offered \in SUBSET Masks PROVE SetToSeq(offered) \in Seq(Masks)
  <1>1. IsFiniteSet(offered)
    BY AcquisitionAssumption, FS_Subset
  <1>2. PICK n \in Nat : ExistsBijection(1..n, offered)
    BY <1>1, FS_NatBijection
  <1>3. Cardinality(offered) = n
    BY <1>2, FS_CountingElements
  <1>4. \E f \in [1..Cardinality(offered) -> offered] : IsInjective(f)
    BY <1>2, <1>3 DEF ExistsBijection, Bijection, Injection, Surjection, IsInjective
  <1>5. SetToSeq(offered) \in [1..Cardinality(offered) -> offered]
    BY <1>4 DEF SetToSeq
  <1> QED
    BY <1>3, <1>5

\* What the concatenation of two sequences holds, and where.
LEMMA Concatenation ==
    ASSUME NEW S, NEW a \in Seq(S), NEW b \in Seq(S)
    PROVE  /\ a \o b \in Seq(S) /\ Len(a \o b) = Len(a) + Len(b)
           /\ \A i \in 1..Len(a) : (a \o b)[i] = a[i]
           /\ \A i \in 1..Len(b) : (a \o b)[Len(a) + i] = b[i]
  OBVIOUS

\* The raster is written first, the manifest last and only then.
LEMMA PlanOfFetch ==
    ASSUME NEW offered \in SUBSET Masks
    PROVE  LET p == <<"raster">> \o SetToSeq(offered) \o <<"manifest">> IN
           /\ p \in Seq(Files) /\ p # <<>> /\ Len(p) > 1
           /\ Last(p) = "manifest" /\ Head(p) = "raster"
           /\ \A i \in 1..Len(p) - 1 : p[i] # "manifest"
  <1> DEFINE s == SetToSeq(offered)
             first == <<"raster">>
             last  == <<"manifest">>
             p == first \o s \o last
  <1>1. /\ s \in Seq(Files) /\ Len(s) \in Nat /\ \A i \in 1..Len(s) : s[i] \in Masks
        /\ "manifest" \notin Masks
    BY SetToSeqOfMasks, AcquisitionAssumption DEF Files
  <1>2. /\ first \in Seq(Files) /\ last \in Seq(Files) /\ Len(first) = 1 /\ Len(last) = 1
        /\ first[1] = "raster" /\ last[1] = "manifest"
    BY DEF Files
  <1> DEFINE fs == first \o s
  <1> HIDE DEF s, first, last
  <1>3. /\ fs \in Seq(Files) /\ Len(fs) = Len(first) + Len(s)
        /\ \A i \in 1..Len(first) : fs[i] = first[i]
        /\ \A i \in 1..Len(s) : fs[Len(first) + i] = s[i]
    BY <1>1, <1>2, Concatenation
  <1> HIDE DEF fs
  <1>4. /\ fs \o last \in Seq(Files) /\ Len(fs \o last) = Len(fs) + Len(last)
        /\ \A i \in 1..Len(fs) : (fs \o last)[i] = fs[i]
        /\ \A i \in 1..Len(last) : (fs \o last)[Len(fs) + i] = last[i]
    BY <1>2, <1>3, Concatenation
  <1>5. p = fs \o last
    BY DEF fs
  <1> HIDE DEF p
  <1>6. Len(p) = Len(s) + 2 /\ p \in Seq(Files) /\ p[Len(s) + 2] = "manifest" /\ p[1] = "raster"
    BY <1>1, <1>2, <1>3, <1>4, <1>5
  <1>7. ASSUME NEW i \in 2..Len(s) + 1 PROVE p[i] \in Masks
    <2>1. i - 1 \in 1..Len(s) /\ i \in 1..Len(fs) /\ i = Len(first) + (i - 1)
      BY <1>1, <1>2, <1>3
    <2>2. p[i] = fs[i] /\ fs[i] = s[i - 1]
      BY <2>1, <1>3, <1>4, <1>5
    <2> QED
      BY <2>1, <2>2, <1>1
  <1>8. /\ p \in Seq(Files) /\ p # <<>> /\ Len(p) > 1 /\ Last(p) = "manifest" /\ Head(p) = "raster"
        /\ \A i \in 1..Len(p) - 1 : p[i] # "manifest"
    BY <1>1, <1>6, <1>7 DEF Last
  <1> QED
    BY <1>8 DEF p, s, first, last

\* The order of the attempts is a sequence of providers, and not empty if one is eligible.
LEMMA RankedOrder ==
    ASSUME NEW eligible \in SUBSET Providers, NEW order \in SeqOf(eligible, Len(Ranking)),
           ToSet(order) = eligible
    PROVE  order \in Seq(Providers) /\ (eligible # {} => Len(order) > 0)
  <1>1. Len(Ranking) \in Nat
    BY AcquisitionAssumption
  <1>2. PICK m \in 0..Len(Ranking) : order \in [1..m -> eligible]
    BY DEF SeqOf
  <1>3. order \in Seq(Providers) /\ Len(order) = m
    BY <1>1, <1>2
  <1>4. m = 0 => eligible = {}
    BY <1>2, <1>3 DEF ToSet
  <1> QED
    BY <1>1, <1>2, <1>3, <1>4

\* A new status of the last attempt changes no provider and no earlier status.
LEMMA MarkedAttempts ==
    ASSUME attempts \in Seq(Attempt), attempts # <<>>, NEW status \in Statuses
    PROVE  /\ Marked(status) \in Seq(Attempt) /\ Len(Marked(status)) = Len(attempts)
           /\ \A i \in 1..Len(attempts) :
                 /\ Marked(status)[i].provider = attempts[i].provider
                 /\ Marked(status)[i].status
                       = IF i = Len(attempts) THEN status ELSE attempts[i].status
  <1>1. Len(attempts) \in Nat \ {0} /\ attempts[Len(attempts)] \in Attempt
    OBVIOUS
  <1> DEFINE last == [attempts[Len(attempts)] EXCEPT !.status = status]
  <1>2. last \in Attempt /\ last.status = status /\ last.provider = attempts[Len(attempts)].provider
    BY <1>1 DEF Attempt, Statuses
  <1>3. Marked(status) = [attempts EXCEPT ![Len(attempts)] = last]
    BY DEF Marked
  <1> HIDE DEF last
  <1> QED
    BY <1>1, <1>2, <1>3

\* What a file of the drop can be.
LEMMA ContentOfFiles ==
    /\ NoFile \in Content /\ Empty \in [Files -> Content]
    /\ [by |-> "user", whole |-> TRUE] \in Content
    /\ \A p \in Providers, whole \in BOOLEAN : [by |-> p, whole |-> whole] \in Content
  BY DEF NoFile, Content, Empty

\* While there is an attempt there is a current provider, and its work is no absent file.
LEMMA CurrentIsProvider ==
    ASSUME attempts \in Seq(Attempt), attempts # <<>>
    PROVE  Current \in Providers /\ Mine \in Content /\ Mine # NoFile
  <1>1. attempts[Len(attempts)] \in Attempt
    OBVIOUS
  <1> QED
    BY <1>1 DEF Current, Last, Attempt, Mine, Content, NoFile

\* Before the first attempt the drop has only what others left in it.
LEMMA AcquisitionInitial == AcquisitionInit => AcquisitionInv
  <1> SUFFICES ASSUME AcquisitionInit PROVE AcquisitionInv
    OBVIOUS
  <1> USE AcquisitionAssumption DEF AcquisitionInit
  <1>1. NoFile \in Content /\ NoFile.by = "nobody"
    BY DEF NoFile, Content
  <1>2. Empty \in [Files -> Content] /\ \A f \in Files : Empty[f] = NoFile
    BY <1>1 DEF Empty
  <1>3. SourceAcquisitionTypeOK
    BY <1>2 DEF SourceAcquisitionTypeOK
  <1>4. NothingLeft
    BY <1>1, <1>2 DEF NothingLeft, Providers
  <1> QED
    BY <1>3, <1>4 DEF AcquisitionInv, TriedInOrder, FetchIsOwn, SealIsOwn, Sealed

-----------------------------------------------------------------------------
(* The steps of an acquisition *)

\* The evaluation ranks the providers; no attempt was made.
LEMMA EvaluateKeeps ==
    ASSUME AcquisitionInv, Evaluate PROVE AcquisitionInv'
  <1> USE AcquisitionAssumption DEF AcquisitionInv
  <1>1. /\ UNCHANGED <<attempts, plan, drop, written, before, seal, entries, snapshot, acqFaults>>
        /\ apc = "evaluating" /\ apc' \in {"none_eligible", "fetching"}
    BY DEF Evaluate
  <1>2. PICK eligible \in SUBSET Providers :
            \E order \in SeqOf(eligible, Len(Ranking)) :
               /\ ToSet(order) = eligible /\ ranked' = order
               /\ apc' = IF eligible = {} THEN "none_eligible" ELSE "fetching"
    BY DEF Evaluate
  <1>3. ranked' \in Seq(Providers) /\ (apc' = "fetching" => Len(ranked') > 0)
    BY <1>2, RankedOrder
  <1>4. attempts = <<>> /\ Len(attempts) = 0
    BY <1>1 DEF TriedInOrder
  <1>5. SourceAcquisitionTypeOK'
    BY <1>1, <1>3 DEF SourceAcquisitionTypeOK, Ended
  <1>6. TriedInOrder'
    BY <1>1, <1>3, <1>4 DEF TriedInOrder, Sealed
  <1>7. FetchIsOwn' /\ SealIsOwn'
    BY <1>1 DEF FetchIsOwn, SealIsOwn, Sealed
  <1>8. NothingLeft'
    BY <1>1 DEF NothingLeft
  <1> QED
    BY <1>5, <1>6, <1>7, <1>8

\* The next provider starts with nothing of its own, in a drop where no file is left.
LEMMA BeginFetchKeeps ==
    ASSUME AcquisitionInv, BeginFetch PROVE AcquisitionInv'
  <1> USE AcquisitionAssumption DEF AcquisitionInv
  <1> DEFINE next == [provider |-> ranked[Len(attempts) + 1], status |-> "running"]
  <1>1. /\ UNCHANGED <<ranked, drop, entries, snapshot>>
        /\ apc = "fetching" /\ apc' \in {"writing", "judging"}
        /\ attempts' = Append(attempts, next)
        /\ before' = Exists(drop) /\ written' = {} /\ seal' = Empty
        /\ acqFaults' \in 0..MaxAcqFaults
    BY DEF BeginFetch, AcqFault, SourceAcquisitionTypeOK
  <1>2. /\ attempts \in Seq(Attempt) /\ ranked \in Seq(Providers)
        /\ Len(attempts) \in Nat /\ Len(ranked) \in Nat /\ Len(attempts) < Len(ranked)
    BY <1>1 DEF SourceAcquisitionTypeOK, Attempt, TriedInOrder
  <1>3. next \in Attempt /\ next.provider = ranked[Len(attempts) + 1]
    <2>1. ranked[Len(attempts) + 1] \in Providers
      BY <1>2
    <2> QED
      BY <2>1 DEF Attempt, Statuses
  <1> HIDE DEF next
  <1>4. /\ attempts' \in Seq(Attempt) /\ Len(attempts') = Len(attempts) + 1
        /\ \A i \in 1..Len(attempts) : attempts'[i] = attempts[i]
        /\ attempts'[Len(attempts) + 1] = next
    BY <1>1, <1>2, <1>3
  <1>5. /\ plan' \in Seq(Files)
        /\ apc' = "writing" => /\ Exists(drop) = {} /\ plan' # <<>> /\ Len(plan') > 1
                               /\ Last(plan') = "manifest" /\ Head(plan') = "raster"
                               /\ \A i \in 1..Len(plan') - 1 : plan'[i] # "manifest"
    <2>1. CASE apc' = "writing"
      <3>1. /\ Exists(drop) = {}
            /\ \E offered \in SUBSET Masks :
                  plan' = <<"raster">> \o SetToSeq(offered) \o <<"manifest">>
        BY <2>1 DEF BeginFetch
      <3> QED
        BY <3>1, PlanOfFetch
    <2>2. CASE apc' = "judging"
      <3>1. plan' = <<>>
        BY <2>2 DEF BeginFetch
      <3> QED
        BY <2>2, <3>1
    <2> QED
      BY <1>1, <2>1, <2>2
  <1>6. Empty \in [Files -> Content] /\ Exists(Empty) = {}
    BY DEF Empty, NoFile, Content, Exists
  <1>7. SourceAcquisitionTypeOK'
    <2>1. before' \subseteq Files
      BY <1>1 DEF Exists
    <2> QED
      BY <1>1, <1>4, <1>5, <1>6, <2>1 DEF SourceAcquisitionTypeOK, Attempt
  <1>8. TriedInOrder'
    <2>1. attempts' # <<>> /\ Len(attempts') <= Len(ranked')
      BY <1>1, <1>2, <1>4
    <2>2. ASSUME NEW i \in 1..Len(attempts')
          PROVE  /\ attempts'[i].provider = ranked'[i]
                 /\ i < Len(attempts') => attempts'[i].status = "failed"
      <3>1. CASE i = Len(attempts) + 1
        BY <1>1, <1>2, <1>3, <1>4, <3>1
      <3>2. CASE i # Len(attempts) + 1
        <4>1. i \in 1..Len(attempts)
          BY <1>2, <1>4, <2>2, <3>2
        <4> QED
          BY <1>1, <1>4, <4>1 DEF TriedInOrder
      <3> QED
        BY <3>1, <3>2
    <2> QED
      BY <1>1, <2>1, <2>2 DEF TriedInOrder, Sealed
  <1>9. FetchIsOwn' /\ SealIsOwn'
    <2>1. Exists(seal') = {}
      BY <1>1, <1>6 DEF Exists
    <2> QED
      BY <1>1, <1>5, <2>1 DEF FetchIsOwn, SealIsOwn, Sealed, Exists
  <1>10. NothingLeft'
    BY <1>1 DEF NothingLeft, Exists
  <1> QED
    BY <1>7, <1>8, <1>9, <1>10

\* A file that is written is the fetch's own; the manifest hashes such files.
LEMMA WriteFileKeeps ==
    ASSUME AcquisitionInv, WriteFile PROVE AcquisitionInv'
  <1> USE AcquisitionAssumption DEF AcquisitionInv
  <1> DEFINE f == Head(plan)
  <1>1. /\ UNCHANGED <<ranked, attempts, before, entries, snapshot>>
        /\ apc = "writing" /\ plan # <<>> /\ apc' \in {"writing", "tracing", "unlinking"}
        /\ acqFaults' \in 0..MaxAcqFaults
    BY DEF WriteFile, AcqFault, SourceAcquisitionTypeOK
  <1>2. attempts # <<>> /\ Current \in Providers /\ Mine \in Content /\ Mine # NoFile /\ Current' = Current
        /\ Mine' = Mine
    BY <1>1, CurrentIsProvider DEF TriedInOrder, SourceAcquisitionTypeOK, Attempt, Current, Mine
  <1>3. /\ f \in Files /\ Len(plan) \in Nat /\ Len(plan) > 0 /\ f = plan[1] /\ Tail(plan) \in Seq(Files)
        /\ Len(Tail(plan)) = Len(plan) - 1
        /\ \A i \in 1..Len(plan) - 1 : Tail(plan)[i] = plan[i + 1]
    BY <1>1 DEF SourceAcquisitionTypeOK
  <1>4. TriedInOrder'
    BY <1>1 DEF TriedInOrder, Sealed
  <1> HIDE DEF f
  <1>5. CASE apc' = "unlinking"
    <2>1. /\ UNCHANGED <<written, plan, seal>>
          /\ \E left \in {drop[f], [by |-> Current, whole |-> FALSE]} :
                drop' = [drop EXCEPT ![f] = left]
      BY <1>5 DEF WriteFile, f
    <2>2. drop' \in [Files -> Content]
      <3>1. drop[f] \in Content /\ [by |-> Current, whole |-> FALSE] \in Content
        BY <1>2, <1>3, ContentOfFiles DEF SourceAcquisitionTypeOK
      <3>2. PICK left \in Content : drop' = [drop EXCEPT ![f] = left]
        BY <2>1, <3>1
      <3> QED
        BY <1>3, <3>2 DEF SourceAcquisitionTypeOK
    <2>3. SourceAcquisitionTypeOK'
      BY <1>1, <1>5, <2>1, <2>2 DEF SourceAcquisitionTypeOK
    <2> QED
      BY <1>1, <1>4, <1>5, <2>3 DEF FetchIsOwn, SealIsOwn, NothingLeft, Sealed
  <1>6. CASE apc' # "unlinking"
    <2>1. /\ drop' = [drop EXCEPT ![f] = Mine]
          /\ written' = written \cup {f} /\ plan' = Tail(plan)
          /\ seal' = IF f = "raster" THEN seal
                     ELSE IF f = "manifest" THEN [seal EXCEPT !["raster"] = drop["raster"]]
                     ELSE [seal EXCEPT ![f] = drop'[f]]
          /\ apc' = IF plan' = <<>> THEN "tracing" ELSE "writing"
      BY <1>6 DEF WriteFile, f, Mine
    <2>2. /\ drop' \in [Files -> Content] /\ plan' \in Seq(Files) /\ written' \subseteq Files
          /\ "raster" \in Files /\ drop'[f] = Mine
          /\ \A g \in written' : drop'[g] = Mine
      BY <1>1, <1>2, <1>3, <2>1 DEF SourceAcquisitionTypeOK, FetchIsOwn, Files
    <2>3. f = "manifest" => drop["raster"] = Mine
      BY <1>1 DEF FetchIsOwn, f
    <2>4. seal' \in [Files -> Content] /\ \A g \in Exists(seal') : seal'[g] = Mine
      BY <1>1, <1>2, <1>3, <2>1, <2>2, <2>3 DEF SourceAcquisitionTypeOK, SealIsOwn, Exists
    <2>5. f = "manifest" <=> plan' = <<>>
      <3>1. Last(plan) = "manifest" /\ \A i \in 1..Len(plan) - 1 : plan[i] # "manifest"
        BY <1>1 DEF FetchIsOwn
      <3>2. plan' = <<>> <=> Len(plan) = 1
        <4>1. plan' \in Seq(Files) /\ Len(plan') = Len(plan) - 1
          BY <1>3, <2>1
        <4>2. Len(plan') = 0 => plan' = <<>>
          BY <4>1
        <4>3. plan' = <<>> => Len(plan') = 0
          OBVIOUS
        <4> QED
          BY <1>3, <4>1, <4>2, <4>3
      <3> QED
        BY <1>3, <3>1, <3>2 DEF Last
    <2>6. apc' = "tracing" => seal'["raster"] = Mine
      BY <2>1, <2>2, <2>3, <2>5 DEF SourceAcquisitionTypeOK
    <2>7. apc' = "writing" =>
             /\ plan' # <<>> /\ Last(plan') = "manifest"
             /\ \A i \in 1..Len(plan') - 1 : plan'[i] # "manifest"
             /\ "raster" \in written'
      <3> SUFFICES ASSUME apc' = "writing"
                   PROVE  /\ plan' # <<>> /\ Last(plan') = "manifest"
                          /\ \A i \in 1..Len(plan') - 1 : plan'[i] # "manifest"
                          /\ "raster" \in written'
        OBVIOUS
      <3>1. /\ Last(plan) = "manifest" /\ \A i \in 1..Len(plan) - 1 : plan[i] # "manifest"
            /\ "raster" \notin written => Head(plan) = "raster"
        BY <1>1 DEF FetchIsOwn
      <3>2. plan' # <<>> /\ Len(plan') = Len(plan) - 1 /\ Len(plan') > 0
        BY <1>3, <2>1
      <3>3. \A i \in 1..Len(plan') : plan'[i] = plan[i + 1]
        BY <1>3, <2>1, <3>2
      <3> QED
        BY <1>3, <2>1, <3>1, <3>2, <3>3 DEF Last, f
    <2>8. SourceAcquisitionTypeOK'
      BY <1>1, <2>1, <2>2, <2>4 DEF SourceAcquisitionTypeOK
    <2>9. FetchIsOwn'
      BY <1>1, <1>2, <2>1, <2>2, <2>7 DEF FetchIsOwn
    <2>10. SealIsOwn'
      BY <1>1, <1>2, <1>6, <2>1, <2>4, <2>6 DEF SealIsOwn, Sealed
    <2> QED
      BY <1>1, <1>4, <1>6, <2>8, <2>9, <2>10 DEF NothingLeft
  <1> QED
    BY <1>5, <1>6

\* A failed fetch removes what it published, or fails to.
LEMMA RemovePublishedKeeps ==
    ASSUME AcquisitionInv, RemovePublished PROVE AcquisitionInv'
  <1> USE AcquisitionAssumption DEF AcquisitionInv
  <1>1. /\ UNCHANGED <<ranked, attempts, plan, written, before, seal, entries, snapshot>>
        /\ apc = "unlinking" /\ apc' = "judging" /\ acqFaults' \in 0..MaxAcqFaults
    BY DEF RemovePublished, AcqFault, SourceAcquisitionTypeOK
  <1>2. drop' \in [Files -> Content]
    BY ContentOfFiles DEF RemovePublished, SourceAcquisitionTypeOK
  <1>3. SourceAcquisitionTypeOK'
    BY <1>1, <1>2 DEF SourceAcquisitionTypeOK
  <1> QED
    BY <1>1, <1>3 DEF TriedInOrder, FetchIsOwn, SealIsOwn, NothingLeft, Sealed

\* A provider after which files are left is the last one that is tried.
LEMMA FallBackKeeps ==
    ASSUME AcquisitionInv, FallBack PROVE AcquisitionInv'
  <1> USE AcquisitionAssumption DEF AcquisitionInv
  <1>1. /\ UNCHANGED <<ranked, plan, drop, written, before, seal, entries, snapshot, acqFaults>>
        /\ apc = "judging" /\ attempts # <<>>
    BY DEF FallBack, TriedInOrder
  <1>2. attempts \in Seq(Attempt) /\ Len(attempts) \in Nat /\ Len(ranked) \in Nat
    BY DEF SourceAcquisitionTypeOK, Attempt
  <1>3. \/ attempts' = Marked("failed_retained") /\ apc' = "retained"
        \/ /\ attempts' = Marked("failed") /\ Exists(drop) \subseteq before
           /\ apc' = IF Len(attempts) < Len(ranked) THEN "fetching" ELSE "all_failed"
    BY DEF FallBack, NextProvider
  <1>4. PICK status \in Statuses : attempts' = Marked(status) /\ (apc' = "fetching" => status = "failed")
    BY <1>3 DEF Statuses
  <1>9. /\ attempts' \in Seq(Attempt) /\ Len(attempts') = Len(attempts) /\ attempts' # <<>>
        /\ \A i \in 1..Len(attempts) :
              /\ attempts'[i].provider = attempts[i].provider
              /\ attempts'[i].status = IF i = Len(attempts) THEN status ELSE attempts[i].status
    BY <1>1, <1>2, <1>4, MarkedAttempts
  <1>5. SourceAcquisitionTypeOK'
    BY <1>1, <1>3, <1>9 DEF SourceAcquisitionTypeOK, Ended, Attempt
  <1>6. TriedInOrder'
    <2>1. \A i \in 1..Len(attempts) : /\ attempts'[i].provider = ranked[i]
                                     /\ i < Len(attempts) => attempts'[i].status = "failed"
      BY <1>1, <1>2, <1>4, <1>9 DEF TriedInOrder
    <2>2. apc' = "fetching" => attempts'[Len(attempts)].status = "failed" /\ Len(attempts) < Len(ranked)
      <3>1. Len(attempts) \in 1..Len(attempts)
        BY <1>1, <1>2
      <3> QED
        BY <1>3, <1>4, <1>9, <3>1
    <2> QED
      BY <1>1, <1>2, <1>3, <1>9, <2>1, <2>2 DEF TriedInOrder, Sealed
  <1>7. NothingLeft'
    <2>1. apc' # "retained" => \A f \in Files : drop[f].by \notin Providers
      <3> SUFFICES ASSUME apc' # "retained", NEW f \in Files, drop[f].by \in Providers PROVE FALSE
        OBVIOUS
      <3>1. drop[f] # NoFile
        BY DEF NoFile, Providers
      <3>2. f \in before
        BY <1>3, <3>1 DEF Exists
      <3> QED
        BY <1>1, <3>2 DEF NothingLeft
    <2> QED
      BY <1>1, <1>3, <2>1 DEF NothingLeft
  <1> QED
    BY <1>1, <1>3, <1>5, <1>6, <1>7 DEF FetchIsOwn, SealIsOwn, Sealed

\* Only the manifest that this fetch wrote is sealed.
LEMMA RecordTraceKeeps ==
    ASSUME AcquisitionInv, RecordTrace PROVE AcquisitionInv'
  <1> USE AcquisitionAssumption DEF AcquisitionInv
  <1>1. /\ UNCHANGED <<ranked, plan, drop, written, before, entries, snapshot>>
        /\ apc = "tracing" /\ attempts # <<>> /\ acqFaults' \in 0..MaxAcqFaults
    BY DEF RecordTrace, TriedInOrder, AcqFault, SourceAcquisitionTypeOK
  <1>2. attempts \in Seq(Attempt) /\ Len(attempts) \in Nat /\ Len(attempts) # 0
    BY <1>1 DEF SourceAcquisitionTypeOK, Attempt
  <1>3. \/ /\ apc' = "copying" /\ attempts' = Marked("selected") /\ drop["manifest"].whole
           /\ seal' = IF drop["manifest"].by = Current
                      THEN [seal EXCEPT !["manifest"] = drop["manifest"]] ELSE Empty
        \/ apc' = "retained" /\ attempts' = Marked("unrecorded") /\ seal' = seal
    BY DEF RecordTrace
  <1>4. PICK status \in Statuses : attempts' = Marked(status) /\ (apc' = "copying" => status = "selected")
    BY <1>3 DEF Statuses
  <1>9. /\ attempts' \in Seq(Attempt) /\ Len(attempts') = Len(attempts) /\ attempts' # <<>>
        /\ \A i \in 1..Len(attempts) :
              /\ attempts'[i].provider = attempts[i].provider
              /\ attempts'[i].status = IF i = Len(attempts) THEN status ELSE attempts[i].status
    BY <1>1, <1>2, <1>4, MarkedAttempts
  <1>5. Empty \in [Files -> Content] /\ "manifest" \in Files /\ "raster" \in Files
    BY DEF Empty, NoFile, Content, Files
  <1>6. SourceAcquisitionTypeOK'
    <2>1. seal' \in [Files -> Content]
      BY <1>3, <1>5 DEF SourceAcquisitionTypeOK
    <2> QED
      BY <1>1, <1>3, <1>9, <2>1 DEF SourceAcquisitionTypeOK, Ended, Attempt
  <1>7. TriedInOrder'
    <2>1. \A i \in 1..Len(attempts) : /\ attempts'[i].provider = ranked[i]
                                     /\ i < Len(attempts) => attempts'[i].status = "failed"
      BY <1>1, <1>2, <1>4, <1>9 DEF TriedInOrder
    <2>2. apc' = "copying" => Last(attempts').status = "selected"
      BY <1>1, <1>2, <1>4, <1>9 DEF Last
    <2> QED
      BY <1>1, <1>2, <1>3, <1>9, <2>1, <2>2 DEF TriedInOrder, Sealed
  <1>8. SealIsOwn'
    <2>1. Current' = Current /\ Mine' = Mine
      <3>1. attempts'[Len(attempts)].provider = attempts[Len(attempts)].provider
        BY <1>1, <1>2, <1>4, <1>9
      <3> QED
        BY <1>9, <3>1 DEF Current, Last, Mine
    <2>2. apc' = "copying" /\ seal' # Empty => /\ seal'["raster"] = Mine /\ seal'["manifest"] = Mine
                                               /\ \A f \in Exists(seal') : seal'[f] = Mine
      <3> SUFFICES ASSUME apc' = "copying", seal' # Empty
                   PROVE  /\ seal'["raster"] = Mine /\ seal'["manifest"] = Mine
                          /\ \A f \in Exists(seal') : seal'[f] = Mine
        OBVIOUS
      <3>1. drop["manifest"].by = Current /\ drop["manifest"].whole /\ drop["manifest"] \in Content
        BY <1>3, <1>5 DEF SourceAcquisitionTypeOK
      <3>2. drop["manifest"] = Mine
        BY <3>1 DEF Content, Mine
      <3>3. seal["raster"] = Mine /\ (\A f \in Exists(seal) : seal[f] = Mine)
            /\ seal \in [Files -> Content]
        BY <1>1 DEF SealIsOwn, SourceAcquisitionTypeOK
      <3>4. seal' = [seal EXCEPT !["manifest"] = Mine]
        BY <1>3, <3>1, <3>2
      <3> QED
        BY <1>5, <3>3, <3>4 DEF Exists
    <2> QED
      BY <1>1, <1>3, <2>1, <2>2 DEF SealIsOwn, Sealed
  <1> QED
    BY <1>1, <1>3, <1>6, <1>7, <1>8 DEF FetchIsOwn, NothingLeft

\* The snapshot is copied, hashed again, and the drop removed.
LEMMA TakeSourceKeeps ==
    ASSUME AcquisitionInv, SnapshotDrop \/ VerifySnapshot \/ CleanDrop PROVE AcquisitionInv'
  <1> USE AcquisitionAssumption DEF AcquisitionInv
  <1>1. /\ UNCHANGED <<ranked, attempts, plan, written, before, seal>>
        /\ apc \in {"copying", "verifying", "cleaning"}
        /\ apc' \in {"verifying", "cleaning", "acquired", "failed"}
        /\ acqFaults' \in 0..MaxAcqFaults
    BY DEF SnapshotDrop, VerifySnapshot, CleanDrop, AcqFault, SourceAcquisitionTypeOK
  <1>2. /\ snapshot' \in [Files -> Content] /\ entries' \in [Files -> Content]
        /\ drop' \in [Files -> Content]
    BY ContentOfFiles DEF SnapshotDrop, VerifySnapshot, CleanDrop, SourceAcquisitionTypeOK
  <1>3. /\ apc' \in {"verifying", "cleaning", "acquired"} => snapshot'["manifest"].whole
        /\ apc' \in {"cleaning", "acquired"} => snapshot' = seal
    BY DEF SnapshotDrop, VerifySnapshot, CleanDrop, SealIsOwn
  <1>4. SourceAcquisitionTypeOK'
    BY <1>1, <1>2 DEF SourceAcquisitionTypeOK, Ended
  <1>5. TriedInOrder' /\ FetchIsOwn'
    BY <1>1 DEF TriedInOrder, FetchIsOwn, Sealed
  <1>6. SealIsOwn'
    BY <1>1, <1>3 DEF SealIsOwn, Sealed, Mine, Current
  <1> QED
    BY <1>1, <1>4, <1>5, <1>6 DEF NothingLeft

\* Between the fetch and the cleaning others may change a file of the drop.
LEMMA ChangeDropKeeps ==
    ASSUME AcquisitionInv, NEW f \in Files, ChangeDrop(f) PROVE AcquisitionInv'
  <1> USE AcquisitionAssumption DEF AcquisitionInv
  <1>1. /\ UNCHANGED <<ranked, apc, attempts, plan, written, before, seal, entries, snapshot>>
        /\ apc \in {"fetching", "tracing", "copying", "verifying", "cleaning"}
        /\ acqFaults' \in 0..MaxAcqFaults
    BY DEF ChangeDrop, AcqFault, SourceAcquisitionTypeOK
  <1>2. PICK now \in {NoFile, [by |-> "user", whole |-> TRUE]} : drop' = [drop EXCEPT ![f] = now]
    BY DEF ChangeDrop
  <1>3. now \in Content /\ now.by \notin Providers
    <2>1. CASE now = NoFile
      BY <2>1, ContentOfFiles DEF NoFile, Providers
    <2>2. CASE now = [by |-> "user", whole |-> TRUE]
      BY <2>2, ContentOfFiles DEF Providers
    <2> QED
      BY <2>1, <2>2
  <1>4. SourceAcquisitionTypeOK'
    BY <1>1, <1>2, <1>3 DEF SourceAcquisitionTypeOK
  <1>5. TriedInOrder' /\ FetchIsOwn' /\ SealIsOwn'
    BY <1>1 DEF TriedInOrder, FetchIsOwn, SealIsOwn, Sealed, Mine, Current
  <1>6. NothingLeft'
    BY <1>1, <1>2, <1>3 DEF NothingLeft, SourceAcquisitionTypeOK
  <1> QED
    BY <1>4, <1>5, <1>6

\* What is acquired is the whole work of the provider the trace names.
LEMMA AcquiredIsTrue ==
    ASSUME AcquisitionInv PROVE AcquisitionIsTrue
  <1> USE AcquisitionAssumption DEF AcquisitionInv
  <1>1. ASSUME apc = "acquired"
        PROVE  /\ {"raster", "manifest"} \subseteq Exists(snapshot)
               /\ \A f \in Exists(snapshot) : snapshot[f] = Mine
    <2>1. /\ snapshot = seal /\ snapshot["manifest"].whole
          /\ \/ seal = Empty
             \/ /\ seal["raster"] = Mine /\ seal["manifest"] = Mine
                /\ \A f \in Exists(seal) : seal[f] = Mine
      BY <1>1 DEF SealIsOwn, Sealed
    <2>2. {"raster", "manifest"} \subseteq Files /\ ~ Empty["manifest"].whole
      BY DEF Files, Empty, NoFile
    <2>3. Mine # NoFile
      BY <1>1, CurrentIsProvider DEF TriedInOrder, SourceAcquisitionTypeOK, Attempt
    <2> QED
      BY <2>1, <2>2, <2>3 DEF Exists
  <1>2. ASSUME apc = "acquired", NEW i \in 1..Len(attempts)
        PROVE  /\ attempts[i].provider = ranked[i]
               /\ attempts[i].status = IF i = Len(attempts) THEN "selected" ELSE "failed"
    BY <1>2 DEF TriedInOrder, Sealed, Last, SourceAcquisitionTypeOK
  <1>3. apc = "all_failed" => \A f \in Files : drop[f].by \notin Providers
    BY DEF NothingLeft
  <1> QED
    BY <1>1, <1>2, <1>3 DEF AcquisitionIsTrue, Mine

\* Whatever providers fail, and whoever changes the drop meanwhile: what is acquired
\* is the whole work of the provider that the trace records as selected, every
\* provider before it in the ranking is recorded as failed, and when all have
\* failed none of them has left a file (evaluate_providers, fetch_with_provider_selection,
\* CopernicusAwsProvider.acquire, snapshot_provider_output).
THEOREM AcquisitionIsTrueHolds ==
    AcquisitionSpec => [](SourceAcquisitionTypeOK /\ AcquisitionIsTrue)
  <1>1. AcquisitionInv /\ [AcquisitionNext]_acquisitionVars => AcquisitionInv'
    <2> SUFFICES ASSUME AcquisitionInv, [AcquisitionNext]_acquisitionVars PROVE AcquisitionInv'
      OBVIOUS
    <2>1. CASE AcquisitionNext
      BY <2>1, EvaluateKeeps, BeginFetchKeeps, WriteFileKeeps, RemovePublishedKeeps, FallBackKeeps,
         RecordTraceKeeps, TakeSourceKeeps, ChangeDropKeeps DEF AcquisitionNext
    <2>2. CASE UNCHANGED acquisitionVars
      <3>1. SourceAcquisitionTypeOK' /\ TriedInOrder' /\ NothingLeft'
        BY <2>2 DEF acquisitionVars, AcquisitionInv, SourceAcquisitionTypeOK, TriedInOrder, NothingLeft
      <3>2. FetchIsOwn' /\ SealIsOwn'
        BY <2>2 DEF acquisitionVars, AcquisitionInv, FetchIsOwn, SealIsOwn, Mine, Current, Exists
      <3> QED
        BY <3>1, <3>2 DEF AcquisitionInv
    <2> QED
      BY <2>1, <2>2
  <1>2. AcquisitionInv => SourceAcquisitionTypeOK /\ AcquisitionIsTrue
    BY AcquiredIsTrue DEF AcquisitionInv
  <1> QED
    BY AcquisitionInitial, <1>1, <1>2, PTL DEF AcquisitionSpec

-----------------------------------------------------------------------------
(*****************************************************************************)
(* The terrain bundle, for any versions of the elevations, any set of        *)
(* slicings and any number of replacements, copies and deaths.               *)
(*****************************************************************************)

\* The digests that one build of version v binds, with or without an acquisition.
BoundOf(v, sources) ==
    [roles |-> [r \in Derived \cup sources |-> IF r \in Derived THEN v ELSE 1],
     dem |-> v, nodata |-> v, geometry |-> v]

\* A report as one build wrote it, but for the slicing that was added.
WrittenReport(v, sources, s) ==
    [measured |-> v, preflight |-> v, bindings |-> BoundOf(v, sources), slice |-> s]
Results == Slicings \cup {"none"}
IsReport(report) ==
    \E v \in Rasters, sources \in {{}, Sourced}, s \in Results :
        report = WrittenReport(v, sources, s)
IsProvenance(content) == "report" \in DOMAIN content /\ IsReport(content.report)

\* A directory whose reports are each of one build.
WholeReports(files) ==
    /\ DOMAIN files \subseteq Roles
    /\ {"validation", "provenance"} \subseteq DOMAIN files
    /\ IsReport(files["validation"]) /\ IsProvenance(files["provenance"])

\* What is staged at each step.
StagedAtStep ==
    /\ bpc \in {"idle", "copying", "failed", "published"} => staged = NoFiles
    /\ bpc \in {"hashing", "reading"} => \E sources \in {{}, Sourced} : staged = [r \in sources |-> 1]
    /\ bpc = "exporting" =>
          \E v \in Rasters, sources \in {{}, Sourced} : staged = BoundOf(v, sources).roles
    /\ bpc \in {"binding", "verifying"} => WholeReports(staged)

\* The reports of the bundle, and those a recording read, are each of one build.
BundleAtStep ==
    /\ bpc = "published" => WholeReports(bundle)
    /\ bpc # "published" => bundle = NoFiles
    /\ \A s \in Slicings :
          /\ spc[s] # "idle" => bpc = "published"
          /\ spc[s] \in {"slicer", "bambu", "validation", "html", "provenance", "manifest"} =>
                /\ DOMAIN loaded[s] = {"validation", "provenance", "manifest"}
                /\ IsReport(loaded[s]["validation"]) /\ IsProvenance(loaded[s]["provenance"])

BundleInv == BundleTypeOK /\ StagedAtStep /\ BundleAtStep

\* A slicing is added to a report, or to the provenance that repeats it.
LEMMA SliceIsAdded ==
    ASSUME NEW s \in Slicings
    PROVE  /\ \A report : IsReport(report) => IsReport([report EXCEPT !.slice = s])
           /\ \A content : IsProvenance(content) => IsProvenance([content EXCEPT !.report.slice = s])
  <1>1. ASSUME NEW report, IsReport(report) PROVE IsReport([report EXCEPT !.slice = s])
    <2>1. PICK v \in Rasters, sources \in {{}, Sourced}, t \in Results :
             report = WrittenReport(v, sources, t)
      BY <1>1 DEF IsReport
    <2>2. [report EXCEPT !.slice = s] = WrittenReport(v, sources, s)
      BY <2>1 DEF WrittenReport
    <2> QED
      BY <2>2 DEF IsReport, Results
  <1>2. ASSUME NEW content, IsProvenance(content)
        PROVE  IsProvenance([content EXCEPT !.report.slice = s])
    <2>1. /\ "report" \in DOMAIN [content EXCEPT !.report.slice = s]
          /\ [content EXCEPT !.report.slice = s].report = [content.report EXCEPT !.slice = s]
      BY <1>2 DEF IsProvenance
    <2> QED
      BY <1>1, <1>2, <2>1 DEF IsProvenance
  <1> QED
    BY <1>1, <1>2

\* The reports a build writes of what it staged are those of one build.
LEMMA ReportsAreWhole ==
    ASSUME BundleAssumption, NEW files, NEW v \in Rasters, NEW sources \in {{}, Sourced},
           files = BoundOf(v, sources).roles, NEW hashed
    PROVE  IsReport(ReportOf(files)) /\ WholeReports(WithReports(files, hashed))
  <1> DEFINE staged2 == WithReports(files, hashed)
  <1>0. /\ DOMAIN files = Derived \cup sources
        /\ \A r \in Derived \cup sources : files[r] = IF r \in Derived THEN v ELSE 1
    BY DEF BoundOf
  <1>1. (Derived \cup sources) \ (Mutable \cup {"manifest"}) = Derived \cup sources
    BY DEF Mutable, Reports, SliceFiles, Derived, Sourced, BundleAssumption
  <1>2. Bindings(files) = BoundOf(v, sources)
    <2>1. {"processed_dem", "original_nodata_mask"} \subseteq Derived
      BY DEF Derived
    <2>2. [r \in DOMAIN files \ (Mutable \cup {"manifest"}) |-> files[r]]
            = [r \in Derived \cup sources |-> IF r \in Derived THEN v ELSE 1]
      BY <1>0, <1>1
    <2> QED
      BY <1>0, <2>1, <2>2 DEF Bindings, BoundOf
  <1>3. ReportOf(files) = WrittenReport(v, sources, "none")
    <2>1. {"processed_dem", "preflight"} \subseteq Derived
      BY DEF Derived
    <2> QED
      BY <1>0, <1>2, <2>1 DEF ReportOf, WrittenReport
  <1>4. IsReport(ReportOf(files))
    BY <1>3 DEF IsReport, Results
  <1>5. /\ DOMAIN staged2 = DOMAIN files \cup Reports
        /\ staged2["validation"] = ReportOf(files)
        /\ staged2["provenance"] = Provenance(files, hashed)
    BY DEF WithReports, Reports
  <1>6. "report" \in DOMAIN Provenance(files, hashed) /\ Provenance(files, hashed).report = ReportOf(files)
    BY DEF Provenance
  <1>7. DOMAIN files \cup Reports \subseteq Roles
    BY <1>0 DEF Roles
  <1> QED
    BY <1>4, <1>5, <1>6, <1>7 DEF WholeReports, IsProvenance, Reports

\* A directory keeps its whole reports when any other file is written.
LEMMA OtherFileIsPut ==
    ASSUME NEW files, WholeReports(files), NEW role \in Roles, NEW content,
           role = "validation" => IsReport(content), role = "provenance" => IsProvenance(content),
           NEW after, after = [r \in DOMAIN files \cup {role} |-> IF r = role THEN content ELSE files[r]]
    PROVE  WholeReports(after)
  BY DEF WholeReports

\* Nothing is staged, published or loaded.
LEMMA BundleInitial == BundleInit => BundleInv
  <1> SUFFICES ASSUME BundleInit PROVE BundleInv
    OBVIOUS
  <1> USE BundleAssumption DEF BundleInit
  <1>1. memory \in [acquired : BOOLEAN, hashed : Rasters \cup {0}]
    OBVIOUS
  <1>2. BundleTypeOK
    BY <1>1 DEF BundleTypeOK, NoFiles, BuildEnds, SliceEnds
  <1>3. StagedAtStep /\ BundleAtStep
    BY DEF StagedAtStep, BundleAtStep, BuildEnds
  <1> QED
    BY <1>2, <1>3 DEF BundleInv

\* A build stages its files in one go of reading, and publishes them whole.
LEMMA BuildingKeeps == ASSUME BundleInv, BuildStep PROVE BundleInv'
  <1> USE BundleAssumption
  <1>0. BundleTypeOK /\ StagedAtStep /\ BundleAtStep
    BY DEF BundleInv
  <1>1. UNCHANGED <<elevation, mask, spc, loaded, bundleEvents>> /\ bpc # "published"
        /\ bundle = NoFiles /\ \A s \in Slicings : spc[s] = "idle"
    BY <1>0
    DEF BuildStep, ReadAcquisition, CopyMasks, HashSource, ProcessRaster, ExportAndMeasure,
        WriteManifest, PublishBundle, OnlyBuild, BundleAtStep
  <1> SUFFICES /\ bpc' \in {"idle", "copying", "hashing", "reading", "exporting", "binding",
                             "verifying"} \cup BuildEnds
               /\ memory' \in [acquired : BOOLEAN, hashed : Rasters \cup {0}]
               /\ DOMAIN staged' \subseteq Roles /\ StagedAtStep'
               /\ bpc' = "published" => WholeReports(bundle')
               /\ bpc' # "published" => bundle' = NoFiles
    <2>1. DOMAIN bundle' \subseteq Roles
      BY DEF WholeReports, NoFiles
    <2>2. BundleTypeOK'
      BY <1>0, <1>1, <2>1 DEF BundleTypeOK
    <2>3. BundleAtStep'
      BY <1>1 DEF BundleAtStep
    <2> QED
      BY <2>2, <2>3 DEF BundleInv
  <1> USE <1>0, <1>1 DEF BuildEnds
  <1>2. CASE bpc' = "failed" /\ staged' = NoFiles /\ UNCHANGED <<memory, bundle>>
    BY <1>2 DEF StagedAtStep, NoFiles, BundleTypeOK
  <1>3. CASE ReadAcquisition /\ bpc' # "failed"
    <2>1. PICK acquired \in BOOLEAN :
             /\ memory' = [memory EXCEPT !.acquired = acquired] /\ UNCHANGED <<staged, bundle>>
             /\ bpc' = IF acquired THEN "copying" ELSE "hashing"
      BY <1>3 DEF ReadAcquisition, FailBuild
    <2>2. memory' \in [acquired : BOOLEAN, hashed : Rasters \cup {0}]
      BY <2>1 DEF BundleTypeOK
    <2>3. staged = NoFiles /\ bpc = "idle"
      BY <1>3 DEF ReadAcquisition, StagedAtStep
    <2>4. bpc' \in {"copying", "hashing"}
      BY <2>1
    <2>5. bpc' = "hashing" => \E sources \in {{}, Sourced} : staged' = [r \in sources |-> 1]
      BY <2>1, <2>3 DEF NoFiles
    <2> QED
      BY <2>1, <2>2, <2>3, <2>4, <2>5 DEF StagedAtStep, BundleTypeOK
  <1>4. CASE CopyMasks /\ bpc' # "failed"
    <2>1. /\ staged' = [r \in Sourced |-> 1] /\ bpc' = "hashing" /\ UNCHANGED <<memory, bundle>>
      BY <1>4 DEF CopyMasks, FailBuild, WithMask
    <2> QED
      BY <2>1 DEF StagedAtStep, BundleTypeOK, Roles
  <1>5. CASE HashSource
    <2>1. /\ memory' = [memory EXCEPT !.hashed = elevation] /\ bpc = "hashing"
          /\ bpc' = "reading" /\ UNCHANGED <<staged, bundle>>
      BY <1>5 DEF HashSource
    <2>2. memory' \in [acquired : BOOLEAN, hashed : Rasters \cup {0}]
      BY <2>1 DEF BundleTypeOK
    <2> QED
      BY <2>1, <2>2 DEF StagedAtStep, BundleTypeOK
  <1>6. CASE ProcessRaster /\ bpc' # "failed"
    <2>1. /\ staged' = WithDerived(staged, elevation) /\ bpc = "reading"
          /\ bpc' = "exporting" /\ UNCHANGED <<memory, bundle>>
      BY <1>6 DEF ProcessRaster, FailBuild
    <2>2. PICK sources \in {{}, Sourced} : staged = [r \in sources |-> 1]
      BY <2>1 DEF StagedAtStep
    <2>3. DOMAIN staged' = sources \cup Derived
      BY <2>1, <2>2 DEF WithDerived
    <2>4. staged' = BoundOf(elevation, sources).roles
      BY <2>1, <2>2 DEF WithDerived, BoundOf
    <2>5. elevation \in Rasters
      BY DEF BundleTypeOK
    <2>6. DOMAIN staged' \subseteq Roles
      BY <2>3 DEF Roles
    <2> QED
      BY <2>1, <2>4, <2>5, <2>6 DEF StagedAtStep, BundleTypeOK
  <1>7. CASE ExportAndMeasure /\ bpc' # "failed"
    <2>1. /\ staged' = WithReports(staged, memory.hashed) /\ bpc = "exporting"
          /\ bpc' = "binding" /\ UNCHANGED <<memory, bundle>>
      BY <1>7 DEF ExportAndMeasure, FailBuild
    <2>2. WholeReports(staged')
      BY <2>1, ReportsAreWhole DEF StagedAtStep
    <2> QED
      BY <2>1, <2>2 DEF StagedAtStep, BundleTypeOK, WholeReports
  <1>8. CASE WriteManifest
    <2>1. /\ staged' = WithManifest(staged, elevation) /\ WholeReports(staged)
          /\ bpc' = "verifying" /\ UNCHANGED <<memory, bundle>>
      BY <1>8 DEF WriteManifest, StagedAtStep
    <2>2. WholeReports(staged')
      BY <2>1, OtherFileIsPut DEF WithManifest, Roles
    <2> QED
      BY <2>1, <2>2 DEF StagedAtStep, BundleTypeOK, WholeReports
  <1>9. CASE PublishBundle /\ bpc' # "failed"
    <2>1. /\ bundle' = staged /\ staged' = NoFiles /\ bpc' = "published" /\ UNCHANGED memory
          /\ WholeReports(staged)
      BY <1>9 DEF PublishBundle, FailBuild, StagedAtStep
    <2> QED
      BY <2>1 DEF StagedAtStep, BundleTypeOK, NoFiles
  <1> QED
    BY <1>2, <1>3, <1>4, <1>5, <1>6, <1>7, <1>8, <1>9
    DEF BuildStep, ReadAcquisition, CopyMasks, ProcessRaster, ExportAndMeasure, PublishBundle, FailBuild

SlicingSteps == {"idle", "verified", "slicer", "bambu", "validation", "html", "provenance",
                 "manifest", "after", "recorded", "refused", "dead"}

\* A step after the build: it suffices to look at the bundle and at what is loaded.
LEMMA AfterBuildKeeps ==
    ASSUME BundleInv, bpc = "published", WholeReports(bundle'),
           UNCHANGED <<elevation, mask, bpc, memory, staged>>,
           bundleEvents' \in 0..MaxBundleEvents,
           spc' \in [Slicings -> SlicingSteps], DOMAIN loaded' = Slicings,
           \A s \in Slicings :
              \/ spc'[s] = spc[s] /\ loaded'[s] = loaded[s]
              \/ /\ spc'[s] \in {"verified", "after"} \cup SliceEnds
                 /\ DOMAIN loaded'[s] \subseteq {"validation", "provenance", "manifest"}
              \/ /\ spc'[s] \in {"slicer", "bambu", "validation", "html", "provenance", "manifest"}
                 /\ DOMAIN loaded'[s] = {"validation", "provenance", "manifest"}
                 /\ IsReport(loaded'[s]["validation"]) /\ IsProvenance(loaded'[s]["provenance"])
    PROVE  BundleInv'
  <1> USE BundleAssumption
  <1>0. BundleTypeOK /\ StagedAtStep /\ BundleAtStep
    BY DEF BundleInv
  <1>1. StagedAtStep'
    BY <1>0 DEF StagedAtStep
  <1>2. BundleAtStep'
    BY <1>0 DEF BundleAtStep, SliceEnds
  <1>3. BundleTypeOK'
    BY <1>0 DEF BundleTypeOK, WholeReports, SlicingSteps, SliceEnds
  <1> QED
    BY <1>1, <1>2, <1>3 DEF BundleInv

\* The recording of a slicing rewrites the reports, file after file.
LEMMA RecordingKeeps ==
    ASSUME BundleInv, NEW s \in Slicings, RecordSlice(s)
    PROVE  BundleInv'
  <1> USE BundleAssumption
  <1>0. BundleTypeOK /\ StagedAtStep /\ BundleAtStep
    BY DEF BundleInv
  <1>1. UNCHANGED <<elevation, mask, bpc, memory, staged, bundleEvents>>
        /\ bundleEvents \in 0..MaxBundleEvents
    BY <1>0
    DEF RecordSlice, VerifyBefore, LoadReports, WriteSlicer, WriteBambu, WriteValidation,
        WriteHtml, WriteProvenance, WriteSliceManifest, VerifyAfter, SlicingDies, Recording,
        BundleTypeOK
  <1>2. bpc = "published" /\ WholeReports(bundle)
    BY <1>0
    DEF RecordSlice, VerifyBefore, LoadReports, WriteSlicer, WriteBambu, WriteValidation,
        WriteHtml, WriteProvenance, WriteSliceManifest, VerifyAfter, SlicingDies, Recording,
        BundleAtStep
  <1> DEFINE Three == {"validation", "provenance", "manifest"}
             Working == {"slicer", "bambu", "validation", "html", "provenance", "manifest"}
             Read(f) == DOMAIN f = Three /\ IsReport(f["validation"]) /\ IsProvenance(f["provenance"])
             Kept(t) == \/ spc'[t] = spc[t] /\ loaded'[t] = loaded[t]
                        \/ spc'[t] \in {"verified", "after"} \cup SliceEnds /\ DOMAIN loaded'[t] \subseteq Three
                        \/ spc'[t] \in Working /\ Read(loaded'[t])
  <1>14. spc' \in [Slicings -> SlicingSteps] /\ DOMAIN loaded' = Slicings
    <2>1. \E to \in SlicingSteps : spc' = [spc EXCEPT ![s] = to]
      BY DEF RecordSlice, VerifyBefore, LoadReports, WriteSlicer, WriteBambu, WriteValidation,
             WriteHtml, WriteProvenance, WriteSliceManifest, VerifyAfter, SlicingDies, Recording,
             SlicingSteps
    <2>2. loaded' = loaded \/ \E c : loaded' = [loaded EXCEPT ![s] = c]
      BY DEF RecordSlice, VerifyBefore, LoadReports, WriteSlicer, WriteBambu, WriteValidation,
             WriteHtml, WriteProvenance, WriteSliceManifest, VerifyAfter, SlicingDies, Forget
    <2> QED
      BY <1>0, <2>1, <2>2 DEF BundleTypeOK, SlicingSteps, SliceEnds
  <1> SUFFICES WholeReports(bundle') /\ \A t \in Slicings : Kept(t)
    BY <1>1, <1>2, <1>14, AfterBuildKeeps
  <1>3. spc[s] \in Working => Read(loaded[s])
    BY <1>0 DEF BundleAtStep
  <1>4. DOMAIN loaded[s] \subseteq Three /\ DOMAIN NoFiles = {}
    BY <1>0 DEF BundleTypeOK, NoFiles
  <1> HIDE DEF Read
  \* Spelled out: the steps that rewrite a file leave what was read; others write none.
  <1> DEFINE Writes(from, to, role, content) ==
          /\ spc[s] = from /\ spc' = [spc EXCEPT ![s] = to] /\ loaded' = loaded
          /\ bundle' = [r \in DOMAIN bundle \cup {role} |-> IF r = role THEN content ELSE bundle[r]]
  <1>5. ASSUME NEW from \in Working, NEW to \in Working, NEW role \in Roles, NEW content,
               Writes(from, to, role, content),
               role = "validation" => IsReport(content),
               role = "provenance" => IsProvenance(content)
        PROVE  WholeReports(bundle') /\ \A t \in Slicings : Kept(t)
    <2>1. WholeReports(bundle')
      BY <1>2, <1>5, OtherFileIsPut
    <2>2. spc'[s] = spc[s] \/ spc'[s] = to
      BY <1>5
    <2>3. \A t \in Slicings \ {s} : spc'[t] = spc[t] /\ loaded'[t] = loaded[t]
      BY <1>5
    <2> QED
      BY <1>3, <1>5, <2>1, <2>2, <2>3
  <1>6. CASE VerifyBefore(s) \/ VerifyAfter(s) \/ SlicingDies(s)
    <2>1. PICK to \in {"verified"} \cup SliceEnds : spc' = [spc EXCEPT ![s] = to]
      BY <1>6 DEF VerifyBefore, VerifyAfter, SlicingDies, Recording, SliceEnds
    <2>2. loaded' = loaded \/ loaded' = [loaded EXCEPT ![s] = NoFiles]
      BY <1>6 DEF VerifyBefore, VerifyAfter, SlicingDies, Forget
    <2>3. UNCHANGED bundle
      BY <1>6 DEF VerifyBefore, VerifyAfter, SlicingDies
    <2>4. spc'[s] = to /\ (loaded'[s] = loaded[s] \/ loaded'[s] = NoFiles)
      BY <1>0, <2>1, <2>2 DEF BundleTypeOK
    <2>5. \A t \in Slicings \ {s} : spc'[t] = spc[t] /\ loaded'[t] = loaded[t]
      BY <1>0, <2>1, <2>2 DEF BundleTypeOK
    <2> QED
      BY <1>2, <1>4, <2>3, <2>4, <2>5
  <1>7. CASE LoadReports(s)
    <2>1. /\ spc' = [spc EXCEPT ![s] = "slicer"] /\ UNCHANGED bundle
          /\ loaded' = [loaded EXCEPT ![s] = Restrict(bundle, Three)]
      BY <1>7 DEF LoadReports, Recording
    <2>2. Read(Restrict(bundle, Three))
      BY <1>2 DEF Read, Restrict, WholeReports
    <2>3. \A t \in Slicings \ {s} : spc'[t] = spc[t] /\ loaded'[t] = loaded[t]
      BY <1>0, <2>1 DEF BundleTypeOK
    <2>4. spc'[s] = "slicer" /\ loaded'[s] = Restrict(bundle, Three)
      BY <1>0, <2>1 DEF BundleTypeOK
    <2> QED
      BY <1>2, <2>1, <2>2, <2>3, <2>4
  <1>8. CASE WriteSliceManifest(s)
    <2>1. /\ spc' = [spc EXCEPT ![s] = "after"] /\ loaded' = [loaded EXCEPT ![s] = NoFiles]
      BY <1>8 DEF WriteSliceManifest, Recording, Forget
    <2>2. WholeReports(bundle')
      <3>1. \E content : bundle' = [r \in DOMAIN bundle \cup {"manifest"} |->
                                     IF r = "manifest" THEN content ELSE bundle[r]]
        BY <1>8 DEF WriteSliceManifest, Put
      <3> QED
        BY <1>2, <3>1, OtherFileIsPut DEF Roles
    <2>3. \A t \in Slicings \ {s} : spc'[t] = spc[t] /\ loaded'[t] = loaded[t]
      BY <1>0, <2>1 DEF BundleTypeOK
    <2>4. spc'[s] = "after" /\ loaded'[s] = NoFiles
      BY <1>0, <2>1 DEF BundleTypeOK
    <2> QED
      BY <1>4, <2>2, <2>3, <2>4
  <1>9. CASE WriteSlicer(s)
    <2>1. Writes("slicer", "bambu", "slicer", s) /\ "slicer" \in Roles
      BY <1>9 DEF WriteSlicer, Recording, Put, Roles, SliceFiles
    <2> HIDE DEF Writes, Kept
    <2> QED
      BY <1>5, <2>1
  <1>10. CASE WriteBambu(s)
    <2>1. Writes("bambu", "validation", "bambu", s) /\ "bambu" \in Roles
      BY <1>10 DEF WriteBambu, Recording, Put, Roles, SliceFiles
    <2> HIDE DEF Writes, Kept
    <2> QED
      BY <1>5, <2>1
  <1>11. CASE WriteValidation(s)
    <2> DEFINE content == [loaded[s]["validation"] EXCEPT !.slice = s]
    <2>1. Writes("validation", "html", "validation", content) /\ "validation" \in Roles
      BY <1>11 DEF WriteValidation, Recording, Put, Roles, Reports
    <2>2. IsReport(content)
      BY <1>3, <1>11, SliceIsAdded DEF WriteValidation, Recording, Read
    <2> HIDE DEF content, Writes, Kept
    <2> QED
      BY <1>5, <2>1, <2>2
  <1>12. CASE WriteHtml(s)
    <2>1. Writes("html", "provenance", "html", bundle["validation"]) /\ "html" \in Roles
      BY <1>12 DEF WriteHtml, Recording, Put, Roles, Reports
    <2> HIDE DEF Writes, Kept
    <2> QED
      BY <1>5, <2>1
  <1>13. CASE WriteProvenance(s)
    <2> DEFINE content == [loaded[s]["provenance"] EXCEPT !.report.slice = s]
    <2>1. Writes("provenance", "manifest", "provenance", content) /\ "provenance" \in Roles
      BY <1>13 DEF WriteProvenance, Recording, Put, Roles, Reports
    <2>2. IsProvenance(content)
      BY <1>3, <1>13, SliceIsAdded DEF WriteProvenance, Recording, Read
    <2> HIDE DEF content, Writes, Kept
    <2> QED
      BY <1>5, <2>1, <2>2
  <1> QED
    BY <1>6, <1>7, <1>8, <1>9, <1>10, <1>11, <1>12, <1>13 DEF RecordSlice

\* Every file of a whole build of another version is of one build too.
LEMMA ForeignIsWhole ==
    ASSUME BundleAssumption, NEW v \in Rasters, NEW acquired \in BOOLEAN
    PROVE  WholeReports(BundleOf(v, acquired))
  <1> DEFINE sources == IF acquired THEN Sourced ELSE {}
             plain == IF acquired THEN WithMask(1) ELSE NoFiles
  <1>1. plain = [r \in sources |-> 1]
    BY DEF WithMask, NoFiles
  <1>2. WithDerived(plain, v) = BoundOf(v, sources).roles
    BY <1>1 DEF WithDerived, BoundOf
  <1>3. WholeReports(WithReports(WithDerived(plain, v), v))
    <2>1. sources \in {{}, Sourced}
      OBVIOUS
    <2> HIDE DEF sources, plain
    <2> QED
      BY <1>2, <2>1, ReportsAreWhole
  <1>4. BundleOf(v, acquired) = WithManifest(WithReports(WithDerived(plain, v), v), v)
    BY DEF BundleOf
  <1> HIDE DEF plain
  <1> QED
    BY <1>3, <1>4, OtherFileIsPut DEF WithManifest, Roles

\* The raster files are replaced, and files of another build copied in.
LEMMA FileSystemKeeps ==
    ASSUME BundleInv,
           \/ \E v \in Rasters : ReplaceInput(v)
           \/ \E v \in Rasters, acquired \in BOOLEAN, r \in Roles : CopyForeign(v, acquired, r)
           \/ UNCHANGED bundleVars
    PROVE  BundleInv'
  <1> USE BundleAssumption
  <1>0. BundleTypeOK /\ StagedAtStep /\ BundleAtStep
    BY DEF BundleInv
  <1>1. CASE \E v \in Rasters : ReplaceInput(v)
    <2>1. /\ UNCHANGED <<bpc, memory, staged, bundle, spc, loaded>>
          /\ elevation' \in Rasters /\ mask' \in Rasters /\ bundleEvents' \in 0..MaxBundleEvents
      BY <1>0, <1>1 DEF ReplaceInput, BundleEvent, BundleTypeOK
    <2> QED
      BY <1>0, <2>1 DEF BundleInv, BundleTypeOK, StagedAtStep, BundleAtStep
  <1>2. CASE \E v \in Rasters, acquired \in BOOLEAN, r \in Roles : CopyForeign(v, acquired, r)
    <2>1. PICK v \in Rasters, acquired \in BOOLEAN, role \in Roles : CopyForeign(v, acquired, role)
      BY <1>2
    <2>2. /\ bpc = "published" /\ UNCHANGED <<elevation, mask, bpc, memory, staged, spc, loaded>>
          /\ bundleEvents' \in 0..MaxBundleEvents /\ WholeReports(bundle)
          /\ role \in DOMAIN BundleOf(v, acquired)
          /\ bundle' = [r \in DOMAIN bundle \cup {role} |->
                          IF r = role THEN BundleOf(v, acquired)[role] ELSE bundle[r]]
      BY <1>0, <2>1 DEF CopyForeign, BundleEvent, BundleTypeOK, BundleAtStep
    <2>3. WholeReports(BundleOf(v, acquired))
      BY <2>1, ForeignIsWhole
    <2>4. /\ role = "validation" => IsReport(BundleOf(v, acquired)[role])
          /\ role = "provenance" => IsProvenance(BundleOf(v, acquired)[role])
      BY <2>3 DEF WholeReports
    <2>5. WholeReports(bundle')
      BY <2>2, <2>4, OtherFileIsPut
    <2> QED
      BY <1>0, <2>2, <2>5, AfterBuildKeeps DEF BundleTypeOK, SlicingSteps, SliceEnds
  <1>3. CASE UNCHANGED bundleVars
    BY <1>0, <1>3 DEF bundleVars, BundleInv, BundleTypeOK, StagedAtStep, BundleAtStep
  <1> QED
    BY <1>1, <1>2, <1>3

\* What the verification compares pins every file to the version one report tells of.
LEMMA VerifiedIsOfOneBuild ==
    ASSUME BundleAssumption, WholeReports(bundle)
    PROVE  BundleIsOfOneBuild
  <1> SUFFICES ASSUME Verifies(bundle)
               PROVE  \E v \in Rasters, s \in Slicings \cup {"none"} :
                         /\ \A r \in Derived : bundle[r] = v
                         /\ \A r \in {"validation", "html"} :
                               bundle[r] = [ReportOf(bundle) EXCEPT !.slice = s]
                         /\ bundle["provenance"].report = bundle["validation"]
                         /\ \A r \in SliceFiles \cap DOMAIN bundle : bundle[r] = s
                         /\ \A r \in Sourced \cap DOMAIN bundle : bundle[r] = 1
    BY DEF BundleIsOfOneBuild
  <1> USE BundleAssumption
  <1>1. PICK v \in Rasters, sources \in {{}, Sourced}, s \in Results :
           bundle["validation"] = WrittenReport(v, sources, s)
    BY DEF WholeReports, IsReport
  <1>2. PICK v2 \in Rasters, sources2 \in {{}, Sourced}, s2 \in Results :
           bundle["provenance"].report = WrittenReport(v2, sources2, s2)
    BY DEF WholeReports, IsProvenance, IsReport
  <1> DEFINE sha == bundle["manifest"].sha
             roles == BoundOf(v, sources).roles
  <1>3. /\ bundle["validation"].measured = v /\ bundle["validation"].slice = s
        /\ bundle["validation"].bindings = BoundOf(v, sources)
        /\ bundle["provenance"].report.measured = v2 /\ bundle["provenance"].report.slice = s2
        /\ bundle["provenance"].report.bindings = BoundOf(v2, sources2)
    BY <1>1, <1>2 DEF WrittenReport
  <1>4. /\ roles = Restrict(sha, DOMAIN sha \ Mutable)
        /\ BoundOf(v, sources) = BoundOf(v2, sources2)
    BY <1>3 DEF Verifies, BindingsHold
  <1>5. /\ DOMAIN roles = Derived \cup sources
        /\ \A r \in Derived \cup sources : roles[r] = IF r \in Derived THEN v ELSE 1
    BY DEF BoundOf
  <1>6. /\ DOMAIN roles = DOMAIN sha \ Mutable
        /\ \A r \in DOMAIN roles : r \in DOMAIN bundle /\ bundle[r] = roles[r]
    BY <1>4 DEF Restrict, Verifies, ManifestBinds
  <1>7. /\ \A r \in Derived : r \in DOMAIN bundle /\ bundle[r] = v
        /\ \A r \in sources : bundle[r] = IF r \in Derived THEN v ELSE 1
    BY <1>5, <1>6
  <1>8. Sourced \cap DOMAIN bundle = sources /\ Sourced \cap Derived = {}
    <2>1. Sourced \cap Mutable = {} /\ Sourced \cap Derived = {}
      BY DEF Sourced, Derived, Mutable, Reports, SliceFiles
    <2>2. CASE sources = {}
      <3>1. Sourced \cap DOMAIN sha = {}
        BY <1>5, <1>6, <2>1, <2>2
      <3>2. "source_quality" \in Sourced
        BY DEF Sourced
      <3> QED
        BY <2>1, <2>2, <3>1, <3>2 DEF Verifies, AcquisitionHolds
    <2>3. CASE sources = Sourced
      BY <1>5, <1>6, <2>1, <2>3
    <2> QED
      BY <2>2, <2>3
  <1>9. DOMAIN bundle \ (Mutable \cup {"manifest"}) = Derived \cup sources
    <2>1. DOMAIN bundle \subseteq Roles
      BY DEF WholeReports
    <2>2. Derived \cap (Mutable \cup {"manifest"}) = {} /\ Sourced \cap (Mutable \cup {"manifest"}) = {}
      BY DEF Sourced, Derived, Mutable, Reports, SliceFiles
    <2>3. Roles = Sourced \cup Derived \cup Mutable \cup {"manifest"}
      BY DEF Roles, Mutable
    <2> QED
      BY <1>7, <1>8, <2>1, <2>2, <2>3
  <1>10. {"processed_dem", "original_nodata_mask", "preflight"} \subseteq Derived
    BY DEF Derived
  <1>11. Bindings(bundle) = BoundOf(v, sources)
    <2>1. [r \in DOMAIN bundle \ (Mutable \cup {"manifest"}) |-> bundle[r]]
            = [r \in Derived \cup sources |-> IF r \in Derived THEN v ELSE 1]
      BY <1>7, <1>9
    <2> QED
      BY <1>7, <1>10, <2>1 DEF Bindings, BoundOf
  <1>12. [ReportOf(bundle) EXCEPT !.slice = s] = bundle["validation"]
    BY <1>1, <1>7, <1>10, <1>11 DEF ReportOf, WrittenReport
  <1>13. bundle["html"] = bundle["validation"]
    BY DEF Verifies, HtmlIsRendered
  <1>14. bundle["provenance"].report = bundle["validation"]
    <2>1. v2 = v
      BY <1>3 DEF Verifies, RasterHolds
    <2>2. s2 = s
      BY <1>3 DEF Verifies, SliceHolds
    <2> QED
      BY <1>1, <1>2, <1>4, <2>1, <2>2 DEF WrittenReport
  <1>15. \A r \in SliceFiles \cap DOMAIN bundle : bundle[r] = s
    BY <1>3 DEF Verifies, SliceHolds, SliceFiles
  <1>16. \A r \in Sourced \cap DOMAIN bundle : bundle[r] = 1
    BY <1>7, <1>8
  <1> QED
    BY <1>7, <1>12, <1>13, <1>14, <1>15, <1>16 DEF Results

\* Whatever input is replaced while a build reads it, whatever slicings are recorded
\* at the same time, and wherever one of them dies: a bundle that verifies is of one
\* build and of one slicing or none, its rasters, models, preflight and reports all
\* of one version (build_local_terrain, record_slice_validation,
\* verify_artifact_bundle).
THEOREM BundleIsOfOneBuildHolds ==
    BundleSpec => [](BundleTypeOK /\ BundleIsOfOneBuild)
  <1>1. BundleInv => BundleTypeOK /\ BundleIsOfOneBuild
    <2>1. bundle = NoFiles => ~ Verifies(bundle)
      BY DEF NoFiles, Verifies, Complete
    <2> QED
      BY <2>1, BundleAssumption, VerifiedIsOfOneBuild
      DEF BundleInv, BundleAtStep, BundleIsOfOneBuild
  <1>2. BundleInv /\ [BundleNext]_bundleVars => BundleInv'
    BY BuildingKeeps, RecordingKeeps, FileSystemKeeps DEF BundleNext
  <1> QED
    BY <1>1, <1>2, BundleInitial, PTL DEF BundleSpec

-----------------------------------------------------------------------------
(*****************************************************************************)
(* The evidence of Bambu Studio, for any number of tiles and of changes.     *)
(*****************************************************************************)

\* The steps of one run, and those after the last one.
RunSteps  == {"before", "running", "after", "inspecting", "keeping"}
LastSteps == {"recording", "verifying", "checking", "publishing"}

\* The first n runs are kept as they ran: of the bound sources, by the locked program.
KeptFirst(n) == \A i \in Runs : i <= n => kept[i].from = bound /\ kept[i].by = locked
AllCopied    == \A t \in 1..TileCount : copied[t] = bound
StageIsWhole == profiles = bound
                /\ \A i \in Runs : kept[i] = [from |-> bound, by |-> locked, flaw |-> "none"]

\* Where the call is.
PlaceIsRight ==
    /\ epc \in {"idle", "staging", "recording"} => place = 0
    /\ epc \in {"reading", "verifying"} => place \in Sources
    /\ epc \in RunSteps => place \in Runs
    /\ epc = "validating" => place \in Runs /\ ~ IsBuild(place)
CopiesAreBound ==
    /\ epc = "reading" => \A t \in 1..TileCount : 2 * t < place => copied[t] = bound
    /\ epc \in RunSteps \cup {"probing", "validating"} => AllCopied
\* The program only gets newer, so one that is the locked one after a run was the
\* locked one at the run.
ResultIsOfTheRun ==
    /\ locked <= slicer
    /\ epc \in {"after", "inspecting", "keeping"} =>
          /\ result.from = bound /\ locked <= result.by /\ result.by <= slicer
          /\ result.flaw \in FlawsOf(place) \cup {"none"}
          /\ epc # "after" => result.by = locked
KeptIsOfTheRuns ==
    /\ epc \in RunSteps => KeptFirst(place - 1)
    /\ epc = "validating" => KeptFirst(place)
    /\ epc \in LastSteps => KeptFirst(2 * TileCount)
    /\ \A i \in Runs : kept[i].flaw \in FlawsOf(i) \cup {"none"}
OutputIsWhole ==
    /\ epc = "publishing" => StageIsWhole
    /\ output = "evidence" => epc \in {"published", "uncertain"} /\ StageIsWhole

EvidenceInv ==
    /\ BambuEvidenceTypeOK /\ PlaceIsRight /\ CopiesAreBound /\ ResultIsOfTheRun
    /\ KeptIsOfTheRuns /\ OutputIsWhole

\* An even place in the sources is that of a tile's last file.
LEMMA TileArithmetic ==
    ASSUME NEW i \in Nat, i % 2 = 0
    PROVE  TileOf(i) \in Nat /\ 2 * TileOf(i) = i
  BY DEF TileOf

\* A build is followed by the reopening of what it built.
LEMMA RunAfterBuild ==
    ASSUME NEW i \in Runs, IsBuild(i)
    PROVE  i + 1 \in Runs /\ ~ IsBuild(i + 1) /\ TileOf(i + 1) \in 1..TileCount
  BY EvidenceAssumption DEF Runs, IsBuild, TileOf

\* A reopening is of the run before it.
LEMMA RunBeforeReopening ==
    ASSUME NEW i \in Runs, ~ IsBuild(i)
    PROVE  i - 1 \in Runs /\ IsBuild(i - 1)
  BY EvidenceAssumption DEF Runs, IsBuild

\* Before the call nothing is staged.
LEMMA EvidenceInitial == EvidenceInit => EvidenceInv
  <1> SUFFICES ASSUME EvidenceInit PROVE EvidenceInv
    OBVIOUS
  <1> USE EvidenceAssumption DEF EvidenceInit
  <1>1. NoRunFiles \in RunFiles /\ NoRunFiles.flaw = "none"
    BY DEF NoRunFiles, RunFiles
  <1>2. BambuEvidenceTypeOK
    BY <1>1 DEF BambuEvidenceTypeOK, Versions
  <1>3. PlaceIsRight /\ CopiesAreBound /\ ResultIsOfTheRun /\ KeptIsOfTheRuns /\ OutputIsWhole
    BY <1>1 DEF PlaceIsRight, CopiesAreBound, ResultIsOfTheRun, KeptIsOfTheRuns, OutputIsWhole,
       RunSteps, LastSteps, EvidenceEnded
  <1> QED
    BY <1>2, <1>3 DEF EvidenceInv

-----------------------------------------------------------------------------
(* The call *)

\* The steps that only look: they change the stage, a source or a program at most
\* by locking it.
LEMMA LookKeeps ==
    ASSUME EvidenceInv,
           LockExecutable \/ MakeStage \/ CheckBefore \/ CheckRun \/ RecordEvidence \/ VerifySource
    PROVE  EvidenceInv'
  <1> USE EvidenceAssumption DEF EvidenceInv
  <1> DEFINE Act == LockExecutable \/ MakeStage \/ CheckBefore \/ CheckRun \/ RecordEvidence
                    \/ VerifySource
  <1>1. /\ UNCHANGED <<sourceVars, bound, copied, profiles, kept, result, inspected, output>>
        /\ locked' \in Nat /\ locked' <= slicer /\ (epc # "idle" => locked' = locked)
        /\ evidenceEvents' \in 0..MaxEvidenceEvents
    BY DEF LockExecutable, MakeStage, CheckBefore, CheckRun, RecordEvidence, VerifySource,
       stageVars, sourceVars, EvidenceEvent, BambuEvidenceTypeOK, ResultIsOfTheRun
  <1>2. /\ epc = "idle" => epc' \in {"staging", "failed"}
        /\ epc = "staging" => epc' \in {"reading", "failed"}
        /\ epc = "before" => epc' \in {"running", "failed"}
        /\ epc = "after" => epc' = "failed" \/ (epc' = "inspecting" /\ slicer = locked)
        /\ epc = "recording" => epc' \in {"verifying", "failed"}
        /\ epc = "verifying" => epc' \in {"verifying", "checking", "failed"}
        /\ epc \in {"idle", "staging", "before", "after", "recording", "verifying"}
    BY DEF LockExecutable, MakeStage, CheckBefore, CheckRun, RecordEvidence, VerifySource, GiveUp
  <1>3. /\ epc # "verifying" => place' = place
        /\ place' \in Nat /\ (epc' = "verifying" => place' \in Sources)
    BY DEF LockExecutable, MakeStage, CheckBefore, CheckRun, RecordEvidence, VerifySource, GiveUp,
       PlaceIsRight, BambuEvidenceTypeOK, Sources
  <1>4. BambuEvidenceTypeOK'
    BY <1>1, <1>2, <1>3 DEF BambuEvidenceTypeOK, sourceVars, EvidenceEnded
  <1>5. PlaceIsRight'
    BY <1>2, <1>3 DEF PlaceIsRight, RunSteps, Sources
  <1>6. CopiesAreBound'
    BY <1>1, <1>2, <1>3 DEF CopiesAreBound, RunSteps, PlaceIsRight, AllCopied
  <1>7. ResultIsOfTheRun'
    BY <1>1, <1>2, <1>3 DEF ResultIsOfTheRun, sourceVars, BambuEvidenceTypeOK, RunFiles
  <1>8. KeptIsOfTheRuns'
    BY <1>1, <1>2, <1>3 DEF KeptIsOfTheRuns, KeptFirst, RunSteps, LastSteps
  <1>9. OutputIsWhole'
    BY <1>1, <1>2 DEF OutputIsWhole, StageIsWhole
  <1> QED
    BY <1>4, <1>5, <1>6, <1>7, <1>8, <1>9

\* Every source that is read is of the version that the first one bound.
LEMMA ReadKeeps ==
    ASSUME EvidenceInv, ReadSource PROVE EvidenceInv'
  <1> USE EvidenceAssumption DEF EvidenceInv
  <1>1. /\ UNCHANGED <<sourceVars, locked, profiles, kept, result, inspected, output, evidenceEvents>>
        /\ epc = "reading" /\ place \in Sources /\ sourceFile[place] \in Versions
    BY DEF ReadSource, PlaceIsRight, BambuEvidenceTypeOK
  <1>2. bound' \in Versions \cup {0} /\ (place # 0 => bound' = bound)
    BY <1>1 DEF ReadSource, PinnedVersion, BambuEvidenceTypeOK
  <1>3. /\ copied' \in [1..TileCount -> Versions \cup {0}]
        /\ epc' \in {"reading", "probing", "failed"} /\ place' \in Nat
        /\ epc' = "reading" => place' \in Sources
    BY <1>1 DEF ReadSource, PinnedVersion, BambuEvidenceTypeOK, CopyAside, GiveUp, Sources
  <1>4. epc' # "failed" => /\ place' = place + 1
                           /\ epc' = "probing" => place = 2 * TileCount + 1
                           /\ \A t \in 1..TileCount : 2 * t < place' => copied'[t] = bound'
    <2> SUFFICES ASSUME epc' # "failed"
                 PROVE  /\ place' = place + 1 /\ (epc' = "probing" => place = 2 * TileCount + 1)
                        /\ \A t \in 1..TileCount : 2 * t < place' => copied'[t] = bound'
      OBVIOUS
    <2>1. /\ place' = place + 1 /\ CopyAside(place) /\ sourceFile[place] = bound'
          /\ epc' = "probing" => place + 1 \notin Sources
      BY DEF ReadSource, GiveUp, PinnedVersion
    <2>2. ASSUME NEW t \in 1..TileCount, 2 * t < place' PROVE copied'[t] = bound'
      <3>1. CASE 2 * t = place
        <4>1. place > 1 /\ place % 2 = 0 /\ TileOf(place) = t
          BY <3>1 DEF TileOf
        <4> QED
          BY <2>1, <4>1 DEF CopyAside, PinnedVersion, BambuEvidenceTypeOK
      <3>2. CASE 2 * t # place
        <4>1. 2 * t < place /\ copied[t] = bound /\ place # 0
          BY <2>1, <2>2, <3>2, <1>1 DEF CopiesAreBound, Sources
        <4>2. copied'[t] = copied[t]
          <5>1. CASE place > 1 /\ place % 2 = 0
            <6>1. 2 * TileOf(place) = place
              BY <5>1, <1>1 DEF TileOf, Sources
            <6> QED
              BY <2>1, <5>1, <6>1, <3>2 DEF CopyAside, BambuEvidenceTypeOK
          <5>2. CASE ~ (place > 1 /\ place % 2 = 0)
            BY <2>1, <5>2 DEF CopyAside
          <5> QED
            BY <5>1, <5>2
        <4> QED
          BY <4>1, <4>2, <1>2
      <3> QED
        BY <3>1, <3>2
    <2> QED
      BY <2>1, <2>2, <1>1 DEF Sources
  <1>5. BambuEvidenceTypeOK'
    BY <1>1, <1>2, <1>3 DEF BambuEvidenceTypeOK, sourceVars, EvidenceEnded
  <1>6. PlaceIsRight'
    BY <1>3 DEF PlaceIsRight, RunSteps
  <1>7. CopiesAreBound'
    BY <1>3, <1>4, <1>1 DEF CopiesAreBound, RunSteps, AllCopied, Sources
  <1>8. ResultIsOfTheRun' /\ KeptIsOfTheRuns'
    BY <1>1, <1>3 DEF ResultIsOfTheRun, KeptIsOfTheRuns, sourceVars, RunSteps, LastSteps
  <1>9. OutputIsWhole'
    BY <1>1, <1>3 DEF OutputIsWhole
  <1> QED
    BY <1>5, <1>6, <1>7, <1>8, <1>9

\* The probe of the locked program opens the loop over the tiles.
LEMMA ProbeKeeps ==
    ASSUME EvidenceInv, Probe PROVE EvidenceInv'
  <1> USE EvidenceAssumption DEF EvidenceInv
  <1>1. /\ UNCHANGED <<sourceVars, locked, bound, copied, kept, result, inspected, output,
                       evidenceEvents>>
        /\ epc = "probing" /\ epc' \in {"before", "failed"} /\ place' = 1 /\ profiles' = bound
    BY DEF Probe, GiveUp
  <1>2. BambuEvidenceTypeOK' /\ PlaceIsRight'
    BY <1>1 DEF BambuEvidenceTypeOK, sourceVars, EvidenceEnded, PlaceIsRight, RunSteps, Runs
  <1>3. CopiesAreBound' /\ ResultIsOfTheRun'
    BY <1>1 DEF CopiesAreBound, RunSteps, AllCopied, ResultIsOfTheRun, sourceVars
  <1>4. KeptIsOfTheRuns' /\ OutputIsWhole'
    BY <1>1 DEF KeptIsOfTheRuns, KeptFirst, RunSteps, LastSteps, OutputIsWhole, Runs
  <1> QED
    BY <1>2, <1>3, <1>4

\* A build is of its copy, a reopening of the build that was kept before it.
LEMMA RunKeeps ==
    ASSUME EvidenceInv, RunBambu PROVE EvidenceInv'
  <1> USE EvidenceAssumption DEF EvidenceInv
  <1>1. /\ UNCHANGED <<sourceVars, stageVars, place, inspected, output>>
        /\ epc = "running" /\ epc' = "after" /\ place \in Runs
        /\ evidenceEvents' \in 0..MaxEvidenceEvents
    BY DEF RunBambu, EvidenceEvent, BambuEvidenceTypeOK, PlaceIsRight, RunSteps
  <1>2. PICK flaw \in FlawsOf(place) \cup {"none"} :
            result' = [by |-> slicer, flaw |-> flaw,
                       from |-> IF IsBuild(place) THEN copied[TileOf(place + 1)]
                                ELSE kept[place - 1].from]
    BY DEF RunBambu
  <1>3. result'.from = bound
    <2>1. CASE IsBuild(place)
      <3>1. TileOf(place + 1) \in 1..TileCount
        BY <1>1, <2>1, RunAfterBuild
      <3> QED
        BY <1>1, <1>2, <2>1, <3>1 DEF CopiesAreBound, AllCopied, RunSteps
    <2>2. CASE ~ IsBuild(place)
      <3>1. place - 1 \in Runs
        BY <1>1, <2>2, RunBeforeReopening
      <3> QED
        BY <1>1, <1>2, <2>2, <3>1 DEF KeptIsOfTheRuns, KeptFirst, RunSteps, Runs
    <2> QED
      BY <2>1, <2>2
  <1>4. flaw \in Flaws \cup {"none"}
    BY DEF FlawsOf, Flaws
  <1>5. result' \in RunFiles
    BY <1>2, <1>3, <1>4 DEF RunFiles, BambuEvidenceTypeOK
  <1>6. BambuEvidenceTypeOK' /\ PlaceIsRight'
    BY <1>1, <1>5 DEF BambuEvidenceTypeOK, sourceVars, stageVars, PlaceIsRight, RunSteps
  <1>7. CopiesAreBound' /\ KeptIsOfTheRuns' /\ OutputIsWhole'
    BY <1>1 DEF CopiesAreBound, KeptIsOfTheRuns, OutputIsWhole, stageVars, AllCopied, KeptFirst,
       RunSteps, LastSteps
  <1>8. ResultIsOfTheRun'
    BY <1>1, <1>2, <1>3 DEF ResultIsOfTheRun, sourceVars, stageVars, BambuEvidenceTypeOK
  <1> QED
    BY <1>6, <1>7, <1>8

\* What the run made is inspected where it stands.
LEMMA InspectKeeps ==
    ASSUME EvidenceInv, InspectRun PROVE EvidenceInv'
  <1> USE EvidenceAssumption DEF EvidenceInv
  <1>1. /\ UNCHANGED <<sourceVars, stageVars, place, result, output, evidenceEvents>>
        /\ epc = "inspecting" /\ epc' \in {"keeping", "failed"}
        /\ inspected' \in [Runs -> RunFiles]
    BY DEF InspectRun, BambuEvidenceTypeOK
  <1>2. BambuEvidenceTypeOK' /\ PlaceIsRight'
    BY <1>1 DEF BambuEvidenceTypeOK, sourceVars, stageVars, PlaceIsRight, RunSteps, EvidenceEnded
  <1>3. CopiesAreBound' /\ KeptIsOfTheRuns' /\ OutputIsWhole'
    BY <1>1 DEF CopiesAreBound, KeptIsOfTheRuns, OutputIsWhole, stageVars, AllCopied, KeptFirst,
       RunSteps, LastSteps
  <1>4. ResultIsOfTheRun'
    BY <1>1 DEF ResultIsOfTheRun, sourceVars, stageVars
  <1> QED
    BY <1>2, <1>3, <1>4

\* What is kept of a run is the files it left.
LEMMA KeepKeeps ==
    ASSUME EvidenceInv, KeepRun PROVE EvidenceInv'
  <1> USE EvidenceAssumption DEF EvidenceInv
  <1>1. /\ UNCHANGED <<sourceVars, locked, bound, copied, profiles, result, inspected, output,
                       evidenceEvents>>
        /\ epc = "keeping" /\ place \in Runs
    BY DEF KeepRun, PlaceIsRight, RunSteps
  <1>2. \/ epc' = "failed" /\ UNCHANGED <<kept, place>>
        \/ /\ kept' = [kept EXCEPT ![place] = result]
           /\ \/ IsBuild(place) /\ epc' = "before" /\ place' = place + 1
              \/ ~ IsBuild(place) /\ epc' = "validating" /\ place' = place
    BY DEF KeepRun, GiveUp
  <1>3. /\ place' \in Runs
        /\ kept' \in [Runs -> RunFiles]
        /\ \A i \in Runs : kept'[i].flaw \in FlawsOf(i) \cup {"none"}
    BY <1>1, <1>2, RunAfterBuild DEF BambuEvidenceTypeOK, ResultIsOfTheRun, KeptIsOfTheRuns
  <1>4. epc' # "failed" =>
           \A i \in Runs : i <= place => kept'[i].from = bound /\ kept'[i].by = locked
    <2>1. \A i \in Runs : i < place => kept[i].from = bound /\ kept[i].by = locked
      BY <1>1 DEF KeptIsOfTheRuns, KeptFirst, RunSteps, Runs
    <2>2. result.from = bound /\ result.by = locked
      BY <1>1 DEF ResultIsOfTheRun
    <2> QED
      BY <1>1, <1>2, <2>1, <2>2 DEF BambuEvidenceTypeOK, Runs
  <1>5. BambuEvidenceTypeOK' /\ PlaceIsRight'
    BY <1>1, <1>2, <1>3 DEF BambuEvidenceTypeOK, sourceVars, PlaceIsRight, RunSteps, EvidenceEnded,
       Runs
  <1>6. CopiesAreBound' /\ OutputIsWhole' /\ ResultIsOfTheRun'
    BY <1>1, <1>2 DEF CopiesAreBound, AllCopied, OutputIsWhole, ResultIsOfTheRun, sourceVars, RunSteps
  <1>7. KeptIsOfTheRuns'
    <2>1. epc' = "before" => KeptFirst(place - 1)'
      BY <1>1, <1>2, <1>4 DEF KeptFirst, Runs
    <2>2. epc' = "validating" => KeptFirst(place)'
      BY <1>1, <1>2, <1>4 DEF KeptFirst
    <2> QED
      BY <1>2, <1>3, <2>1, <2>2 DEF KeptIsOfTheRuns, RunSteps, LastSteps
  <1> QED
    BY <1>5, <1>6, <1>7

\* A tile is done when what its build made was reopened.
LEMMA ValidateKeeps ==
    ASSUME EvidenceInv, ValidateTile PROVE EvidenceInv'
  <1> USE EvidenceAssumption DEF EvidenceInv
  <1>1. /\ UNCHANGED <<sourceVars, stageVars, result, inspected, output, evidenceEvents>>
        /\ epc = "validating" /\ place \in Runs
    BY DEF ValidateTile, PlaceIsRight
  <1>2. \/ epc' = "failed" /\ place' = place
        \/ epc' = "before" /\ place' = place + 1 /\ place + 1 \in Runs
        \/ epc' = "recording" /\ place' = 0 /\ place + 1 \notin Runs
    BY <1>1 DEF ValidateTile, GiveUp, Runs
  <1>3. BambuEvidenceTypeOK' /\ PlaceIsRight'
    BY <1>1, <1>2 DEF BambuEvidenceTypeOK, sourceVars, stageVars, PlaceIsRight, RunSteps,
       EvidenceEnded, Runs
  <1>4. CopiesAreBound' /\ OutputIsWhole' /\ ResultIsOfTheRun'
    BY <1>1, <1>2 DEF CopiesAreBound, AllCopied, OutputIsWhole, ResultIsOfTheRun, sourceVars,
       stageVars, RunSteps
  <1>5. KeptIsOfTheRuns'
    <2>1. \A i \in Runs : i <= place => kept'[i].from = bound' /\ kept'[i].by = locked'
      BY <1>1 DEF KeptIsOfTheRuns, KeptFirst, stageVars
    <2> QED
      BY <1>1, <1>2, <2>1 DEF KeptIsOfTheRuns, KeptFirst, stageVars, RunSteps, LastSteps, Runs
  <1> QED
    BY <1>3, <1>4, <1>5

\* The last inspection accepts only runs without a flaw.
LEMMA CheckStageKeeps ==
    ASSUME EvidenceInv, CheckStage PROVE EvidenceInv'
  <1> USE EvidenceAssumption DEF EvidenceInv
  <1>1. /\ UNCHANGED <<sourceVars, stageVars, place, result, inspected, output, evidenceEvents>>
        /\ epc = "checking" /\ epc' \in {"publishing", "failed"}
    BY DEF CheckStage
  <1>2. epc' = "publishing" => StageIsWhole
    <2> SUFFICES ASSUME epc' = "publishing", NEW i \in Runs
                 PROVE  kept[i] = [from |-> bound, by |-> locked, flaw |-> "none"]
      BY DEF CheckStage, ProfilesMatch, StageIsWhole
    <2>1. ArchiveOpens(i, kept[i]) /\ Convinces(i, kept[i])
      BY DEF CheckStage
    <2>2. kept[i].flaw = "none"
      BY <2>1 DEF ArchiveOpens, Convinces, KeptIsOfTheRuns, FlawsOf, Flaws, DirectoryAgrees,
         MembersAreValid, ModelIsTheSource, GcodePasses, RecordPasses
    <2>3. kept[i].from = bound /\ kept[i].by = locked
      BY <1>1 DEF KeptIsOfTheRuns, KeptFirst, LastSteps, Runs
    <2>4. kept[i] \in RunFiles
      BY DEF BambuEvidenceTypeOK
    <2> QED
      BY <2>2, <2>3, <2>4 DEF RunFiles
  <1>3. BambuEvidenceTypeOK' /\ PlaceIsRight'
    BY <1>1 DEF BambuEvidenceTypeOK, sourceVars, stageVars, PlaceIsRight, RunSteps, EvidenceEnded
  <1>4. CopiesAreBound' /\ ResultIsOfTheRun' /\ KeptIsOfTheRuns'
    BY <1>1 DEF CopiesAreBound, ResultIsOfTheRun, sourceVars, stageVars, RunSteps, LastSteps,
       KeptIsOfTheRuns, KeptFirst
  <1>5. OutputIsWhole'
    BY <1>1, <1>2 DEF OutputIsWhole, StageIsWhole, stageVars
  <1> QED
    BY <1>3, <1>4, <1>5

\* The rename publishes the stage, or something else has the name.
LEMMA PublishEvidenceKeeps ==
    ASSUME EvidenceInv, PublishEvidence PROVE EvidenceInv'
  <1> USE EvidenceAssumption DEF EvidenceInv
  <1>1. /\ UNCHANGED <<sourceVars, stageVars, place, result, inspected>>
        /\ epc = "publishing" /\ epc' \in EvidenceEnded
        /\ evidenceEvents' \in 0..MaxEvidenceEvents
        /\ output' = output \/ (output' = "evidence" /\ epc' # "failed")
    BY DEF PublishEvidence, GiveUp, EvidenceEvent, RenameNoReplace, EvidenceEnded, BambuEvidenceTypeOK
  <1>2. BambuEvidenceTypeOK' /\ PlaceIsRight'
    BY <1>1 DEF BambuEvidenceTypeOK, sourceVars, stageVars, PlaceIsRight, RunSteps, EvidenceEnded
  <1>3. CopiesAreBound' /\ ResultIsOfTheRun' /\ KeptIsOfTheRuns'
    BY <1>1 DEF CopiesAreBound, ResultIsOfTheRun, sourceVars, stageVars, RunSteps, LastSteps,
       KeptIsOfTheRuns, KeptFirst, EvidenceEnded
  <1>4. OutputIsWhole'
    BY <1>1 DEF OutputIsWhole, StageIsWhole, stageVars, EvidenceEnded
  <1> QED
    BY <1>2, <1>3, <1>4

-----------------------------------------------------------------------------
(* The others *)

\* From outside come another program, another source, or something at the output.
LEMMA ReplaceKeeps ==
    ASSUME EvidenceInv, ReplaceProgram \/ TakeOutput \/ \E i \in Sources : ReplaceSource(i)
    PROVE  EvidenceInv'
  <1> USE EvidenceAssumption DEF EvidenceInv
  <1>1. /\ UNCHANGED <<stageVars, epc, place, result, inspected>>
        /\ evidenceEvents' \in 0..MaxEvidenceEvents
        /\ output' = output \/ output' = "other"
        /\ slicer' \in Nat /\ slicer <= slicer'
        /\ sourceFile' \in [Sources -> Versions]
    BY DEF ReplaceProgram, TakeOutput, ReplaceSource, EvidenceEvent, BambuEvidenceTypeOK, sourceVars,
       Versions
  <1>2. BambuEvidenceTypeOK' /\ PlaceIsRight'
    BY <1>1 DEF BambuEvidenceTypeOK, stageVars, PlaceIsRight
  <1>3. CopiesAreBound' /\ KeptIsOfTheRuns' /\ OutputIsWhole'
    BY <1>1 DEF CopiesAreBound, KeptIsOfTheRuns, OutputIsWhole, StageIsWhole, KeptFirst, AllCopied,
       stageVars
  <1>4. ResultIsOfTheRun'
    BY <1>1 DEF ResultIsOfTheRun, stageVars, BambuEvidenceTypeOK, RunFiles
  <1> QED
    BY <1>2, <1>3, <1>4

\* What a run left behind may change before it is kept.
LEMMA ChangeResultKeeps ==
    ASSUME EvidenceInv, ChangeResult PROVE EvidenceInv'
  <1> USE EvidenceAssumption DEF EvidenceInv
  <1>1. /\ UNCHANGED <<sourceVars, stageVars, epc, place, inspected, output>> /\ epc = "keeping"
        /\ evidenceEvents' \in 0..MaxEvidenceEvents
    BY DEF ChangeResult, EvidenceEvent, BambuEvidenceTypeOK
  <1>2. PICK flaw \in FlawsOf(place) : result' = [result EXCEPT !.flaw = flaw]
    BY DEF ChangeResult
  <1>3. /\ result' \in RunFiles /\ result'.flaw = flaw
        /\ result'.from = result.from /\ result'.by = result.by
    BY <1>2 DEF RunFiles, FlawsOf, Flaws, BambuEvidenceTypeOK
  <1>4. BambuEvidenceTypeOK' /\ PlaceIsRight'
    BY <1>1, <1>3 DEF BambuEvidenceTypeOK, sourceVars, stageVars, PlaceIsRight
  <1>5. CopiesAreBound' /\ KeptIsOfTheRuns' /\ OutputIsWhole'
    BY <1>1 DEF CopiesAreBound, KeptIsOfTheRuns, OutputIsWhole, StageIsWhole, KeptFirst, AllCopied,
       stageVars
  <1>6. ResultIsOfTheRun'
    BY <1>1, <1>3 DEF ResultIsOfTheRun, sourceVars, stageVars
  <1> QED
    BY <1>4, <1>5, <1>6

\* Damage gives a run of the stage a flaw, never another source or program.
LEMMA DamageStageKeeps ==
    ASSUME EvidenceInv, DamageStage PROVE EvidenceInv'
  <1> USE EvidenceAssumption DEF EvidenceInv
  <1>1. /\ UNCHANGED <<sourceVars, locked, bound, copied, epc, place, result, inspected, output>>
        /\ epc \notin {"publishing", "published", "uncertain"}
        /\ evidenceEvents' \in 0..MaxEvidenceEvents
        /\ profiles' \in Versions \cup {0}
    BY DEF DamageStage, EvidenceEvent, BambuEvidenceTypeOK
  <1>2. /\ kept' \in [Runs -> RunFiles]
        /\ \A i \in Runs : /\ kept'[i].from = kept[i].from /\ kept'[i].by = kept[i].by
                           /\ kept'[i].flaw \in FlawsOf(i) \cup {"none"}
    <2>1. CASE UNCHANGED kept
      BY <2>1 DEF BambuEvidenceTypeOK, KeptIsOfTheRuns
    <2>2. ASSUME NEW i \in Runs, NEW flaw \in FlawsOf(i), kept' = [kept EXCEPT ![i].flaw = flaw]
          PROVE  <1>2!1 /\ <1>2!2
      <3>1. flaw \in Flaws /\ kept[i] \in RunFiles
        BY DEF FlawsOf, Flaws, BambuEvidenceTypeOK
      <3> DEFINE files == [kept[i] EXCEPT !.flaw = flaw]
      <3>2. /\ files \in RunFiles /\ files.flaw = flaw
            /\ files.from = kept[i].from /\ files.by = kept[i].by
        BY <3>1 DEF RunFiles
      <3>3. kept' = [kept EXCEPT ![i] = files]
        BY <2>2
      <3> HIDE DEF files
      <3> QED
        BY <3>2, <3>3 DEF BambuEvidenceTypeOK, KeptIsOfTheRuns
    <2> QED
      BY <2>1, <2>2 DEF DamageStage
  <1>3. BambuEvidenceTypeOK' /\ PlaceIsRight'
    BY <1>1, <1>2 DEF BambuEvidenceTypeOK, sourceVars, PlaceIsRight
  <1>4. CopiesAreBound' /\ ResultIsOfTheRun' /\ OutputIsWhole'
    BY <1>1 DEF CopiesAreBound, ResultIsOfTheRun, OutputIsWhole, AllCopied, sourceVars
  <1>5. KeptIsOfTheRuns'
    BY <1>1, <1>2 DEF KeptIsOfTheRuns, KeptFirst
  <1> QED
    BY <1>3, <1>4, <1>5

\* Published evidence is of the sources its manifest binds, whatever happened.
THEOREM EvidenceIsOfItsSourceHolds == EvidenceSpec => [](BambuEvidenceTypeOK /\ EvidenceIsOfItsSource)
  <1>1. EvidenceInv /\ [EvidenceNext]_evidenceVars => EvidenceInv'
    <2> SUFFICES ASSUME EvidenceInv, [EvidenceNext]_evidenceVars PROVE EvidenceInv'
      OBVIOUS
    <2>1. CASE EvidenceNext
      BY <2>1, LookKeeps, ReadKeeps, ProbeKeeps, RunKeeps, InspectKeeps, KeepKeeps, ValidateKeeps,
         CheckStageKeeps, PublishEvidenceKeeps, ReplaceKeeps, ChangeResultKeeps, DamageStageKeeps
      DEF EvidenceNext
    <2>2. CASE UNCHANGED evidenceVars
      BY <2>2 DEF evidenceVars, sourceVars, stageVars, EvidenceInv, BambuEvidenceTypeOK, PlaceIsRight,
         CopiesAreBound, AllCopied, ResultIsOfTheRun, KeptIsOfTheRuns, KeptFirst, OutputIsWhole,
         StageIsWhole
    <2> QED
      BY <2>1, <2>2
  <1>2. EvidenceInv => BambuEvidenceTypeOK /\ EvidenceIsOfItsSource
    BY DEF EvidenceInv, OutputIsWhole, StageIsWhole, EvidenceIsOfItsSource
  <1> QED
    BY EvidenceInitial, <1>1, <1>2, PTL DEF EvidenceSpec

===============================================================================
