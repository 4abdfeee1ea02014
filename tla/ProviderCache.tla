---------------------------- MODULE ProviderCache ----------------------------
(***************************************************************************)
(* The download cache of the elevation providers: ContentAddressedCache    *)
(* (providers/cache.py) and CachingHttpClient.download                     *)
(* (providers/transport.py).  Processes share one cache directory without  *)
(* a lock: an index file per request names an object by the hash of its    *)
(* content.  Files may be damaged, a server may change what it serves, a   *)
(* write may fail, a client may die.                                       *)
(***************************************************************************)
EXTENDS Naturals, FiniteSets

CONSTANTS
    Clients, Identities,  \* downloading processes, and the requests they make
    Contents,             \* what a server may send, and the name of its object
    MaxAttempts,          \* HttpTransportConfig.max_attempts
    MaxCacheEvents        \* bound: damage, server changes, deaths, failed requests

ASSUME CacheAssumption ==
    MaxAttempts \in Nat \ {0} /\ MaxCacheEvents \in Nat /\ Contents \cap {"none", "bad"} = {}

VARIABLES
    serves,     \* what the server answers to each request now
    served,     \* what it ever answered
    index,      \* the object each request's index names, "none" or "bad"
    object,     \* each object: "none", "good" or "bad"
    client,     \* [pc, wants, only, tries, got] of each client
    harm,       \* each object's past: never damaged, damaged and "open", "mended" since
    cacheEvents

cacheVars == <<serves, served, index, object, client, harm, cacheEvents>>

Idle == [pc |-> "idle", wants |-> "none", only |-> FALSE, tries |-> 0, got |-> "none"]

ProviderCacheTypeOK ==
    /\ serves \in [Identities -> Contents]
    /\ served \in [Identities -> SUBSET Contents]
    /\ index \in [Identities -> Contents \cup {"none", "bad"}]
    /\ object \in [Contents -> {"none", "good", "bad"}]
    /\ client \in [Clients -> [pc : {"idle", "looking", "invalidating", "fetching", "checking",
                                     "dropping", "placing", "indexing", "reopening", "hit",
                                     "miss", "failed", "gone"},
                               wants : Identities \cup {"none"}, only : BOOLEAN,
                               tries : 0..MaxAttempts, got : Contents \cup {"none"}]]
    /\ harm \in [Contents -> {"none", "open", "mended"}]
    /\ cacheEvents \in 0..MaxCacheEvents

CacheInit ==
    /\ serves \in [Identities -> Contents]
    /\ served = [i \in Identities |-> {}]
    /\ index = [i \in Identities |-> "none"] /\ object = [c \in Contents |-> "none"]
    /\ client = [k \in Clients |-> Idle]
    /\ harm = [c \in Contents |-> "none"] /\ cacheEvents = 0

CacheEvent == cacheEvents < MaxCacheEvents /\ cacheEvents' = cacheEvents + 1
At(k, step)  == client[k].pc = step
To(k, step)  == client' = [client EXCEPT ![k].pc = step]
Want(k)      == client[k].wants
Got(k)       == client[k].got

\* The index is read, matched with the request, and its object hashed.
Lookup(i) ==
    CASE index[i] = "none" -> "miss"
      [] index[i] \in Contents /\ object[index[i]] = "good" -> "hit"
      [] OTHER -> "corrupt"

Download(k) ==
    /\ At(k, "idle")
    /\ \E i \in Identities, only \in BOOLEAN :
          client' = [client EXCEPT ![k] = [Idle EXCEPT !.pc = "looking", !.wants = i,
                                                       !.only = only]]
    /\ UNCHANGED <<serves, served, index, object, harm, cacheEvents>>

\* A verified object is returned; a cache-only request ends here.
LookInCache(k) ==
    /\ At(k, "looking")
    /\ LET found == Lookup(Want(k)) IN
       client' = [client EXCEPT
           ![k].pc = IF found = "hit" THEN "hit" ELSE IF client[k].only THEN "miss"
                     ELSE IF found = "corrupt" THEN "invalidating" ELSE "fetching",
           ![k].got = IF found = "hit" THEN index[Want(k)] ELSE "none"]
    /\ UNCHANGED <<serves, served, index, object, harm, cacheEvents>>

\* Only the index is removed, whoever wrote it meanwhile.
Invalidate(k) ==
    /\ At(k, "invalidating")
    /\ index' = [index EXCEPT ![Want(k)] = "none"]
    /\ To(k, "fetching")
    /\ UNCHANGED <<serves, served, object, harm, cacheEvents>>

\* Mutant: one attempt too many.
RetryOnceMore(k) ==
    client' = [client EXCEPT ![k].pc = IF client[k].tries <= MaxAttempts THEN "fetching"
                                       ELSE "failed"]

\* A retryable failure is repeated until max_attempts; others end the download.
RetryOrFail(k) ==
    client' = [client EXCEPT ![k].pc = IF client[k].tries < MaxAttempts THEN "fetching"
                                       ELSE "failed"]

Fetch(k) ==
    /\ At(k, "fetching")
    /\ LET tries == client[k].tries + 1 IN
       \/ /\ client' = [client EXCEPT ![k].pc = "checking", ![k].tries = tries,
                                      ![k].got = serves[Want(k)]]
          /\ served' = [served EXCEPT ![Want(k)] = @ \cup {serves[Want(k)]}]
          /\ UNCHANGED cacheEvents
       \/ /\ CacheEvent /\ UNCHANGED served
          /\ \E step \in {"fetching", "failed"} :
                client' = [client EXCEPT ![k].tries = tries,
                              ![k].pc = IF tries < MaxAttempts THEN step ELSE "failed"]
    /\ UNCHANGED <<serves, index, object, harm>>

\* store: an object of this name is hashed ...
CheckObject(k) ==
    /\ At(k, "checking")
    /\ To(k, CASE object[Got(k)] = "good" -> "indexing"
               [] object[Got(k)] = "bad"  -> "dropping"
               [] OTHER -> "placing")
    /\ UNCHANGED <<serves, served, index, object, harm, cacheEvents>>

\* Mutant: nothing is written in its place.
DropOnly(k) ==
    /\ At(k, "dropping")
    /\ IF object[Got(k)] = "none" THEN UNCHANGED object /\ RetryOrFail(k)
       ELSE object' = [object EXCEPT ![Got(k)] = "none"] /\ To(k, "indexing")
    /\ UNCHANGED <<serves, served, index, harm, cacheEvents>>

\* ... and unlinked if it was bad, though it may be another one by now ...
DropObject(k) ==
    /\ At(k, "dropping")
    /\ IF object[Got(k)] = "none" THEN UNCHANGED object /\ RetryOrFail(k)
       ELSE object' = [object EXCEPT ![Got(k)] = "none"] /\ To(k, "placing")
    /\ UNCHANGED <<serves, served, index, harm, cacheEvents>>

\* ... and written aside, hashed and renamed if none is there.
PlaceObject(k) ==
    /\ At(k, "placing")
    /\ IF object[Got(k)] = "none"
       THEN /\ object' = [object EXCEPT ![Got(k)] = "good"]
            /\ harm' = [harm EXCEPT ![Got(k)] = IF @ = "none" THEN @ ELSE "mended"]
       ELSE UNCHANGED <<object, harm>>
    /\ To(k, "indexing")
    /\ UNCHANGED <<serves, served, index, cacheEvents>>

WriteIndex(k) ==
    /\ At(k, "indexing")
    /\ index' = [index EXCEPT ![Want(k)] = Got(k)]
    /\ To(k, "reopening")
    /\ UNCHANGED <<serves, served, object, harm, cacheEvents>>

\* What is returned is looked up again: another client's index counts as well.
ReopenStored(k) ==
    /\ At(k, "reopening")
    /\ IF Lookup(Want(k)) = "hit"
       THEN client' = [client EXCEPT ![k].pc = "hit", ![k].got = index[Want(k)]]
       ELSE RetryOrFail(k)
    /\ UNCHANGED <<serves, served, index, object, harm, cacheEvents>>

\* A client that leaves between unlinking and placing leaves a mended object undone.
Abandons(k) ==
    harm' = [c \in Contents |->
               IF At(k, "placing") /\ c = Got(k) /\ object[c] = "none" /\ harm[c] = "mended"
               THEN "open" ELSE harm[c]]

\* The object vanishes while it is hashed, or a write fails: tried again as a
\* failed request is.
StoreFails(k) ==
    /\ At(k, "checking") \/ At(k, "placing") \/ At(k, "indexing")
    /\ CacheEvent /\ RetryOrFail(k) /\ Abandons(k)
    /\ UNCHANGED <<serves, served, index, object>>

DownloadDies(k) ==
    /\ client[k].pc \notin {"idle", "hit", "miss", "failed", "gone"} /\ CacheEvent
    /\ To(k, "gone") /\ Abandons(k)
    /\ UNCHANGED <<serves, served, index, object>>

DamageCache ==
    /\ CacheEvent
    /\ \/ /\ \E i \in Identities : index[i] # "none" /\ index' = [index EXCEPT ![i] = "bad"]
          /\ UNCHANGED <<object, harm>>
       \/ /\ \E c \in Contents, now \in {"bad", "none"} :
                /\ object[c] # "none" /\ object' = [object EXCEPT ![c] = now]
                /\ harm' = [harm EXCEPT ![c] = "open"]
          /\ UNCHANGED index
    /\ UNCHANGED <<serves, served, client>>

ServerChanges ==
    /\ CacheEvent
    /\ \E i \in Identities, c \in Contents : serves' = [serves EXCEPT ![i] = c]
    /\ UNCHANGED <<served, index, object, client, harm>>

ClientStep(k) ==
    \/ Download(k) \/ LookInCache(k) \/ Invalidate(k) \/ Fetch(k) \/ CheckObject(k)
    \/ DropObject(k) \/ PlaceObject(k) \/ WriteIndex(k) \/ ReopenStored(k) \/ StoreFails(k)
    \/ DownloadDies(k)

CacheNext == DamageCache \/ ServerChanges \/ \E k \in Clients : ClientStep(k)
CacheSpec == CacheInit /\ [][CacheNext]_cacheVars

-----------------------------------------------------------------------------
(* Properties *)

\* A download returns what the server sent for that request, and its object stays:
\* nobody takes away one that was never damaged from outside, and one that was
\* damaged and mended is missing only while another client, which had found it bad
\* and so unlinked what was published since, is about to place it again.
DownloadsStay ==
    \A k \in Clients : At(k, "hit") =>
        /\ Got(k) \in served[Want(k)]
        /\ \/ object[Got(k)] = "good" \/ harm[Got(k)] = "open"
           \/ /\ harm[Got(k)] = "mended"
              /\ \E other \in Clients : At(other, "placing") /\ Got(other) = Got(k)

=============================================================================
