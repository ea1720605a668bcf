---------------------------- MODULE AddressBook ----------------------------
(***************************************************************************)
(* The address book (AddressBook.cpp): it loads its names from disk or from   *)
(* hosts.txt, updates them from subscriptions in a thread that a timer        *)
(* starts, looks up names below a domain it knows, and saves what it knows.   *)
(* The process may end, or be ended, between any two steps and starts again   *)
(* from what is on disk.  A subscription sends its ETag so that it is not     *)
(* given again what it has.                                                  *)
(*                                                                         *)
(* Identities are numbers, 0 where there is none; an ETag is the number of    *)
(* the version that was downloaded.                                          *)
(***************************************************************************)
EXTENDS Integers

CONSTANTS
  Names, Domain,    \* a name -> the name of its domain, or NoDomain
  NoDomain,
  Hosts,            \* version -> what it says of the names; the 0th is hosts.txt
  HostsFile,        \* whether there is a hosts.txt
  Subscriptions,    \* m_Subscriptions
  Default,          \* m_DefaultSubscription
  Owners,           \* identity -> name -> m_LocalAddresses of its AddressResolver
  MaxLookups,       \* bound on the lookups that are sent
  MaxStarts         \* bound on the starts of the process

VARIABLES
  running,
  book,         \* m_Addresses, m_IsLoaded
  timer,        \* whether m_SubscriptionsUpdateTimer is armed
  thread,       \* what the download does: m_IsDownloading, and the result of MakeRequest
  etag,         \* subscription -> m_Etag
  disk,         \* addresses.csv and the files of etags
  lookups,      \* m_Lookups, by nonce, and the answers that are on their way
  version,      \* what the subscriptions publish now
  starts,
  spoiled       \* versions that came cut or could not be unpacked, and those a torn save lost

vars == <<running, book, timer, thread, etag, disk, lookups, version, starts, spoiled>>

Versions == 1 .. version
All      == Subscriptions \cup {Default}
Nobody   == [n \in Names |-> 0]
NoETags  == [s \in All |-> 0]
NoThread == [sub |-> Default, at |-> "none", success |-> FALSE]
Known(addresses) == {n \in Names : addresses[n] # 0}

----------------------------------------------------------------------------
(* AddressBookFilesystemStorage.                                             *)

\* Save: an empty book is not saved.
Saved(d, addresses) == IF addresses = Nobody THEN d ELSE [d EXCEPT !.book = addresses]
SaveEtag(d, s, v) == [d EXCEPT !.etag[s] = v]
ResetEtags(d) == [d EXCEPT !.etag = NoETags]

----------------------------------------------------------------------------
(* Loading.                                                                 *)

\* LoadHostsFromStream: names that are there change, others are added.
Merged(addresses, hosts, lines) ==
  [n \in Names |-> IF n \in lines /\ hosts[n] # 0 THEN hosts[n] ELSE addresses[n]]

LoadHosts_Broken ==
  IF Known(disk.book) # {} THEN [book |-> disk.book, loaded |-> TRUE, disk |-> disk]
  ELSE IF HostsFile
  THEN [book |-> Hosts[0], loaded |-> TRUE, disk |-> Saved(disk, Hosts[0])]
  ELSE [book |-> Nobody, loaded |-> FALSE, disk |-> disk]
\* From disk or from hosts.txt, whose age is not known.
LoadHosts ==
  IF Known(disk.book) # {} THEN [book |-> disk.book, loaded |-> TRUE, disk |-> disk]
  ELSE IF HostsFile
  THEN [book |-> Hosts[0], loaded |-> TRUE, disk |-> ResetEtags(Saved(disk, Hosts[0]))]
  ELSE [book |-> Nobody, loaded |-> FALSE, disk |-> ResetEtags(disk)]

\* Start: LoadHosts, StartSubscriptions and StartLookups.
Start ==
  /\ ~running /\ starts < MaxStarts
  /\ running' = TRUE /\ starts' = starts + 1
  /\ book' = [of |-> LoadHosts.book, loaded |-> LoadHosts.loaded] /\ disk' = LoadHosts.disk
  /\ timer' = ~(LoadHosts.loaded /\ Subscriptions = {})
  /\ thread' = NoThread /\ etag' = NoETags
  /\ lookups' = [sent |-> lookups.sent, open |-> {}, answers |-> {}]
  /\ UNCHANGED <<version, spoiled>>

Ended ==
  /\ running /\ running' = FALSE
  /\ timer' = FALSE /\ thread' = NoThread
  /\ UNCHANGED <<book, etag, lookups, version, starts>>

\* Stop saves; it does not wait for ever for a download.
Stop == Ended /\ disk' = Saved(disk, book.of) /\ UNCHANGED spoiled

\* The process ends before or amid a save, which begins with an empty file.
Crash ==
  /\ Ended
  /\ \/ UNCHANGED <<disk, spoiled>>
     \/ \E kept \in SUBSET Known(book.of) :
          /\ disk' = [disk EXCEPT !.book = [n \in Names |-> IF n \in kept THEN book.of[n] ELSE 0]]
          /\ spoiled' = IF kept = {} THEN spoiled ELSE spoiled \cup Versions

----------------------------------------------------------------------------
(* Subscriptions.                                                            *)

\* The destination may not be ready: the timer is set again.
HandleSubscriptionsUpdateTimer ==
  /\ running /\ timer /\ thread.at = "none"
  /\ IF ~book.loaded
     THEN thread' = [NoThread EXCEPT !.sub = Default, !.at = "asks"]
     ELSE IF Subscriptions = {} THEN UNCHANGED thread
     ELSE \E s \in Subscriptions : thread' = [NoThread EXCEPT !.sub = s, !.at = "asks"]
  /\ timer' = FALSE
  /\ UNCHANGED <<running, book, etag, disk, lookups, version, starts, spoiled>>

\* MakeRequest up to the request: the LeaseSet is known or found, and the ETag read if none is known.
SendRequest ==
  /\ running /\ thread.at = "asks"
  /\ thread' = [thread EXCEPT !.at = "requested"]
  /\ etag' = [etag EXCEPT ![thread.sub] = IF @ = 0 THEN disk.etag[thread.sub] ELSE @]
  /\ UNCHANGED <<running, book, timer, disk, lookups, version, starts, spoiled>>

Returns(success) == thread' = [thread EXCEPT !.at = "returned", !.success = success]

\* The address cannot be resolved, there is no LeaseSet, no answer in time, none that can be read,
\* 304 or another code than 200, or a length that is not the one that was announced.
RequestFails ==
  /\ running /\ thread.at \in {"asks", "requested"}
  /\ Returns(FALSE)
  /\ UNCHANGED <<running, book, timer, etag, disk, lookups, version, starts, spoiled>>

\* 200: the ETag is taken before the content, and what LoadHostsFromStream returns is not looked at.
Response ==
  /\ running /\ thread.at = "requested" /\ version > 0 /\ etag[thread.sub] # version
  /\ etag' = [etag EXCEPT ![thread.sub] = version]
  /\ \/ \* the content cannot be unpacked
        /\ Returns(FALSE) /\ spoiled' = spoiled \cup {version} /\ UNCHANGED <<book, disk>>
     \/ \E lines \in SUBSET Known(Hosts[version]) :
          LET addresses == Merged(book.of, Hosts[version], lines)
              complete  == lines = Known(Hosts[version])
          IN  /\ Returns(TRUE)
              /\ book' = [of |-> addresses, loaded |-> book.loaded \/ (complete /\ lines # {})]
              /\ disk' = IF lines = {} THEN disk ELSE Saved(disk, addresses)
              /\ spoiled' = IF complete THEN spoiled ELSE spoiled \cup {version}
  /\ UNCHANGED <<running, timer, lookups, version, starts>>

\* The default subscription is dropped with the ETag it has in memory.
DownloadComplete ==
  /\ running /\ thread.at = "returned"
  /\ thread' = NoThread /\ timer' = TRUE
  /\ IF thread.success
     THEN /\ book' = [book EXCEPT !.loaded = TRUE]
          /\ disk' = SaveEtag(disk, thread.sub, etag[thread.sub])
          /\ etag' = [etag EXCEPT ![Default] = 0]
     ELSE UNCHANGED <<book, disk, etag>>
  /\ UNCHANGED <<running, lookups, version, starts, spoiled>>

\* The subscriptions publish the next version.
Publish ==
  /\ version + 1 \in DOMAIN Hosts /\ version' = version + 1
  /\ UNCHANGED <<running, book, timer, thread, etag, disk, lookups, starts, spoiled>>

----------------------------------------------------------------------------
(* Names that are not in the book.                                          *)

\* GetAddress calls LookupAddress, which asks the owner of the domain.
LookupAddress(n) ==
  /\ running /\ book.of[n] = 0 /\ Domain[n] # NoDomain
  /\ book.of[Domain[n]] # 0
  /\ lookups.sent < MaxLookups
  /\ lookups' = [lookups EXCEPT !.sent = @ + 1,
       !.open = @ \cup {[nonce |-> lookups.sent, name |-> n, to |-> book.of[Domain[n]]]}]
  /\ UNCHANGED <<running, book, timer, thread, etag, disk, version, starts, spoiled>>

\* AddressResolver::HandleRequest: the answer names the nonce.
HandleRequest(q) ==
  /\ running /\ q \in lookups.open /\ q.to \in DOMAIN Owners
  /\ lookups' = [lookups EXCEPT !.answers = @ \cup {[nonce |-> q.nonce, ident |-> Owners[q.to][q.name]]}]
  /\ UNCHANGED <<running, book, timer, thread, etag, disk, version, starts, spoiled>>

\* HandleLookupResponse: an answer may come late or again.
Asked_Broken(answer) == lookups.open
Asked(answer) == {q \in lookups.open : q.nonce = answer.nonce}
HandleLookupResponse(answer) ==
  /\ running /\ Asked(answer) # {}
  /\ lookups' = [lookups EXCEPT !.open = @ \ Asked(answer)]
  /\ book' = IF answer.ident = 0 THEN book
             ELSE [book EXCEPT !.of = [n \in Names |->
                     IF \E q \in Asked(answer) : q.name = n THEN answer.ident ELSE @[n]]]
  /\ UNCHANGED <<running, timer, thread, etag, disk, version, starts, spoiled>>

\* InsertAddress: a jump link with an identity of the name.
InsertAddress(n) ==
  /\ running /\ book.of[n] = 0
  /\ \E v \in DOMAIN Hosts : Hosts[v][n] # 0 /\ book' = [book EXCEPT !.of[n] = Hosts[v][n]]
  /\ UNCHANGED <<running, timer, thread, etag, disk, lookups, version, starts, spoiled>>

----------------------------------------------------------------------------
Init ==
  /\ running = FALSE
  /\ book = [of |-> Nobody, loaded |-> FALSE]
  /\ timer = FALSE /\ thread = NoThread
  /\ etag = NoETags /\ disk = [book |-> Nobody, etag |-> NoETags]
  /\ lookups = [sent |-> 0, open |-> {}, answers |-> {}]
  /\ version = 0 /\ starts = 0 /\ spoiled = {}

Next ==
  \/ Start \/ Stop \/ Crash
  \/ HandleSubscriptionsUpdateTimer \/ SendRequest \/ RequestFails \/ Response \/ DownloadComplete \/ Publish
  \/ \E n \in Names : LookupAddress(n) \/ InsertAddress(n)
  \/ \E q \in lookups.open : HandleRequest(q)
  \/ \E answer \in lookups.answers : HandleLookupResponse(answer)

Spec == Init /\ [][Next]_vars

----------------------------------------------------------------------------
(* A version that a subscription will not be given again, because its ETag is *)
(* known in memory or on disk, is one whose names are in the book and, should  *)
(* the process end now, on disk: unless its content came cut or could not be   *)
(* unpacked, or a save was torn (spoiled).                                     *)
ETagMeansKnown ==
  \A s \in All : \A v \in {etag[s], disk.etag[s]} \ (spoiled \cup {0}) :
    /\ running => Known(Hosts[v]) \subseteq Known(book.of)
    /\ running => Known(Hosts[v]) \subseteq Known(disk.book)

(* While there is something to download, the timer is armed or a download is   *)
(* under way whose end arms it.                                               *)
UpdatesGoOn ==
  running /\ (~book.loaded \/ Subscriptions # {}) => timer \/ thread.at # "none"

(* A name stands for an identity that its subscriptions, its owner or the user *)
(* have given it, never for that of another name, whatever answers come late.  *)
NamesAreRight ==
  \A n \in Names : book.of[n] \in
    {0} \cup {Hosts[v][n] : v \in DOMAIN Hosts} \cup {Owners[i][n] : i \in DOMAIN Owners}

TypeOK ==
  /\ running \in BOOLEAN /\ timer \in BOOLEAN
  /\ book.loaded \in BOOLEAN
  /\ thread.sub \in All /\ thread.at \in {"none", "asks", "requested", "returned"}
  /\ etag \in [All -> 0 .. version] /\ disk.etag \in [All -> 0 .. version]
=============================================================================
