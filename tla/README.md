# BitDM: a TLA+ development of the relay and its clients

BitDM is a messenger: an app (Dart) that encrypts, a relay (Python, FastAPI)
that keeps what a device cannot take yet, and a store for attachments. This
directory holds TLA+ modules that model the relay, the parts of the app that
talk to it, and the store; TLC configurations that check them on small
instances; and proofs, checked by TLAPS, that carry most of the safety results
to every instance.

Paths are relative to `src/secure-messenger/`. `relay` is
`server/relay_server.py`, `core` is `app/lib/core/real_messenger_core.dart`,
`verwaltung` is `app/lib/core/geraeteverwaltung.dart`, `blob` is
`server/blob_server.py`. Names of actions follow the names in the code where
there is one, so most are German, as the code is.

## 1. The system

### Components

**Relay: lines, device lists, registration** (`relay`: `_vorraum`,
`ws_endpoint`, `/register`, `/geraeteliste`, the janitor in `lifespan`).
*State*: the tables `identities` (a row for each device of an address) and
`geraetelisten` (a signed list for each address), and in memory `connections`
(which WebSocket stands for a device) and `nachweisfaehig` (whether it confirms
receipt). *Operations*: register, set a list, log in, be displaced by a newer
line, be cut by a list change, end, evict or forget a device, restart.
*Hard*: three awaits lie between reading a device's key and entering its line;
registrations run in threads; the walk over lines to cut awaits at each of them.
*Correct when*: entries point at live lines, the receipt flag is the line's own,
a sign-out reaches whatever line raced it, and no row outlives its place in the
list.

**Relay: mailbox** (`relay`: table `queue`, `ws_endpoint`). *State*: rows with an
id that is never used twice. *Operations*: buffer or pass through, send the
backlog, delete on receipt, expire, drop at a cap. *Hard*: live frames, backlog
and receipts of the same row cross each other; `ack` and receipt may be lost.
*Correct when*: an acknowledged message is never lost before the client has
stored it, and never waits behind an open line.

**Relay: caps of the queue** (`relay`: `schaffe_platz`, `_queue_zeilen`,
`_schwerster_absender`). *State*: the rows, a counter that stands for
`count(*)`, and a memory of who is heaviest. *Hard*: four limits in a fixed
order, a counter changed from two threads without a common lock.
*Correct when*: the caps hold and nobody loses a row to a sender as heavy as
himself.

**Relay: one-time prekeys** (`relay`: `/register`, `/prekey`, `loesche_geraet`,
`_kyber_zeilen`). *State*: three tables over one SQLite connection, one lock,
one counter. *Hard*: statements of several threads share a transaction; a
rollback or a crash may come at every one of them. *Correct when*: a bundle is
one upload's, a key goes out once, and the counter agrees with the table.

**Relay: nonces and rate buckets** (`relay`: `issue_nonce`, `offene_nonces`,
`verbrauche_nonce`, `_take`, `_gib_zurueck`, `neue_adresse_ok`,
`_raeume_speicher_auf`). *State*: two tables in memory under one short lock, a
counter, two roofs. *Operations*: issue with displacement by origin, check,
consume, take, refuse, refund, sweep. *Hard*: the check of a nonce and its
consumption are two stretches under the lock, between which any thread may
come; a new address pays from two buckets and may have to be given back what it
paid; the sweep forgets buckets. *Correct when*: a nonce lets one request in,
a flood displaces its own entries only, a refused address costs nothing, and
nobody gains by a bucket being forgotten.

**Relay: push nudges** (`relay`: `stosse_an`, `stosse_im_hintergrund_an`,
`_stosse_an_bis_nichts_nachkam`; `app/lib/app_state.dart`: `beiAnstoss`).
*State*: `_anstoss_nochmal`, one key for each device with a task. *Hard*: rows
come while a POST is on its way, the task ends, or the cap is reached; the
nudge is asked for after the sender's `ack`, when the device's line may have
come or gone. *Correct when*: one nudge to a device at a time, and none that
was asked for is forgotten by the coalescing.

**The device list and its administration** (`relay`: `/geraeteliste`,
`/geraeteliste/beitritt`; `verwaltung`, `net/geraeteliste.dart`). *State*: the
relay's stored version and the open join requests; on each device its id, what
it takes itself for, the newest version it has seen, and the change it is
making. *Operations*: create, sign a device out, keep only this one, admit,
reset with the words, ask to join, take a version. *Hard*: two devices change
the list at the same time over a version they read earlier; requests and
answers are late or lost; versions arrive in any order, and one of them makes
the device erase its words. *Correct when*: each version is one operation on
the one before it, no two versions of one epoch are about, words are only
erased after a real sign-out, and a device that was signed out comes to know.

**App: prekey supply** (`core`: `_fuelleVorratAuf`, `_meldeAn`, `connect`,
`_fuelleNachUndMelde`). *State*: keys on the device, the mark of what has been
registered, the note of what the registration was. *Hard*: requests outlive the
connection that started them; answers are lost. *Correct when*: what is offered
can be redeemed, and the supply comes back.

**Store for attachments** (`blob`, `server/blob_kehrmaschine.py`). *State*:
files, side files, reservations, the day's amount, used tokens. *Operations*:
PUT in pieces, DELETE, sweep, restart. *Hard*: PUTs of one event loop with
writes in threads, a second process that deletes, restarts that forget the
books. *Correct when*: no half file is found under its name, nothing is
overwritten, space and daily amount hold, no reservation leaks.

**Further parts** with logic of their own, not modelled yet: the app's sending
and resending, choice of a way and near field (`nah/`), attachments
(`anhang/`), the vault (`lock/`). Parts without any to model: the Signal ratchet
(libsignal), FIDO (a request and an answer), the user interface, the Kotlin
bindings, the prototype, the website, deployment. `PROJECT.json` lists each with
its reason.

### How they interact

    sender app --ws--> relay: ws_endpoint --row--> queue --ws--> recipient app
                          |    ^      |                            |
                          |    |      '--nudge--> push server --> wakes it
                          |    '---------- empfangen(q) -----------'
    app --POST /register/challenge, /register--> nonces, buckets
                          --> identities, one_time_*prekeys <--GET /prekey-- peers
    app --GET, POST /geraeteliste[/beitritt]--> geraetelisten --cuts--> connections
    app --POST /blob_marke--> relay (token) ; app --PUT/GET/DELETE--> blob store

The relay's WebSocket handlers and the list change share one event loop, so a
step of the models is the stretch of code between two awaits. Synchronous
endpoints (`/register`, `/prekey`) run in threads; `schreibsperre` keeps the
writing ones apart from each other, `_speichersperre` covers one access to the
tables in memory at a time, and the modules say where neither keeps a thread
apart from the loop. The blob store is another process, its sweeper a third.

## 2. The modules

| module | models | state | proofs |
| --- | --- | --- | --- |
| `DeviceLines` | lines, list, rows of one address | `connections`, `ws` (a handler's place and what it read), `liste`, `zeilen` ... | `DeviceLinesProofs` |
| `Mailbox` | one device's mailbox, line and client | `queue`, `haendler` (a sender's handler), `luft` (frames), `zubest` (receipts to come) | `MailboxProofs` |
| `MailboxPromise` | what an `ack` promises; refined by `Mailbox` | `stand`, `quittiert` | `MailboxProofs` |
| `QueueCaps` | `schaffe_platz` and its counter | `queue` in id order, `queueZeilen`, `schwerster`, two threads, `rueckstand` (a backlog under way) | `QueueCapsProofs` |
| `PrekeyStore` | the relay's prekey tables, statement by statement | tables as seen and as committed, `sperre`, `thread` | `PrekeyStoreProofs` |
| `PrekeySupply` | the app's supply against relay and peers | `lokal`, `pool`, `gemeldetBis`, `vermerk`, `anlauf`; history `neben`, `weite` | `PrekeyStoreProofs` |
| `BlobStore` | PUTs, the books, DELETE, sweeper, restart | `datei`, `upload`, `reserviert`, `vorgemerkt`, `jeStunde` | `BlobStoreProofs` |
| `RelayMemory` | nonces and buckets under `_speichersperre` | `eimer`, `nonces`, `nonceZahl`, `faden` (a thread's place and variables), `sperre` | `RelayMemoryProofs` |
| `TokenBuckets` | buckets that always exist; refined by `RelayMemory` | `guthaben` | `RelayMemoryProofs` |
| `PushNudge` | nudges, their coalescing, the line of the device | `nochmal`, `bereit`, `unterwegs`, `weck` (history of each row's nudge) | `PushNudgeProofs` |
| `DeviceList` | list, join requests, the devices that change it | `epoche`, `liste`, `posts`, and per device `stand`, `mitglied`, `gemerkt`, `auftrag` | `DeviceListProofs` |
| `DeviceListPromise` | versions one by one, each one operation; refined by `DeviceList` | `epoche`, `liste`, `letzte` | `DeviceListProofs` |

Each but the abstract ones has an `MC` module with the model values and, where
it is used, the symmetry. Operators introduced by a comment that begins with
"Deviation" are not part of a specification: each is a definition with one
plausible bug in it (a check left out, an off-by-one, a missing reset), kept to
show that the property beside it would notice.

### DeviceLines

One action is one stretch between awaits. A handler's life is `Vorraum` (the
list, then the row; the key is read here), `Anmelden` (the challenge is
answered; `last_seen`), `Verdraenge` (only if an older line must be closed) and
`Eintragen`, which writes `connections` and `nachweisfaehig` and looks at the
list a second time (`ListeGeaendert`), then `Ende`, the `finally`, which takes
only its own entry. `SetzeListe` stores the list, deletes the rows of `Weg`
and leaves the devices to cut in `auftrag`; `TrennBeginn` and `TrennSchluss`
are the two halves of `_melde_an_geraete` around its await. `Register` is one
step, because a registration holds the lock from its list check on; its
eviction commits by itself, so the upsert may fail after it (second disjunct).
Ages are classes: fresh, past `NIE_VERBUNDEN_TTL`, past `GERAET_TTL`.

Left out: roofs over all addresses, the signature checks (requests are the ones
that verify), several addresses (they share no state here). Nonces and rate
limits are in `RelayMemory`, who may sign a list in `DeviceList`.

### Mailbox and MailboxPromise

Every message has a sender whose handler walks `Pruefe`/`SendeLive`,
`Einfuegen`, `Quittiere`. A handler between `schaffe_platz` and its INSERT
holds the loop (`LoopFrei`), but not the lock, so `LoescheGeraet` (from
`register` in a thread) may still come between. The device's line is
`Verbinde`, `RueckstandSenden`, `RueckstandFertig`, then receipts
(`Bestaetige`). `Empfange` is the client's whole handling of a frame: one
transaction stores the message, and only then is there something to confirm.
Both kinds of client are there: with receipts (rows stay until confirmed) and
without (live frames pass through, backlog rows go after sending).

`MailboxPromise` is what a sender may rely on: after the `ack` a message is
with the relay until the recipient has it, unless it falls to a limit the relay
announces or went to a client without receipts. `Mailbox` implements it under
the mapping `standVon`; `fort` is the history that tells "fell to a limit" from
"was never there".

Left out: volatile frames (`fluechtig`), which are never buffered and promise
nothing, and the message rate limit, whose refusal changes nothing here.

### QueueCaps

Each case of `schaffe_platz` is an action guarded by the negation of the
earlier ones: `EigeneAelteste`, `AbsenderAbgewiesen`, `AmGeraetWeichen`,
`AmDach`, `NochPlatz`. The counter is read and written in two steps
(`LoopLiest`, `LoopSchreibt`, and the same for a thread), so updates can tear;
`verlust` counts those that did. `Loesche` is a receipt or a list change, which
count off what the DELETE found. A client without receipts has its backlog read
(`RueckstandLesen`, which leaves the line's mark on the rows), sent with an await
for each row, and then deleted: `RueckstandGeloescht` counts off as many as were
sent (`relay` 4267), whatever is left of them; the rows that were gone, and
counted off by whoever took them, are `doppelt`. `RueckstandAbriss` is a send
that fails. `Aufraeumen` is one pass of the janitor with its recount. Rows that
a restart or `purge_expired` change without the counter are changed without it
here.

### PrekeyStore

A thread's local variables and next statement are `thread[t]`; `tab` is what
any statement sees (the open transaction included) and `fest` what the disk
has. `Fehler` rolls back at any statement, `Neustart` ends the process at any
statement. `Gekuerzt` takes the smallest ids at the roof. A key is named by
device, upload, kind and id, so a key of an older bundle is another key.

### PrekeySupply

`Verbinde` and `FuelleNachUndMelde` start a call of `_meldeAn`; up to two run
together, because a broken line ends neither the request nor the code after its
await (`fuer = "ueberholt"`). `AntwortKommt` takes mark and note from the store
as it is then, which is what the code does. `Scheitert` loses a request or an
answer. A late request is accepted only while its nonce lives; the module has no
clock and counts that life in the refills the app makes meanwhile
(`NONCE_FRISCH`, `Gealtert`), because only a refill can push a key off the
device. Two histories tell how crowded an upload's way was: `neben[a]` is the
most calls that were under way while the request of `a` was, its own counted, and
`weite`, set when the relay takes an upload, is that number and the refills
since its challenge. One kind of key stands for both kinds of one-time key: the
rule is the same, and only the numbers differ.

### BlobStore

A PUT is `Beginne` (all checks and both reservations, up to the first await),
then `Schreibe` (thread) and `Verbuche` (loop) for each piece, `Schliesse`,
`Endgueltig` (thread: the link) and `Buche` (the books, the `finally`, the
token). `Verwirf` is every way out with an error. `KehreTeil` may take the side
file of a PUT that still runs; its data then take space until the file is
closed. `Neustart` loses the books and counts the disk.

Left out: file systems without hard links (the code names the window they
leave), a power failure that loses a directory entry, a crash between link and
unlink (the side file is then a second name of the same data, and the sweeper
takes it).

### RelayMemory and TokenBuckets

A step is one stretch under `_speichersperre`, so what a thread learnt in one
may be old in the next; its local variables are `faden[t]`. `ChallengeBeginnt`,
`speicher_hat_platz` and `issue_nonce` are `/register/challenge`;
`RegisterBeginnt`, `offene_nonces`, `verbrauche_nonce`, `NimmtSperre`,
`neue_adresse_ok` (a step for each bucket), `Speichert` and `Erstattet` are
`/register` up to its row. The sweep may run at the start of a stretch
(`Faellig`; the `...Nach` values are what it leaves) or by timer. Buckets are
told apart by family and key (`limit_schluessel`, `limit_schluessel48`, the
account), and what the code computes in floating point is done in units of a
refill, rounded as the code rounds `voll_ab`: up. `einlass` and `angelegt` are
histories. The clock is read before the lock in `offene_nonces` and
`verbrauche_nonce`, so it may be as old as the thread's last step (`seit`).

`TokenBuckets` is the promise: every key has a bucket, it fills with time up to
its capacity, an attempt takes its cost or nothing. `RelayMemory` creates
buckets late, sweeps the full ones and refuses at the roof, and implements it
under the mapping in which a bucket that is not there is full. Each family has a capacity and a refill of its
own (`RATE_`, `MSG_`, `NEU_` and `NEU_ONION_`, `relay` 1834-1838).

Left out: the daily amount of blob tokens (`blob_marke`: a row for each device
and day, one statement under the lock).

### PushNudge

`Puffert` writes a row for a device without a line; `AckFertig` is what follows
the await of the `ack`: `stosse_im_hintergrund_an` notes, drops or starts a
task. A task is `AufgabeBeginnt` and `PostFertig`, each up to the next await;
`stosse_an` reads the endpoint then and may end there. `weck[z]` says what
became of the nudge for row z: asked for, gone out in a POST after it was
written, or dropped (cap, database error, restart, no endpoint, sender gone
before its `ack`). The device's line has a third state, `zu`: the app has
closed it and the relay does not know yet. The push server is external and may
lose anything after the POST.

### DeviceList and DeviceListPromise

A change is `Beginnt` (the user), `Unterschreibt` (it reads the list and signs
the next version; the POST is under way from here), `setze_geraeteliste` (the
relay: fits, or 409, or 403; a refused change goes round once more) and
`Angenommen`. `GibtAuf` and `PostVerloren` lose the answer or the request; after
`GibtAuf` the POST may still arrive. `holeGeraeteliste` and `Kommt` are the two
halves of a GET, so an answer may be older than what the device has by then;
`wobei` is where it is taken (on connecting, on a hint, while waiting). A version
that another device sends end to end (`_nimmListeEndeZuEnde`, `verwaltung`
1018-1036) does to the device what `Kommt` does with an answer of that version, and
has no action of its own. A device IS its key and a signature is who signed.
`trittBei` asks with an answer it may have read a while ago: the list, and with it
the id it asks for, may be another when the request arrives, and the relay then
refuses. The answer to the request itself is taken at once (`verwaltung`
189-191). `beantrage_beitritt` replaces, caps and keeps the newest,
`BeitrittVerfaellt` is their lifetime.

`DeviceListPromise` is a register with compare-and-set: epochs one by one, each
version the effect of one operation, by one who may, on the version before it.

Left out: the announcement of a version to contacts (stamps), a relay that
lies, a device that comes back with the words after its sign-out, and a restart
of the app, which keeps what is written down (id, versions, membership) and
loses what the next connect finds again. What a
version does to rows and lines is in `DeviceLines`.

## 3. The runs

Deadlock is checked in `MCQueueCaps`, `MCPrekeyStore` and `MCBlobStore`. It is
not in the others: connections, row ids, nonces, changes and disturbances are
finite there, so a behaviour may end because its bound is reached.

| run | asks | bounds | states |
| --- | --- | --- | --- |
| `MCDeviceLines` | `LeitungStimmt`, `AbmeldungErreichtLeitung`, `ZeileNurMitListe`, `HoechstensGeraeteMax`, `AbgemeldeteLeitungEndet` | 2 devices for 1 place, 2 keys, 3 lines of one device, 2 epochs, 1 list change at a time | 926 000 |
| `MCMailbox` | `NachweisTrifftAbgelegtes`, `KommtAn`, `RueckstandLeertSich`, `Versprechen` | 2 messages, 3 rows ever, place for 2, 1 disturbance, both kinds of client | 296 000 |
| `MCQueueCaps` | `TypeOK`, `AlleDeckelHalten`, `GrundsatzAmGeraet` | 2 devices, 2 senders, 2 lines of clients without receipts, caps 2/3/2/3, 1 eviction by a thread, 2 rows counted off twice | 1 850 000 |
| `MCPrekeyStore` | `BuendelGanz`, `NurEinmalAusgegeben`, `KyberBuchStimmt` | 2 devices, 2 threads, 2 ids, roof 2, 2 uploads | 464 000 |
| `MCPrekeySupply` | `VorratTypeOK`, `ImmerEinloesbar`, `OhneStoerungEinmal`, `VorratKommtWieder` | refill 2, bundle 3, 5 kept, 1 refill in a nonce's life, 2 uploads at a time, 3 draws, 2 disturbances | 821 000 |
| `MCBlobStore` | `TypeOK`, `NieHalb`, `PlatzBleibtFrei`, `TagesmengeHaelt`, `NichtsBleibtReserviert`, `NichtUeberschrieben` | 3 names, 2 PUTs, 2 pieces a file, disk 6, day 4, 4 hours | 889 000 |
| `MCRelayMemory` | `NonceGiltEinmal`, `DaecherHalten`, `MarkenBilanz`, `FremdesNonceBleibt`, `AbsageKostetNichts`, `IdealeEimer` | 2 threads, 2 addresses, 3 origins, roof 2, 3 nonces ever, 2 ticks, refills of 1 and 2 | 1 200 000 |
| `MCPushNudge` | `EinAnstossJeGeraet`, `NichtsVergessen`, `AnstossFolgt` | 2 devices, 1 nudge at a time, 3 rows, 1 disturbance | 441 000 |
| `MCDeviceList` | `TypeOK`, `KeinWiderspruch`, `BeitrittNurVonAussen`, `EineAenderungNachDerAnderen`, `AbgemeldetNurZuRecht`, `AbgemeldetErfaehrtEs` | 2 devices, 3 ids, 3 epochs, 3 changes, 1 request or answer lost | 186 000 |

The type invariants of the other modules are proved (section 4). Three more runs
are expected to find a violation, see section 5.

Why the bounds are enough for the cases that matter:

* *DeviceLines*: displacement needs two lines of a device, and two log-ins that wait
  for one old line need three; a change of key needs two keys. The three lines are
  the one device's; that lines of two devices do not disturb each other is left to
  the theorems; the roof needs one device more than places. Two list changes that
  are still cutting lines at the same time, and a device that leaves and comes
  back with its old key (a third epoch), are beyond the run: the theorems hold
  for every number of them.
* *Mailbox*: a duplicate needs a second row of a message, an overtaking needs a
  second message, the cap needs one row more than places. One disturbance is a
  lost `ack`, a broken line or a restart; the safety properties are proved for
  any number of them.
* *QueueCaps*: the caps are pairwise different in effect: a sender may fill a
  pair without his total, a device without a pair (one row of each sender), the
  table without a device. Two senders give a newcomer and a heaviest; two lines let
  the backlogs of one device cross, and take the rows of each other. The theorems
  are for every number of each.
* *PrekeyStore*: two threads in any order of statements, two uploads of one
  device or of two, more Kyber keys than the roof takes.
* *PrekeySupply*: the numbers stand to each other as those of the Kyber keys do: two
  refills and a watermark below a bundle, a bundle and one refill are kept (3 + 2
  of 5; 50 + 40 of 100), a bundle and two refills are not (7 > 5; 130 > 100). So
  uploads with another call beside them, for which keys on offer are really
  trimmed, are in the run. `ZIEH_MAX` above a refill lets a supply run dry.
* *BlobStore*: three names let two finished files meet a third PUT at the limit
  of disk and day; four hours with a window of two let files leave the window.
* *RelayMemory*: two threads hold the same signature; two circuits and tor
  without a circuit give three origins at a pair that has places for two, and
  addresses that pay from one bucket and from two; the roof of 2 is reached by
  nonces and by buckets; one tick fills some buckets and expires nonces. The roof
  of a pair is 2 as well, so in this run it is never passed before the table's; a
  roof of 3 does not fit into five minutes. For the pair it is theorem `Daecher`
  that speaks.
* *PushNudge*: a second device at a cap of one is dropped or waits its turn;
  three rows give one under way, one remembered, one after the round.
* *DeviceList*: two devices change over the same epoch, a third id is free to
  take, three epochs give a version after the one that threw a device out. With
  two devices the roof for join requests is reached by a replaced request only.

Symmetry is used in safety runs only, over values the specification treats
alike. Device ids are ordered (the walk is sorted, get_prekey draws in order)
and are therefore numbers.

### What the passing runs show

* `LeitungStimmt`: whichever order lines of a device log in, are displaced and
  end, an entry is a live line of that device, with its own receipt flag. `Ende`
  without the comparison breaks it.
* `AbmeldungErreichtLeitung`: a list change that finds no entry, because the line
  is still logging in, is caught by the second check; one that comes later
  finds the entry. Without the second check a signed-out device stays online.
* `ZeileNurMitListe`: no registration brings back the row of a device that left.
* `AbgemeldeteLeitungEndet`: such a line does end, with one exception that is in
  the statement (`Ueberschrieben`): its entry was taken over by another log-in that
  had waited for the same old line. That one nobody closes (section 6).
* `Versprechen`: `Mailbox` refines `MailboxPromise`, through every loss and restart.
* `NachweisTrifftAbgelegtes`: a receipt on its way never names a row with another
  message. It rests on AUTOINCREMENT: with reused ids it fails.
* `KommtAn`, `RueckstandLeertSich`: with receipts an acknowledged message arrives,
  falls to a limit or loses its device; and what the client has leaves the table.
  Their premise `NurMitNachweis` excludes one case the code has: a live
  send to a client *without* receipts fails, the message is buffered, and by
  then the device is on a new line *with* receipts, whose backlog query was
  earlier: the row waits for the next connect.
* `AlleDeckelHalten`: the caps hold in the table; the roof, kept by a counter,
  gives way by at most one row for each torn update (`verlust`) and each row that
  a backlog counts off although it had gone (`doppelt`), until the janitor recounts.
* `GrundsatzAmGeraet`: at a full device nobody loses a row to a sender who has
  as many there.
* `BuendelGanz`, `NurEinmalAusgegeben`: at every moment a crash could reveal, what
  is on the disk of a device is one upload's, and a key in an answer is nowhere
  else.
* `KyberBuchStimmt`: the counter is the number of rows whenever the lock is free,
  so the roof is right.
* `ImmerEinloesbar`: what the relay offers can be redeemed, if the device keeps a
  bundle and a refill for every refill and every call the offered upload had beside
  it (`weite`), its own counted. For an upload alone (`weite = 1`) the Kyber numbers
  meet that; where they do not, the offer may hold keys that are gone (section 6).
* `OhneStoerungEinmal`, `VorratKommtWieder`: undisturbed, no key goes out twice (a
  lost or late answer is a disturbance); after the last disturbance connecting
  refills, except for the refusal in section 5.
* *BlobStore*: the four hazards of its books. Space moves from the reservation to
  the disk without a gap, the day's amount is not forgotten by a restart, and
  no way out of `lege_ab` keeps a reservation.
* `NonceGiltEinmal`, `DaecherHalten`: threads that have all seen a nonce open let
  one request in, and the counter beside the table stays right through expiry,
  displacement, refusal, use and sweep.
* `FremdesNonceBleibt`: a flood of challenges displaces its own origin's nonces;
  another's falls only when `NONCE_HERKUENFTE` other origins stand against it.
* `AbsageKostetNichts`, `MarkenBilanz`: an address that is refused or not stored
  has its tokens back, also when a bucket was swept in between; and what a
  bucket paid for, lent and still holds is never more than it was given.
* `IdealeEimer`: sweeping and refusing at the roof give nobody a token that the
  bucket would not have had.
* `EinAnstossJeGeraet`, `NichtsVergessen`, `AnstossFolgt`: a key never outlives
  its task, a row that came during a POST gets another round, and a nudge that
  was asked for goes out unless an error, a restart or a deleted endpoint took
  it. That is a statement about the coalescing: which rows are never asked for
  is in section 6.
* `EineAenderungNachDerAnderen`, `KeinWiderspruch`: no update is lost between two
  devices, and no device can come to report two versions of one epoch while
  the relay is honest.
* `AbgemeldetNurZuRecht`, `AbgemeldetErfaehrtEs`: a device erases its words only
  after a version newer than the one that made it a member, or when it learns
  that its own sign-out was taken, and a device that was thrown out comes to
  know.
* `BeitrittNurVonAussen`: a new version settles the requests of ids it contains.

### Fairness

* `DeviceLines.Fairness`: the event loop runs every ready task (`TrennBeginn`,
  `TrennSchluss`); a line the server closed ends, since the closing handshake
  and the ping have timeouts. Nothing else is fair: nobody has to log in.
* `Mailbox.Fairness`: the loop finishes backlog and INSERT, the client reconnects
  while it runs (its timer calls `connect`), processes frames and sends
  receipts. Expiry, removal and a return of the device are not forced.
* `PrekeySupply.Fairness`: the app tries again, handles `prekeys_low`, and a
  request that is not lost is answered. Drawing and first messages are not
  forced.
* `PushNudge.Fairness`: the loop runs every ready task and `PUSH_TIMEOUT` ends the
  wait for an answer. No device has to connect.
* `DeviceList.Fairness`: a device that misses a hint reads the list when it next
  connects, and a GET is answered. No change has to be made or accepted.

Weak fairness is enough everywhere: each of these actions stays enabled until
it is taken or another step makes it pointless.

## 4. The proofs

Proved, for every value of the constants:

`DeviceLinesProofs` (assumptions: device ids are a finite set of numbers, None
is none of the values, the roof is at least 1):

* `Invariante`: `IInv` holds always. `IInv` adds two facts to the checked
  invariants that they need to survive a step: a handler that has passed the
  lobby knows its device (`HandlerKenntGeraet`), or the `finally` could not be
  related to an entry; and before the first list there is no key anywhere
  (`OhneListeKeinSchluessel`), or a first list could find a line whose key it
  does not hold and which nobody cuts.
* `TypOK`, `LeitungenStimmen`, `AbmeldungErreicht`, `ZeilenInDerListe` follow.
* `DachHaelt`: the roof over an address's rows, with cardinalities of its own.

The argument for the central one, `AbmeldungErreicht`: a list change puts every
device that left into `rest` (a line already entered is therefore still going
to be cut), and `Eintragen` compares the key read in the lobby with the list of that
moment (a line entered later is either sent away or has the listed key).
`TrennBeginn` takes a device from `rest` only to put its present line into
`bei`, and a line that displaces that one has passed the comparison itself.

`MailboxProofs` (no assumption but that the bounds are numbers):

* `Invariante` with `EinSchreiber` (one handler is between `schaffe_platz` and
  its INSERT, and an id is left for it), `IdsVergeben` (whoever holds an id, the
  table, the backlog, a frame or a receipt to come, holds one below `naechste`),
  `EineNachricht` (an id names the same message wherever it is held) and
  `QuittungGedeckt` (what is about to be acknowledged lies, is with the client
  or has fallen).
* `TypKorrekt`, `NachweisTrifft` follow.
* `HaeltVersprechen`: `Spec => Versprechen`, the refinement of `MailboxPromise`.

The argument for `NachweisTrifft`: a receipt to come names an id that was given
out, the INSERT gives a new one, so no later row can take the name; and the
frame that caused the receipt named the row's own message.  For the promise, a
row only leaves the table because its message fell to a limit or, by a receipt,
is with the client: nothing acknowledged returns to "open".

`PrekeyStoreProofs` (finite ids and devices as numbers):

* `Invariante` with `HalterStimmt` (a thread is between its lock's ends exactly
  when it holds the lock), `OhneTransaktion` (with the lock free, what is seen is what is
  committed), `ZahlStimmt` (the counter lags only between a commit and its
  correction), `Lagen` (what holds of the local variables before each
  statement), `Benannt` (a later upload has new names) and `Getrennt` (where a
  key is, it is nowhere else).
* `TypOK`, `BuendelBleibtGanz`, `JederSchluesselEinmal`, `KyberBuch` follow.

The argument for `JederSchluesselEinmal`: a draw removes the key from what is
seen, the commit removes it from the disk, and the answer only comes after the
commit; a rollback or crash before the commit forgets the draw with it, and a
re-upload brings keys with other names.

The second part of `PrekeyStoreProofs` is about `PrekeySupply` (assumptions
`VorratAnnahme` and `VorratSchranken`: a refill is of at least one key, the watermark
is not above it, a bundle may carry what the start refills, and a bundle fits on the
device, as for both kinds of key in the code: 20 + 100 <= 200 <= 400 and
5 + 40 <= 50 <= 100; finitely many calls; the bounds are numbers). The proofs are of both modules, so the definitions of the supply that
carry a usual name are called `VorratInit`, `VorratTypeOK`, `VorratSpec` and so on.

* `VorratTyp`: type correctness.
* `NeuesteBleiben`: of the newest `HOECHSTZAHL` numbers each is on the device or used up
  (`NeuesteDa`), whatever is lost, overtaken or forgotten and wherever the app
  dies. A refill adds numbers above all others, and what it trims has
  `HOECHSTZAHL` newer ones.
* `VorratInvariante`: while nothing has been disturbed, one call of `_meldeAn` is under
  way at a time (`EinAnruf`), and it is the one for which the line waits
  (`Zustaendig`); who has a note of a registration is known to the relay
  (`Eingetragen`); no key is in the pool and with a peer, nor with two peers
  (`GezogenEinmal`); an upload under way carries only keys that are neither here
  nor there (`UnterwegsNeu`), and so will the next (`LokalNeu`).
* `UngestoertEinmal`: `OhneStoerungEinmal` follows from `GezogenEinmal`.
* `UngestoertEinloesbar`: `AngebotDa` while nothing is disturbed, for a device
  that keeps two refills (`WeitGenug`; the code keeps four of the EC keys, 400 : 100,
  and two and a half of the Kyber keys, 100 : 40). No key on offer lies further
  behind the newest than two refills (`Nah`), and further than one only while keys
  wait to be registered (`HinterherNurEins`): a refill begins only when the
  relay has had all keys (`AllesGemeldet`, `VermerkGemeldet`, `KnappNurOnline`),
  and what is or will be under way is of the last refill (`UnterwegsNah`,
  `LokalNah`). With `NeuesteBleiben` it is then at hand or used up.

With an answer lost the relay may hand a key out twice (section 6), so the
hypothesis `stoerungen = 0` is part of what `OhneStoerungEinmal` claims. That what is on
offer can be redeemed does not need it:

* `OrdnungBleibt`: through every disturbance the app goes to its line, and handles a low
  supply, only when every key it has is registered (`GemeldetVorLogin`), because
  its note never runs ahead of its mark (`VermerkPasst`); one call at most is
  that of the attempt to connect, and only while it waits (`VerbindenMeldet`,
  `VerbindenEinmal`).
* `VorratEinloesbar`: `VorratSpec => []ImmerEinloesbar`, for every choice of the
  numbers and any number of draws, losses, refusals, crashes and times the relay
  forgets. There is no hypothesis beyond these assumptions; the property itself says of each
  upload on offer how many keys the device has to keep for it.

The argument is about how deep a key lies: `Tiefe(k, L, g)` counts the keys of the
device from `k` on, with the keys above the mark `g` taken for a full set. A
refill then makes nothing deeper, for there is one only when all is registered, and
the set was counted already (`TiefeErgaenzt`); a call starts with keys within a
bundle (`TiefeNeuer`); the start refills only what then fits into one
(`TiefeNachStart`); forgetting makes all shallower. Only an answer adds a set, by
moving the mark. So a request that the relay may still take lies within a bundle
and the sets since its challenge, and one more if an answer has come since
(`AnrufeNah`; that call has then ended and is no longer counted, `Luft`); what is on
offer lies, with the sets of the answers still to come, within a bundle and `weite`
sets (`AngebotNah`); and what lies within what is kept is not trimmed
(`NichtZuAlt`, `NichtsVerloren`). `Nebenher` is the invariant of the history: no more
calls are under way than `neben` of any request says, nor do more wait for an
answer than `weite`.

With the numbers of the code, EC keys (refill 100, bundle 200, 400 kept) allow
`weite <= 2`: an upload with one other call beside it, or with one refill in the
life of its nonce. A refill follows a full upload only after 81 draws, and
`otk_limit_ok` (`relay` 1630) gives out at most 10 at once and 6 a minute of an
address, while a nonce lives 120 seconds; two cases in which one may follow at once
remain, an app forgotten by the relay that has fewer than 20 keys left, and one
that dies with a request under way and whose start renews the signed prekey. Kyber
keys (40, 50, 100) allow `weite <= 1`: an upload with no other call and no refill
beside it. For them that is all the theorem says, and section 6 says what happens
beyond. `UngestoertEinloesbar` is not bound by it: undisturbed it holds for both kinds.

`RelayMemoryProofs` (capacities, refills and roofs
are numbers, refills and places at least 1; finitely many sources and accounts):

* `Invariante`: every entry of the nonces is a nonce of its own, issued before,
  that has let nobody in; the counter is their number; a bucket holds no more
  than its capacity, is not from the future, and is full from `voll_ab` on.
* `TypKorrekt`, `EinmalGueltig`, `ZahlStimmt`, `Daecher` follow.
* `ImmerDaGewesen`: the refinement of `TokenBuckets`. It rests on the last part of
  the invariant: `voll_ab` is rounded up, so what the sweep takes is full.
* `Bezahlt`: `MarkenBilanz`, the balance of the buckets for new addresses. It needs a
  second invariant, `BInv`: only who holds `schreibsperre` has tokens to give back
  (`SperreStimmt`), so what a bucket has lent is at most one address
  (`Geliehen`), and taking, giving back, sweeping and the passing of time keep the
  books of every bucket (`Bilanz`).
* `AbsageUmsonst`: `AbsageKostetNichts`. With what it has taken and not yet given
  back, a thread finds no less in any bucket than it found on entering the
  lock (`NichtWeniger`); when it leaves without a row it has given back all.
* `FremdesBleibt`: `FremdesNonceBleibt`. `issue_nonce` takes the oldest nonce of the
  origin that has most at a full pair; if that is another origin's, at most one of
  each stands there, and they are as many as the pair has places for.

`PushNudgeProofs` (finitely many devices): `Invariante`, `TypKorrekt`,
`EinAnstoss`, `KeinNachzueglerVergessen`. A key stands for exactly one task, so a
row noted at a key finds the task that will look at the note.

`DeviceListProofs` (finitely many devices and ids): `Invariante` (all versions
about, held, under way or told to be accepted, are one for each epoch and none
newer than the stored one; a POST that would fit was made from the stored
version), `OhneWiderspruch`, and `EineNachDerAnderen`, the refinement of
`DeviceListPromise`.

The second invariant, `BInv`, speaks of the join requests and of who is a
member: the size of the list, which every POST carries (`Groessen`); no request for
an id in the list (`Anfragen`); a member has the epoch that made it one, and a
device whose sign-out is under way was a member when it asked (`Mitglieder`); and
whoever asked for the list has an id (`HatKennung`). `TypKorrekt`, `NurVonAussen` and
`ZuRecht` follow. `ZuRecht` was not provable as it stood first: see the sign-out
that comes late, in section 6. The filter of the requests (`Ohne`) is written by
ranks, not with the library's recursive one, and `OhneLaesst` says what it leaves:
a request at a place of the result is the one at the place of that rank.

`BlobStoreProofs` (finitely many PUTs, files of at least one piece):

* `Invariante`: `IInv` says what a handler holds at each of its places. A piece is
  on the disk or still set aside (`StueckeGezaehlt`, with one piece counted
  twice between the write and its booking), who passed the end of the stream
  has the whole (`FertigHeisstGanz`), and a handler past its start knows its
  name.
* `NurGanze`, `DateiBleibt` follow; without `FertigHeisstGanz` the link could not be
  related to the check of the length, which lies two awaits before it.
* `TagesbuchStimmt`: `_tag_vorgemerkt` is the size of the PUTs under way, by the
  cardinality of their set.
* `Buchhaltung`: the sums. `BInv` relates each of them to the places of the
  handlers: what is reserved is what the PUTs under way still need
  (`ReserveStimmt`), disk and reservations together fit (`PlatzReicht`), and a
  file is in the books of an hour, or its PUT has still to write it there
  (`GebuchtOderAbgelegt`, `TagReicht`). `TypKorrekt`, `PlatzFrei`, `TagHaelt` and
  `NichtsVerloren` follow.

A sum over a finite set is a recursive fold of the library, and induction over
it is out of reach; but the fold is a CHOOSE of a function that satisfies an
equation for every subset. The lemmas show that one exists and that two agree
(`SummeIst`, `SummeGibtEs`), each time by taking a smallest set at which it would
not be so, and from there what a sum does when one place changes
(`SummeGeaendert`), a place goes (`SummeGefiltert`) or all are equal.

`QueueCapsProofs` (caps of at least 1, finitely many devices and senders):

* `Invariante`: the counter covers the table, with what loop and thread still
  bring to it, but for the rows counted off twice (`doppelt`) and the updates the
  thread has written over or is about to (`ZaehlerDeckt`); a backlog has no more rows
  left than it has read (`Marken`); an update is torn by one eviction
  (`VerlustJeVerdraengung`); and a sender who was promised a place finds it below
  every cap, though an eviction may come before its INSERT (`PlatzVersprochen`).
* `TypKorrekt`; `KeinDeckelReisst`: `AlleDeckelHalten` for every number of rows,
  lines and evictions.
* `Grundsatz`: `GrundsatzAmGeraet`. It needs no invariant beyond the types: the
  heaviest at the device is chosen from the table as it is in that
  transaction.

Rows are counted as the set of their places, so that removing one row or many
is a bijection between places (`Herausgenommen`, `OhneZaehlt`).

Model-checked only, and why:

* every liveness property: the prover has no rule for ENABLED and fairness;
* that beyond the bound of `ImmerEinloesbar` the offer may really hold keys that are
  gone: the trace in section 6 is TLC's.

## 5. Findings

Each is a run that TLC must find violated; the quoted lines are in
`PROJECT.json`.

* `MCDeviceLinesOhneListe` (`relay` 4204): a device that logs in while its
  address has no list, and is not in the first one, keeps its line: the second check
  compares None with None, and the walk found no entry. The comment at
  4200-4202 says it must log in again.
* `MCPrekeySupplyVergessen` (`core` 1345): an app that keeps more keys than a
  bundle may carry, and whose relay has forgotten it, uploads its whole supply
  and is refused each time. The comment at 1101-1105 says the next attempt
  registers again.
* `MCDeviceListKennung` (`verwaltung` 1165): a device takes another id whenever
  its own is in the list, also when the entry is its own: its reset was stored
  and the answer lost, or it was admitted and asks again before it has seen it.
  The comment at 1162-1163 is about an id that belongs to another device. The
  device is then listed under an id it no longer goes by, may take its own entry
  for somebody else's, and erase its words.

## 6. Observations without a run

Lines and mailbox:

* Two newer lines of a device both wait for the same old one to close; the
  second to enter overwrites the first, which nobody closes (`relay` 4164-4179). The
  comment at 4160 promises one active line for a device. If the device is then
  signed out, the walk over `connections` (3534) closes the entry, and the
  overwritten line stays open and may go on sending; the comment at 4194-4203 says
  that from its entry on every later sign-out sees the line. Without its exception
  `AbgemeldeteLeitungEndet` fails in the instance of the run.
* A backlog to a client without receipts is read at once and sent with an await for
  each row; `relay` 4267 then counts off `len(zugestellt)`, where 4404 takes what
  the DELETE found. Rows that an eviction, another line or the janitor has taken
  meanwhile are counted off twice, and the roof gives way by that many, with no
  update torn. The comment at 2583-2590 expects errors of the counter and bounds
  them to the hour until the recount.
* A row may be left behind for a device that no longer exists: a thread evicts
  the device between `schaffe_platz` and the INSERT (`relay` 4838). The comment at
  4833-4837 says nothing can come between. The row expires.
* At the roof `schaffe_platz` compares the sender's present count with one of the
  heaviest that is up to five seconds old, so a sender with more rows may take
  one from a sender with fewer; the docstring at `relay` 2677-2678 excludes that.
  At a full device the count is fresh, and `GrundsatzAmGeraet` holds.

Prekeys:

* An answer lost after the relay stored the bundle makes the next upload repeat
  the same keys, one of which may be drawn already (`core` 1378). The comment at
  156-158 says a key the relay has had never goes there again.
* Kyber keys (100 kept, bundles of 50, refills of 40) are enough for an upload that is
  alone on its way (50 + 40), not for one with another call beside it (50 + 80),
  and an overtaken connect and its successor are two. Then what is on offer need not
  be on the device any more: the instance of `MCPrekeySupply` has these proportions,
  and TLC finds `weite <= 2 => AngebotDa` violated there. A request that was overtaken is
  accepted late (within its nonce's life) and puts old keys on offer, the answers
  move the mark, and the refills that follow trim those keys before an upload
  replaces them. A first message to such a key cannot be opened. The comment at
  `core` 157-159 says that a key the relay has had must stay on the device, and
  `_fuelleVorratAuf` (889-894) lets the oldest go without looking at the offer. The
  offer ends with the next upload.

The device list:

* A device signs itself out; before the answer comes, another device lets it in
  again from a join request it made earlier; then the answer comes, and it erases
  its words although it is listed (`verwaltung` 137). It takes four epochs and four
  changes. `AbgemeldetNurZuRecht` names the case (`GingSelbst`).

Nudges (rows for which none is asked, so `AnstossFolgt` does not speak of them):

* A row that is written while the device has a line that is already dead is sent
  into it and waits for the next connect; the path for lines with receipts
  (`relay` 4711-4777) asks for no nudge, though the comment at 3831-3834 counts
  on one.
* A sender that is gone before its `ack` ends its handler: the row is there, the
  nudge is not asked for (`relay` 4848).
* A database error in `stosse_an` ends the task and with it what was noted.
* Two nudges close together run `beiAnstoss` twice at once (`app_state.dart`
  1032-1039); the first to finish disconnects the line of the second.

Others:

* Two PUTs of one name, of which the first ends and is deleted before the second
  links, both use the token (`blob` 383 and 476); the comment at 386-390 says a
  used token stores nothing again. Each use is counted for the day.
* The `min` in `_gib_zurueck` (`relay` 1620) cannot be seen: `_take` caps what it
  reads as well. It is modelled, but no property could tell.

## 7. Plan

In this order:

1. `Outbox` with the choice of a way: one attempt for a message at a time,
   resending after reconnect, no second way after a possible delivery; then
   composed with `Mailbox`, with exactly-once display as the promise.
2. `Stueckelung`: reassembly of near-field fragments; `Vault`: writes of slots
   and base with a crash between them; `Attachment`: resumed transfer against
   `BlobStore`.
3. The announcement of a version to contacts (stamps, `_ankuendigungVon`), beside
   `DeviceList`; the day's amount of blob tokens beside `RelayMemory`.
4. Proofs: the second kind of one-time key in `PrekeySupply`, so that
   `VorratEinloesbar` can speak of both sets of numbers in one behaviour. A run of
   its own for the offer that outlives its keys (section 6).

Not modelled, and why, is said for each module in section 2 and for each part
of the system in `PROJECT.json`. A signature, a hash or an encryption is never
computed in these modules: who signed what is part of the state, and a check
that fails is an early return.
