# BoAT-X Framework: TLA+ models

BoAT-X is a C SDK that lets an IoT module hold keys and send transactions to blockchains.
This directory models what the SDK keeps across calls and power cycles (keypairs, networks),
what it does to get a transaction into a blockchain (wallets and transactions of ten
protocols, over JSON-RPC or HTTP/2), and the encodings a transaction goes through.

## 1. The system

| Component | Source | State | Operations | Depends on |
|---|---|---|---|---|
| Keypair store | `sdk/keypair/boatkeypair.c` | keypair table (public part) in RAM (index 0, one-time) and in flash (1..5) | create, get, list, delete | soft keystore, storage |
| Soft keystore | `vendor/keystore/soft/boat_keystore.c` | private-key table in RAM and in flash | store, find, delete, sign | storage, crypto |
| Network stores | `sdk/network/*/network_*.c`, ten files | one network table in RAM and one in flash, shared by all protocols | create, list, get, delete, per protocol | storage |
| Soft RoT storage | `vendor/common/storage/persiststore.c` | three RAM buffers, three areas of one file | `BoATStoreSoftRotNvram`, `BoatReadSoftRotNvram` | platform port |
| JSON-RPC wallets | `sdk/wallet/api_{ethereum,platon,platone,quorum,venachain,fiscobcos,cita}.c`, `sdk/protocol/boat*` | wallet, transaction, hash of the last transaction | set up, set fields, send, transfer, receipt, call, query | web3 interface, RLP, stores |
| web3 interface, RPC port | `sdk/protocol/common/web3intf`, `vendor/platform/*/src/rpc` | request and result buffers shared by all requests of a wallet | one request at a time | libcurl |
| HTTP/2 wallets | `sdk/wallet/api_{hlfabric,hw_bcs,chainmaker}.c`, `sdk/protocol/boat*` | transaction, answers of endorsers, last result | evaluate, submit; invoke, query | HTTP/2 interface |
| HTTP/2 interface | `sdk/protocol/common/http2intf` | socket, send buffer, receive buffer filled by callbacks | one gRPC request | nghttp2 |
| RLP encoder | `sdk/rlp/boatrlp.c` | tree of objects, descriptors and streams on the heap | init, append, replace, encode, encode again, delete | utilities |
| Utilities, bech32 | `sdk/utilities/boatutility.c`, `sdk/protocol/boatplaton/boatplatonbech32.c` | none | conversions | |
| Platform ports | `vendor/platform/*` | files, sockets | storage, sockets, random numbers, crypto | the operating system |

A caller creates a keypair and a network, gets an index for each, opens a wallet on them,
fills in a transaction and sends it. Keypairs are in *two* tables that are written one
after the other; every table is a header (`AA 55 num crc`) and `num` records of different
lengths, walked from the front. There is no journal and no lock: the code relies on the
order of its writes and on hand-written recovery.

A send is a list of steps with a request to a node in each: nonce, gas price, sending,
then polling for the receipt; for Fabric one request per endorser, group by group, then
one per orderer until one accepts. While a call waits, the node and the network go on by
themselves: a request is lost before or after the node handled it, answered late, answered
with an error or with text that is no JSON, or broken off in the middle.

What is hard here, and hard to test: a failed access or power cut between any two writes;
recovery code that calls the operations that may fail; ten copies of the network code on
one table; a request that failed for the client and not for the node; state of the last
transaction (hash, endorsements, result, buffer contents) that is still there for the next
one; loops over nodes that go on after errors; fixed-size arrays filled from outside.
`PROJECT.json` lists these hazards with their lines and the properties that watch them.

What makes the components correct:
* stores: the tables hold what their headers count, no index twice; an index signs with the
  private key of the public key it shows; a call changes no other index, and what it
  returns is true; a network is read and listed by the protocol that created it only;
* transactions: success and "pending" are only said of a transaction the node has; what it
  got is what was set, signed so that it recovers the sender; the receipt is that of this
  transaction; every call returns;
* Fabric-style transactions: an orderer gets the endorsements of this proposal, enough of
  every group; what is ordered is ordered once and the application is told; the result is
  current; the array of answers is overrun by no configuration it has room for;
* encodings: the node decodes what was put in; no memory is lost; numbers and addresses are
  those that were written.

## 2. Modules

| Module | What it is |
|---|---|
| `NvramTable` | layout of a table: what one read or one write of it does |
| `TlvLength` | length prefixes and record sizes |
| `BoatKeypair` | keypair store and soft keystore |
| `BoatNetwork` | network store with the entry points of the ten protocols |
| `IndexDirectory` | abstract specification: a directory in which a call fills or empties one entry in one step |
| `KeypairRefinement`, `NetworkRefinement` | refinement mappings to `IndexDirectory` |
| `Web3Intf` | JSON-RPC requests, their buffer, the parsers of the answers |
| `RawTransaction` | the raw transaction of each protocol, and how a node reads it |
| `BoatTransaction` | steps of a call: requests, answers, receipt loop; the node and the network |
| `BoatWalletApi` | the API functions of the seven JSON-RPC protocols on top of these steps |
| `Http2Intf` | connection and receive buffer of one HTTP/2 request |
| `BoatFabric` | wallet and transaction of Fabric and Huawei BCS, endorsers and orderers |
| `BoatChainmaker` | invoke and query of ChainMaker V1 and V2, composed with `BoatFabric` |
| `BoatUtility`, `PlatonBech32` | conversions |
| `RlpEncoder` | RLP objects on the heap, composed with the conversions |
| `MC*` | instances for TLC |
| `*_proofs` | theorems and their proofs (section 4) |

### Stores

`kp`, `pk` and `nw` are the tables by store type (`RAM`, `FLASH`). A table is the number
its header announces (`BadNum` when the header is refused) and the record in each slot;
the byte offset of a record is abstracted to its slot, its length is kept, because lengths
decide what a write does to the bytes behind it (`WriteRec`, `DropRec`) and when the area
is full (`AreaEnd`). `pc` names the next write of the running call, `ctx` holds its
locals, `ret` what the last call returned. `pre` is a ghost: what readers saw of every
persistent index when the call began.

Each action is one write with all reads and conditions that lead to it. `BoatKeypairCreate`
is `kpRec` (record), `kpNum` (header), `pkRec`, `pkNum`; when the private key cannot be
stored, `Rollback` continues in the delete. `BoATIotKeypairDelete` is `kpDel` (find, lower
the number), `kpTail` (move or blank the record), `pkDel`, `pkTail`; `kpRecover` and
`pkRecover` are the catch blocks; `Restore` stores the keypair again through the same
`kpRec`, `kpNum`. A network create writes protocol, index, data and header
(`nwProtocol`, `nwIndex`, `nwData`, `nwNum`); its delete is `nwDel`, `nwTail`, with
`nwLast` and `nwRecover` for the two recoveries. The protocol files share these steps and
differ in the format of the data (length-value fields, or a protobuf message for Fabric,
Huawei BCS, ChainMaker and CITA); every file's read, list, store, create and delete
function has a definition of its own. `built` is the pair of protocols of the build.

A key is a model value that stands for the public key and its private key; the data of a
network is the protocol whose fields it holds and a length; names are lengths.

### JSON-RPC wallets

`BoatWalletApi` has one action for each function an application calls; the action sets
fields at once or leaves in `todo` the steps that need the node. `BoatTransaction` takes
the steps one by one: `Request_*` and the seven `*SendRawtx` send (`rpc`), `Network`
actions end the request, `Answer_*` go on with what came. A step that fails ends the call
with its code, as the early returns do. `tx` is the transaction structure, which lives on
between calls with its hash; `web3` the two buffers of the wallet: the length of the JSON
buffer, which grows and is never shrunk, and what the last parser left in the result buffer.
`node` has the pool, the ledger, the height of the chain and transactions still on their
way. It is external: the five Ethereum-like nodes take one transaction per nonce, FISCO BCOS
and CITA refuse a nonce seen before and a block limit in the past. `sent` and `acks` are
ghosts. The nonce of CITA is a buffer that is sent whole (`noncebuf`); a set call writes the
first bytes of it, and `longest` is a ghost, the longest nonce set since the last TxInit
(`CitaNonce`). A byte has three values, what lies behind the second byte is one of many.
Whether r or s of a CITA signature begins with a zero byte is chosen when it is made
(`CitaSigned`). Numbers are small; hashing and signing are injective (a signature is the key and
what was signed), JSON is the kind of answer.

### HTTP/2 wallets

`exec` is the running call with the position in its loops (layout `i`, group `j`, endorser
or orderer `k`, `valid` endorsements so far). Packing, sending a request, its end and the
handling of what came are four kinds of actions. The receive buffer may hold a whole
answer, a piece, or what was freed; `http2.buf.may` is what a parser can make of it. Where the code
reads freed or unset memory, or frees what it must not, the process dies (`alive`) or any
outcome follows. `tx.left` is a ghost: how many of the answers in the array are those of
Submits that failed; `node` remembers it with what went to an orderer, by which orderer
(`by`), what it answered and whether the answer came back `whole`. `BoatChainmaker` adds the parameters that a
synchronous invocation overwrites, the response, and a chain that executes transactions
when it likes.

### Encodings

`heap` has the RLP objects; lists point to objects, so one object may be in two places.
`blocks` counts allocated blocks. `RlpEncode` may be called on a list that has a stream, as
Quorum does; the stream that is there is not freed, and the ghost `over` counts what is lost
that way. Strings and lists get their head from one operator (`HeadBytes`). Encoding is done byte by byte, as what goes wrong there
goes wrong in bytes; the reader (`Items`) is an RLP decoder written from the definition of
the format. Numbers come in as sequences of digits, addresses as five-bit characters.

### Faults

`FaultKinds` says what may go wrong and `MaxFaults` how often.
* Stores: `read`, `write`, a flash access that fails and is reported; `internal`, an
  allocation, key generation or encryption that fails; `overflow`, network data too long
  for its RAM buffer; `crash`, power lost between two writes, which empties the RAM tables.
* JSON-RPC: `timeout` (the node may get the transaction later or never), `answer` (handled,
  the answer is lost), `garbage`, `reject`, `nomem`, `sign`, `packbuf` (CITA's packed buffer).
* HTTP/2: `connect`, `send`, `timeout` (nothing or a piece arrived), `protocol`, `pack`, `nomem`.
* Encodings: any allocation.

`faults.seen` remembers the kinds that occurred, and each property names those it holds
under: an unreadable header, for instance, is taken for an empty table, so `TablesSound`
does not speak of behaviours with a failed read.

## 3. Runs

| Run | Instance | Expected | Shows |
|---|---|---|---|
| `keypair_faults` | 2 persistent keypairs, 2 keys, 2 name lengths, 1 fault of any kind | pass | tables sound, keys match, every answer true |
| `keypair_refines` | 3 keypairs, 1 failed write, keys symmetric | pass | keypair store implements `IndexDirectory` |
| `keypair_crash` | 2 keypairs, 1 power cut | violation | a cut in a delete loses another keypair |
| `keypair_onetime` | 2 keypairs, no fault | violation | the private key of the one-time keypair survives its delete |
| `network_faults` | 2 networks, five pairs of protocols, 1 fault of any kind | pass | table sound, lists complete, answers true |
| `network_refines` | 2 networks, 2 protocols, 1 failed write | pass | network store implements `IndexDirectory` |
| `network_list` | 2 networks, 2 protocols, no fault | violation | a list counts the networks of other protocols |
| `tx_faults` | all 7 protocols, 4 calls, 2 transactions, 1 fault of any kind | pass | success, pending, hash and sender are true, calls return |
| `tx_continuous` | Ethereum, no fault | violation | the second of two asynchronous transfers is refused |
| `fabric_faults` | 4 protocols, 5 node configurations, 5 calls, 1 fault of any kind | pass | endorsements complete and current, what is ordered is told, calls return |
| `fabric_refused` | Fabric, no fault | violation | a Submit all orderers rejected reports success |
| `codec` | 2 strings, 2 lists of 2, data of 54, 56 and 256 bytes, memory short once, one stream encoded over | pass | decoder reads what was encoded, no memory lost, conversions right |

Bounds. Two persistent records are the least with which a delete has a record to move and
a gap to leave, three (in `keypair_refines`) the least with one in front and one behind the
deleted one; the proofs cover every number. Two name lengths make a moved or overwritten
record leave the bytes behind it misaligned; in the network runs the formats of the two
protocols do that. One fault per behaviour is what the recovery code is written for. A
wallet needs two calls to be opened with a transaction, so four leave two sends, or a
change of settings and a send, with a timeout in the first; the receipt loop has two
rounds. Five HTTP/2 calls (open, initialise, set, and two more) let a failed or successful
Submit or Evaluate be followed by another one. The node configurations have two groups
needing one and two endorsers and two orderers; two layouts, of which the second is never
tried and would not fit; a group that needs none, the only way past Huawei BCS's endorsers
that does not end the process; such a group behind one that needs an endorser, as even a
group that needs none may have one answer stored; and two groups whose endorsements fill the
array of `ENDORSER_MAX_NUM` places, so that the orderer's answer goes behind it, as ten
endorsements do in the code. `MaxOver` lets `RlpEncode` lose one stream: a second one is lost
in the same way. Data of 54 and 56 bytes are on both sides of the boundary at 55/56, lists
around them have bodies of 55 bytes and more. 4096 stands for 2^32 in `v`.

Deadlock is checked in the runs of the stores: a call always has a next step and an idle
store can always be called. It is not in `tx_*`, `fabric_*` and `codec`, where the bound on
calls, a dead process or lists that cannot be used again are ends the system really has.

The properties, by name:

* Stores. `TablesSound`: records counted are there, no index twice (networks: and the data
  belongs to the protocol of its record). `SignsForItself`: after any single fault, public
  and private part of an index match. `CreateFailsOnlyWhenFull`: without faults a create
  fails only when every index holds a usable keypair. `OthersUntouched`: one failed write
  in a call leaves every other index as it was. `CreateOkUsable`, `CreateOkReadable`: what
  a create stored is read under the index it returned, which was free.
  `FailedDeleteKeeps`, `DeleteErases`, `DeleteTellsTruth`: what a delete returns is true.
  `FailedCreateHeals`: a create that meets a private key a power cut left behind removes
  it. `ListShowsEveryNetwork`: a list has what its protocol can read, each once, and what
  is written behind its array is the one-time network of ChainMaker or CITA, whose lists
  have a place less than there can be networks, when all persistent ones are theirs.
  `ImplementsDirectory`: every step is an atomic step of the directory or a stutter.
* JSON-RPC. `SuccessMeansMined`, `PendingMeansAccepted`: what a send or receipt returned is
  true of the transaction it was about. `HashIsOfLastSend`: no receipt is asked for under
  the hash of an earlier transaction. `SenderRecovers`: the node finds the sender, but for
  CITA transactions whose r or s begins with a zero byte, none of which it takes.
  `SentIsWhatWasSet`: the node reads the fields that were set; a private payload is another
  text by then, the data of an earlier PlatONE Transfer a local variable (`DataReplaced`),
  and CITA's nonce has the bytes that were set with, behind them, what a longer nonce left
  (`NonceAsSet`). `PrivatePayloadStaysPrivate`: a private Quorum
  payload is replaced by its own handle. `EverySuccessIsATransaction`: as many transactions
  as successes. `CallReturns`: every call ends.
* HTTP/2. `EndorsementsAreOfThisProposal`, `EveryGroupEndorsed`: what an orderer gets is
  endorsed, but for what goes there after a Submit that failed, which leaves its endorsements
  in the array. `ResponsesFit`: the array of answers is overrun only by a call that may
  store more (`Needs`, and what failed Submits left) than it has places; the code compares
  neither the configuration nor the number of answers with its length, and the run has
  configurations in which it is overrun. `EvaluateResultIsCurrent`: no result of an earlier
  call. `HwbcsSuccessMeansOrdered`, `SyncInvokeMeansExecuted`: success is true.
  `OrderedIsTold`: unless an answer of an orderer got lost on the way, or a Fabric orderer
  rejected the transaction (its buffer is freed and an answer after it means anything), one
  orderer at most accepts it, and the Submit that was accepted does not end with an error
  after which the application would submit again. `SocketsClosed`: in a run without faults
  no socket is left open; a request that times out leaves its own open. `CallReturns`: as
  above.
* Encodings. `NodeReadsTheList`: a decoder finds what was put together. `NoBlockLost`: no
  block is lost or freed twice, but those that `RlpEncode` puts a new stream over.
  `QuantityIsWhatWasWritten`: a number that fits is the one that was written.
  `AddressChecked`: an address with a character changed or two exchanged is refused.

### Findings

The five violations are explained in `PROJECT.json` under `findings`, with the comment or
document each contradicts. More things the models show and no run is spent on: a failed
allocation in a network delete loses the last network of the table, as the number is not
put back; with names of 64 bytes, the documented maximum, the fifth keypair does not fit;
the one-time network of ChainMaker or CITA is written behind the array of a list that is
full (`network_chainmaker.c:318`, `network_cita.c:280`); a CITA transaction whose r or s
begins with a zero byte, one in 128, is refused by the node, and a CITA nonce may end in
bytes of an earlier one; with as many endorsements as the array has places, ten in the code,
the orderer's answer is written behind it (`api_hlfabric.c:305`); each send of Quorum loses
the streams it encodes over. The runs also confirm things that look wrong and are not: the network delete that
"recovers" its number by writing the header over the last record returns success, and the
network is indeed deleted (`DeleteTellsTruth`); a private key that
`BoAT_DeletePirkeyByIndex` leaves behind while it returns success is never paired with a
new public key (`SignsForItself`); the assignment `i = (BOAT_RETRY_CNT - 1)` in a
ChainMaker condition ends the loop early and yet reports no success that is none
(`SyncInvokeMeansExecuted`).

### Fairness

`tx_faults` and `fabric_faults` assume weak fairness of `Client` (a call that runs goes on:
it is a single thread that never waits for anything but its request) and of `Network` (a
request ends: libcurl is given `CURLOPT_TIMEOUT_MS` of 30 s, `curlport.c:258`, the socket
`SO_RCVTIMEO` of 500 ms, `boatplatform_internal.c:428`). Nothing is assumed of the
application, of the node or of the chain: a transaction may never be mined, and
`CallReturns` holds because the receipt loop and the rounds of ChainMaker are bounded. The
calls of the stores are bounded sequences of steps without waiting, whose end needs no
fairness argument.

## 4. Proofs

Every theorem holds for all values of the constants that satisfy the named assumptions of
its module and the hypotheses it states: any number of records, keys, protocols, nodes,
calls and faults. TLC checked each inductive invariant on the instance of the run named
with it.

Shared: `NvramTable_proofs` has lemmas on the table operators (the search returns the least
match, a free index is free, what each write keeps and changes). `AreaEnd` and `Listed` are
recursive functions; what they compute is proved by `Induct`, induction over the numbers in
terms of a set, which the provers can instantiate where they cannot instantiate the
predicate of the library's theorem. The lemmas that follow (`AreaStep`, `AreaSame`,
`AreaBound`, `AreaDrop`) say how the end of a table moves with each write.
`TlvLength_proofs` proves `LengthRoundTrip`: a length of 1 to 65535 is read back as it was
written, out of as many bytes as are reserved for it, so that the walk of a table arrives at
the records that were written.

### Keypair store

* `KeypairTypeOK`. `TypeOK` is not inductive: the header a store writes is one more than a
  local of the call. `CtxOK` adds what the locals are at each write (the number is below the
  maximum at `kpNum` and `pkNum`, the index is a persistent one in a delete that moves
  records, a keypair is at hand where one is stored).
* `KeypairTablesSound`. `SoundInv` says of every point of a call how the table differs from
  a finished one: while a record is being appended it lies behind the last one and its index
  is absent (`Appending`); while one is being removed all records up to the old number are
  intact (`Removing`); and while a keypair is out of the table, to be created or restored,
  its index is absent. One lemma for each write (`AppendRecord`, `CountIn`, `CountOut`,
  `DropOut`, `CountBack`) and one for each action follow (`keypair_faults`).

`BoatKeypairViews_proofs` proves what callers see: `KeypairSignsForItself`,
`KeypairOthersUntouched`, `KeypairFailedDeleteKeeps`, `KeypairDeleteErases`,
`KeypairFailedCreateHeals`, `KeypairCreateOkUsable`, `KeypairCreateFailsOnlyWhenFull` and
`KeypairImplementsDirectory`, which are all properties of `keypair_faults` and
`keypair_refines` but the two of the list above. They are about calls that met a fault, and
about *two* tables, so the invariant (`keypair_faults`) has to say what the tables would
show once the running call is finished or undone:
* `PairInv`: as long as at most one thing went wrong (`Counting` ties the number of faults
  to their kinds), `PairState` holds. `Pub` and `Pri` read the tables with the number the
  call works with instead of the header's; `OthersOK` says that all other indices read as
  the ghost `pre` recorded before the call; `OwnOK` what the index of the call shows at each
  write (`OwnKeys`), which record the next write relies on (`OwnRecords`), that there is room
  for a record that must be put back (`OwnRoom`), and which fault must have happened for a
  rollback or restore to run (`OwnPast`). The case nobody would expect is `Dup`: after a
  misread header a create can be given an index in use, writes a second record of it behind
  the first, and the rollback finds and deletes the *first* (`Twice`); that no private key
  is ever left beside the public key of another keypair has to be shown for this case too.
* Every step also proves `Outcomes`, what a call that ends leaves; the action properties
  follow from it and from `Shown` (between calls `pre` is what readers see).
* `RamInv`: the one-time keypair is written to the first record of both RAM tables; it
  holds whatever and however often things fail.
* `FullInv`: without faults a create ends in failure only with every index taken; the room
  for the record is the sum `AreaEnd`, bounded by `AreaBound`.

Four of them have hypotheses, without which the property is false or, where said, open.
`NamesFit` asks that records are no longer than the 142 bytes the code reserves for one,
which names of up to 62 characters are: a record that does not fit is refused by the storage
before the rollback that cleans the index is reached. `BOAT_MAX_KEYPAIR_NUM >= 2` excludes a
table with room for one record only, in which the one-time keypair can be stored once and
never replaced. `MaxFaults <= 1` for `CreateOkUsable`: a second misread header loses
records. `KeypairImplementsDirectory` adds failed allocations and key generations to the
failed write of `keypair_refines`; after a power cut the store is no such directory
(`keypair_crash`), after a misread header the question is open. Its argument: an entry is
the `Join` of what the two tables show, empty unless they agree (`EntryOK`); every step
changes at most one of the two for the call's own index and none for the others
(`JoinChanges`), and the step that completes the pair is the create, the first that breaks
it for good the delete.

### Network store

`BoatNetwork_proofs` proves `NetworkTypeOK`, `NetworkTablesSound`, `NetworkOthersUntouched`,
`NetworkListShowsEveryNetwork`, `NetworkCreateOkReadable`, `NetworkDeleteTellsTruth` and
`NetworkImplementsDirectory`.
`NextCases` brings the entry points of the ten files down to the steps they share, and
`GetIsSeen` their readers to one (`Seen`). The invariant (`network_faults`):
* `CtxOK`, the locals of a call. That a create finds a free index in a table that is not
  full (`FreeIndex`) is a counting argument: fewer records than indices.
* `TabGood`, soundness of the tables, but for the data of the one-time network while it is
  overwritten in place; `CallInv`, as in the keypair store, what is behind the last record
  or above the lowered number;
* `ViewInv`: what every protocol reads of the flash table, with the number a running delete
  has lowered put back (`Uncut`), is what it read before the call. The action properties
  follow from it and from the list of the ways in which a call ends (`Endings`).
* `HomeInv`: no record in flash carries index 0, and the one in RAM no other, so that no
  network is in both parts of a list.
The last three hold as long as no header was misread and no one-time network was too long,
the same exception `TablesSound` makes. `NetworkListShowsEveryNetwork` rests on `HomeInv`
and on `ListedIs`, by induction over the records: the list of a sound table has each
network of the protocol once (`Enumerates`), and as the persistent ones are no more than
their indices (`MineAreFew`), what the array has no place for is the one-time network.

`NetworkImplementsDirectory` has the hypotheses of the run `network_refines`: writes are
all that fails, and at most one does (with a second one the number cannot be put back, and
the property is false). Initial states map to initial states (`DirectoryInit`); a step of a
call keeps the other entries (`OthersKept`) and fills, empties or keeps its own
(`PersistentWork`, `OnetimeWork`); `DirectoryStep` puts them together. The mapping differs
from what readers see in two places, and both matter: a delete takes effect when the record
is gone or the last record can no longer be saved (`nwLast`, lemma `LastOut`), and a
one-time network is gone once its replacement has begun.

### JSON-RPC wallets

`BoatWalletApi_proofs` proves `WalletTypeOK` and all seven safety properties of `tx_faults`.
The invariant (`BoatTransaction_proofs`) is `TypeInv` and
* `CallInv`: what the rest of the list of steps can look like (a send is last but for the
  receipt of a synchronous one; a private payload is filled right before it);
* `RpcInv`: the request under way is that of the first step, and its answer one the node
  can give to it, also after the node went on by itself;
* `FillInv`: the handle of a private payload is in the result buffer until it is used;
* `NodeInv`: pool and ledger have accepted transactions only, all of them the wallet's
  (`Recovered`) and none with a short r or s, and transactions still on their way are paid
  for by faults;
* `HashInv`, `RetInv`, `AckInv`: what the stored hash, the returned code and the number of
  successes say about the node.
Two assumptions were made explicit by the proofs: `v` fits its 32 bits, and on Quorum chain
id 1 is not used, whose `v` is the mark of a private transaction (`ChainIdAssumption`). A
fresh nonce is drawn from as many values as transactions can be accepted or on their way,
and one more (`FreshNonce`).

### HTTP/2 wallets

`BoatChainmaker_proofs` proves `ChainmakerTypeOK` and all eight safety properties of
`fabric_faults`, for node configurations of any size: `NodeCfgAssumption` says no more than
what `checkNodefig` does. The invariant is `TypeInv` and
* `LoopInv`: where the three nested loops are, that the groups before this one have the
  endorsements they ask for and this one as many as `valid` counts (`Collected`), and that
  answers stored so far are no more than those left by failed Submits and the places passed
  (`Fits`, with `TakenAt`, a set whose cardinality is compared with the array);
* `RpcInv`, `BufInv`: the request is that of the position, and the receive buffer holds
  nothing a parser could take for another kind of answer;
* `SentInv`, `RetInv`: what an orderer accepted or the chain executed, and what was returned.

`FabricResponsesFit` follows from `Fits`: at the end of the loops the places passed are at
most `Places`, so a call for which `tx.left + Needs` is within the array does not overrun it.
`FabricOrderedIsTold` has an invariant of its own, `OrderInv`. `OnceInv` says the goal for
every transaction that was ever sent; `PhaseInv` says of the current one what holds at each
step of a Submit: before the loop over orderers no orderer has it (`Unsent`), in the loop
none has accepted it (`Untold`) until the answer that says so is the whole content of the
buffer (`Told`), and between calls an error is returned only when none has. Every step is
shown to keep it for each of the ways in which an answer is taken (`EndorserOrder`,
`OrdererOrder`), and a step that loses an answer makes the transaction `Amiss`, of which the
property says nothing. What `NoAnswer` stands for is no answer (`NoAnswerAssumption`).

### Only model-checked

* Liveness (`CallReturns`): fairness is out of the prover's reach.
* `NodeReadsTheList`, `NoBlockLost`, `QuantityIsWhatWasWritten`, `AddressChecked`: the
  encoder, the decoder and the conversions are RECURSIVE operators over trees and digit
  strings, which cost a module its SMT prover.
* The five violations: a counterexample is all they need.

## 5. Not modelled

* Overlapping calls: the SDK takes no lock and leaves that to its user.
* Writes torn within one call of the platform, and writes reported as done that never
  reached the medium (the result of `fclose` is ignored).
* Empty keypair names, whose record does not parse.
* What is overwritten behind the array of a network list, and what freeing a list with too
  large a number does.
* What becomes of a Fabric transaction after the response array was overrun: any step that
  uses it may end the process.
* A piece of an HTTP/2 answer that is exactly the five bytes of its gRPC header, or ends
  between two protobuf fields: both can be unpacked, to a message with fields missing.
* Upper case in PlatON addresses: the decoder takes it in the data part and refuses it in
  the checksum (`boatplatonbech32.c:232`, `:240`); characters are numbers in the model.
* A keypair table whose bytes are full before its indices are: the names of the runs leave
  bytes to spare.
* JSON text, protobuf text, HTTP/2 frames, TLS; libcurl's receive buffer.
* Encryption, signing, hashing (a signature is the key and what was signed).
* Copies of accounts and certificates into Fabric wallets; time stamps.
* Addresses with characters left out or put in; hexadecimal texts that are no number, but
  for their conversion to zero.
* Third-party code (cJSON, nghttp2, protobuf-c, crypto) and the generated `*.pb-c.c`, which
  are about half of the lines under `sdk`; the ports to boards other than Linux.

## 6. Plan

1. *Done*: the stores, their abstract specification, type correctness and table soundness.
2. *Done*: transactions of the JSON-RPC protocols and of the HTTP/2 protocols, the web3 and
   HTTP/2 interfaces, RLP, hexadecimal and bech32 conversions.
3. *Done*: proofs of the network store with its refinement of `IndexDirectory`, and of the
   JSON-RPC and HTTP/2 wallets.
4. *Done*: proofs of the keypair store, what its calls promise and its refinement of
   `IndexDirectory`, and of the lists of networks.
5. Two callers on one store, to show what the missing lock costs.
