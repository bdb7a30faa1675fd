# Dragram: specifications, model checks and proofs

Dragram is a messenger for a closed circle: a FastAPI server over PostgreSQL,
Redis and an S3 bucket (`src/`), a React client that runs in the browser and in
an Android shell (`frontend/`), with end-to-end encrypted chats. This directory
models the parts of it in which several things happen at once and a unit test
hardly reaches the order that matters. TLC checks every module on a small
instance; TLAPS proves the most important properties for every value of the
constants.

Paths below are relative to the root of the repository.

## 1. Inventory

| part | state it keeps | operations | interacts with | hard because | correct if |
|---|---|---|---|---|---|
| session tokens: `src/jwt_auth/jwt_service.py`, `src/auth/service.py` | in Redis a status per token and an epoch per user, all with an expiry; signed tokens at the clients | log-in, verify, refresh (rotate), log-out, log-out everywhere, delete account | every request; Redis; users table | requests race between their awaits; Redis expires keys, evicts them, goes away | what was revoked stays out until its expiry; while Redis answers nothing else is refused as revoked; sessions of a deleted account end |
| chat websocket, client: `frontend/src/App.tsx` 599-813 | `wsRef`, `wsRetryTimer`, `activeChatRef`, `loadedChats` | open chat, connect, retry, leave, send | tickets, history, keys | awaits and callbacks of several openings overlap; refs are read before and after an await | a message reaches the chat it was written in; the open chat gets its socket back |
| message cache, client: `frontend/src/messageCache.ts` | an IndexedDB entry per user and chat; a queue of appends | read, write, append, drop, clear | openChat, ws.onmessage, logout | only appends are queued; drops, history and clearing run beside them | no duplicates; deleted messages stay deleted; another user's messages do not come back |
| message delivery, server: `src/chats/service.py`, `router.py` | message rows; a Redis channel per chat | send, delete, read, history, subscribe | cache and view of the clients | commit and publish are two steps; a channel forgets | events follow commits |
| group keys: `App.tsx` 38-79, 836-880; `src/chats/repo.py` 191-214; `src/auth/repo.py` 94-123 | `users.public_key`, `chat_keys`, `chatKeysRef` | start group, add members, open, publish and rotate pairs | key pairs, members | a client reads a public key, wraps for it and uploads later; rows are insert-only | a row opens with the pair its member publishes; those without a row get one |
| key pairs: `App.tsx` 285-350, `frontend/src/crypto.js` | IndexedDB pair in two halves, `public_key`, `key_backup`, `keyPairRef` | set up with and without the password, back up, restore | group keys, log-in | three stores written one after another; a publication or a backup that exists is never overwritten by another pair, only a rotation replaces both; errors swallowed; the app dies in between | device, server and backup agree |
| client authentication: `frontend/src/api.js`, `Auth.tsx`, `Gate.tsx`, the start of `App.tsx` | tokens, media ticket, gate pass, cached profile in localStorage; who is on the screen | request, refresh (single flight), retry, log-in, log-out, deletion, gate | session tokens, gate | a refresh in flight while the person logs out; answers that are lost; a queue behind a refresh | a log-out is final on the device; the device never reuses a refresh token; a broken connection ends no session |
| stored files: `src/s3/service.py`, uploads of chats, posts, albums, avatars; `src/core/quota.py` | objects, their addresses in rows, a counter per day | upload, delete, forward | every module with files | upload, row and deletion are three systems | a row never names a deleted file |
| media cache, client: `mediaCache.ts`, `useCachedImage.ts` | files, an index flushed in batches, object URLs | put, get, flush, evict, warm up, sweep, clear | views | index and files are written at different times | the index the limit is kept by accounts for every file, outside the overlaps the module names |
| data cache, client: `dataCache.ts`, `loadChats` | saved answers per key | show the saved one, then the server's; sweep, clear | albums, posts, profile | the saved value and the answer of two screens overlap | the screen shows what it is about, never older than before |
| conversation: `ChatView.tsx`, `App.tsx` 599-813 | the list of messages, `hasMore`, what is pending | open, receive, send, delete, load older | cache, socket, history | four sources of messages, in any order; the server commits and publishes in two steps | each message once, no gap, unless one of the causes the module names happened |
| composer: `ChatView.tsx`, `MessageActions`, `ForwardModal`, `AttachSheet` | draft, quote, menu, upload, recorder | write, reply, forward, attach, record | conversation | the chat changes while something is open | quote, menu and microphone are of the chat on the screen |
| albums, client: `AlbumsList.tsx`, `AlbumGallery.tsx` | the grid, the selection, the long press | open, load, select, delete, upload | data cache, stored files | loads of two albums overlap | the grid becomes the album, outside overlaps |
| posts, client: `PostFeed.tsx`, `PostCard.tsx`, `PostThread.tsx`, `CreatePostModal.tsx` | pages, the word searched, marks, comments, the window of a new post | search, page, like, comment, publish | data cache, stored files | answers of several requests in any order; taps faster than answers; the server looks first and writes then; other people post, comment and delete meanwhile; answers are lost after the commit | list, mark and thread end as the server has them, unless one of the excuses each module names happened |
| limits, tickets, presence: `src/core/` | counters and tickets with an expiry | hit, issue, redeem, touch | log-in, websocket | check-then-act, Redis down | limits hold, tickets work once |
| chats and members, contacts, posts, albums (server) | SQL rows | CRUD, one session per request | files, keys | check-then-insert | no duplicates |
| gate, media delivery, push, Android shell, interface, deployment | little or none of the program's own | | | | |

`PROJECT.json` lists the same parts with their status, and every hazard found
in them with the line where it bites.

### How the parts meet

A client logs in and holds a token pair; `api.js` renews it. Opening a chat
resolves its key (the pair of the two users, or the group's row in
`chat_keys`), shows the cached messages, fetches a page of history, and opens a
websocket with a one-time ticket. The server commits a message, publishes it to
the chat's Redis channel, and every subscribed socket passes it on; the client
decrypts it, shows it, and appends it to the cache as it came. Log-out revokes
the tokens and clears the caches, and nothing on the client waits for either.

## 2. Plan

Order of work, most important behaviour first. Done: 1 to 10.

1. `Sessions` with `TokenLife`, what it promises, as abstract specification.
2. `ChatSocket`.
3. `MessageCache` (with the order in which the server commits and publishes).
4. `GroupKeys`.
5. `MediaStore`: files and the rows that name them.
6. `ClientAuth`: single-flight refresh against log-out, the gate and lost answers.
7. `KeyPairs`: setupCrypto on several devices, failed calls, restarts.
8. `DataCache`, `MediaCache`: what the device keeps beside the messages.
9. `Conversation`, `Composer`: what the open chat shows, and what it writes with.
10. `Albums`, `Feed`, `PostCard`, `PostThread`, `NewPost`, and `MCClient`, which
    puts the parts of the client side by side.
11. Left: limits, lock-out, one-time tickets and the quota; the creation of chats by
    check-then-insert and the membership an open socket captured; `ClientAuth` over
    the refresh of `Sessions` rather than over a server of its own.

Proofs left: none of an invariant or an action property that a run checks; those of
point 11 come with its modules.

## 3. The modules

### Sessions, TokenLife

`pairs` are the tokens issued (a pair is what one call of `create_token_pair`
issues), `status` and `epoch` are the Redis keys with the second until which
they live, `req` are the requests in flight with their place between two
awaits, `users` the accounts in the database, `now` is `int(time.time())`.
One action per await at which another request can run: a refresh is
`RefreshStart` (the service's own verification and its look at the user),
`RefreshVerify`, then `RefreshRevoke` and `RefreshIssue`, or `RevokeFamily`
after a token that turned out revoked. A Redis key may disappear any time in
the second its time is up (`StatusGoes`, `EpochGoes`) and is gone after it;
with `Evicts` it may disappear at any time. `RedisToggle` makes Redis
unreachable: verification then refuses, issuing leaves no key, revoking fails.

Abstractions: the two reads of `verify_token` are one step, which loses
nothing because what they ask for only accumulates. Log-in is one step:
password check, lock-out and look-up before it, and issuing. A pair logged in
for while its account is deleted would be one more pair that no refresh accepts.
Only tokens the service passes on enter a slot, the others are answered 401
without an effect.

`revoked`, `cut`, `gone`, `via` and `dead` are history: they record what the
properties speak about and no action's guard reads them.

`TokenLife` is the abstract promise: tokens are issued once, are good for a
while, and never again once they stopped. The mapping in `Sessions` calls a
token good while it is before its nominal expiry, not revoked in Redis and not
before the epoch.

*The leeway.* PyJWT accepts a token for `leeway` seconds beyond `exp`, and the
keys do not always live that long: `revoke_all_for_user` keeps the epoch for
exactly the time of a refresh token. In those ten seconds a token that was cut
off can be accepted again. All properties of `Sessions` are therefore stated up
to the nominal expiry.

### ChatSocket

Each `openChat` starts a chain that awaits the key, the history and the
ticket, opens a socket, and when the socket closes waits for a timer and
connects again. A chain is in one of these places at a time, so calls, sockets
and timers are the states of one record per opening (`chain`), and `wsRef` and
`timer` are the chain whose socket or timer the program's refs hold. `Connect`
closes whatever `wsRef` names, as line 600 does; `Retry` is the tail of
`ws.onclose` and of a refused ticket. The model keeps that a timer fires
whatever chat is active by then, and that a closed socket of the active chat
schedules a reconnect even if the client closed it. `SendStart` and
`SendFinish` are the two sides of the await of `encryptMessage`.

### MessageCache

One chat, one device. `store` is the IndexedDB entry of each user; `queue` and
`job` are `_writeQueue` and the append whose turn it is, split where it has
read and not yet written; `drops`, `loads` and `handlers` are the calls of
`dropCachedMessage`, of `openChat`'s history and of `ws.onmessage` at their
awaits; `owed` are events the server has committed and may publish late, in
another order (a deletion is a request of its own), or to nobody (`Miss`).
`Logout` does not wait for `Clear`, which may fail; `Expired` ends a session and
clears nothing. `me` is `userIdRef`: it still names the user after either, until the
screen without one has been drawn (`Rendered`, the effect of `App.tsx` 231), and a
message that is decrypted after that is cached for nobody. `Restart` is Android
killing the WebView: what is on the disk stays, every task is gone. A message is its place in the
order of posting, so the client id and the server's id of a message are one.

`fate` is history: a drop is "alone" if nothing under way held the message when
it listed the entries, and stays alone until another task reads an entry that
still holds it.

### GroupKeys

One group. `row` is `chat_keys`: which group key, wrapped for which of the
member's pairs. `held` is `chatKeysRef` of each client, `task` what the client
is doing with the key: `startChat` (`Start`, `Generate`, `Wrap`, `Upload`) or
`shareGroupKeyWithNewcomers` (`Open` or `AddMember`, `Listed`, `Wrap`,
`Upload`). Public keys are fetched one by one (`Wrap`), in any order, and each
fetch may fail or find no key, which leaves that member out. `Rotate` is one
commit that replaces the pair and deletes the member's rows. `Restart` loses
what a client holds and does. `overtaken` is history: a rotation happened while
some client had wrapped for the previous pair and not uploaded yet.

A group has more than two members (`FoundersAssumption`), as `add_members` and
`openChat` demand: the key of a chat of two is derived from their pairs.

### MediaStore

`alive`, `files`, `members` and `made` are the database: the rows there are, the
files each of them names, the members of albums, the ids drawn. `objects`,
`uploads` and `origin` are the bucket. `task` holds the requests between two of
their awaits: what each read when it began (`base`), what it has uploaded
(`held`), what it is deleting (`trash`). One kind of request is a picture (of a
user or a chat), a message with a file, media for a post, materials for an album,
the deletion of a material, of a message, of a post, or of an account. An upload
begins with its checks and what it reads (`StartPicture`, `StartMessage`,
`StartPost`, `StartAlbum`), puts its files into the bucket (`Upload`,
`UploadFails`), and commits the row (`Save`, `SaveFails`), or takes back a batch
that failed (`Withdraw`). Deletions delete rows first and files afterwards
(`Remove`); `RemoveRefused` is the ClientError that `delete_file` logs,
`RemoveRaises` any other failure. `Crash` ends all requests where they are.

`Save` keeps that `add_media` locks the post but its session answers with the
media it loaded before the uploads, so that the second of two overlapping uploads
writes over the first. `Forward` copies an address, not a file, and may copy it
from a message that is deleted by then, because the forwarding client may still
show it; for the same reason deleted rows keep their value in `files`.

Abstractions: a transaction is one step at its commit, except where the code read
something in it before an await. Ids are drawn at random, so whose row an id will
be and of which type a message is are constants. All users are in the one chat.
Sizes, types and the quota are not checked; addresses outside the bucket, which
`delete_file` ignores, do not occur.

`shared`, `raced`, `stored` and `excused` are history; `Save` reads `raced` only
to say what it leaves behind.

### ClientAuth

The session as the native client keeps it. `store`, `gateTok`, `ticket` and
`cached` are what is in localStorage (the tokens, the pass of the gate, the media
ticket, the profile), `user`, `gateOk` and `loading` the state of `App`; `owner`,
`live`, `fresh`, `spent` and `gateValid` are what the server knows of tokens and
pass. A slot is one asynchronous call of the client, with the token it was built
with and its place: the request is `out`, its answer `back`; after a 401 it is
`refreshing` or `queued` behind the slot that is, and `woken` with the outcome
(`Settled`: a promise that settles wakes its queue before any other event). One
action per stretch between two awaits: the person and the timers begin calls
(`LogIn`, `Unlock`, `Poll`, `LogOut`, `DeleteAccount`), the server answers
(`Serve...`), the connection breaks before or after it did (`Lose`), and the client
goes on (`TryRefresh`, `RefreshOver`, `Retry`, and one action per kind of call that
ends). `Restart` keeps what is stored. Access tokens and the pass of the gate
expire at any time.

The server is what the client sees of it: refreshing exchanges a live token, and a
token that is not live ends all sessions of its owner, as `Sessions` says in
detail. `left` and `blame` are history: since when the person is logged out, and
whether an answer got lost or one of before the log-out was applied. After the
latter nothing more is begun, a bound.

### KeyPairs

The two halves of the pair in the IndexedDB of each device (`priv`, `publ`),
`keyPairRef` (`mem`), and the two fields of the server (`pub`, `backup`), which
`setupCrypto` fills if they are empty. (`rotate_keys`, which replaces both at once, is
called by nothing in the client; `GroupKeys` has it as `Rotate`.) A task is one call
of `setupCrypto`: it loads the two halves one after the other, fetches and restores
the backup if it has the password, or generates, stores, publishes and saves a new
pair; each call may fail (`Fails`), and a failed fetch is taken for "no backup".
`tripped` is history: a step failed, two set-ups overlapped, or the app died within
one.

### DataCache, MediaCache

`DataCache` is `withCache` with two calls at once over two keys: the saved value is
read and shown, the answer shown and saved, the sweep and the clearing at log-out run
beside it, and the write and the clearing may fail, which the code swallows.
`MediaCache` has the files and the index as IndexedDB stores them; `touched` and
`pending` are the changes that no pass has taken yet, `pass` and `queue` the passes
that read the index, evict and write it back; sweep, clearing, warm-up and the hook's
loads are tasks of their own. Sizes are 1, and days stand for times. `raced` names the
overlaps after which the account may be wrong.

### Conversation, Composer

`Lists` has the two operations on lists that `MessageCache` and `Conversation` share:
the items in a set, and the last ones.

`Conversation` is the list on the screen (`list`, `hasMore`) over the server's
messages (`posted`, `gone`). `send_message` and `delete_message` commit (`Post`,
`Delete`) and publish after further awaits: what is committed and not yet published is
in `pending`, each event a request of its own, so that they are published in any order
(`PublishMessage`, `PublishDeletion`), to whoever is connected by then, or never
(`PublishFails`). `hist` and `more` are the requests for the last and for an older page;
`queue` are the events on their way through the socket, `opening` those being deciphered,
in any order; `outbox` what was sent and not yet read by the server, `deleting` own
deletions under way. `cause` names what the list may be wrong from: an event published
while the socket was down is lost ("missed"), and one published after the page that has
its message, or after its deletion, comes too late ("late"), for two. `top` of `hist` is
history, the newest message when the page was cut.

`Composer` keeps, for everything one writes with, the chat it belongs to: the menu,
the quote, the message under the finger, the messages being sent (`send` counts them,
since nothing keeps one from pressing again while the first is enciphered), a forward,
an attachment, and the recorders by the press that asked for the microphone. What goes
along into another chat (the draft, the upload, the recording, a message being sent) is
in the model and no property speaks about it.

### Albums, Feed, PostCard, PostThread, NewPost

`Albums` is the list and the grid of one album with its overlapping loads, the long
press, the selection, deletion and upload.

`Feed` is the list of posts, of all or of those one has saved: pages by offset, a
debounced search, loads that overlap. Posts are numbers in the order of their creation,
the odd ones contain the word. They come (`Appears`: published, or saved again, which
puts an older one in the midst of the saved list) and go (`Vanishes`: deleted, or no
longer saved), and the offsets of later pages shift either way. A load knows which
others were under way when it began (`before`), so that only an answer that comes after
that of a later load is excused, not every overlap; and a lone load from the top that
is of what the server has makes the list right again (`Reload`).

`PostCard` is one mark that is shown before the server has it. The server looks whether
the row is there (`Read`) and writes and commits later (`Toggle`); two requests that
both look before one has written are the named excuse.

`PostThread` is a post with its comments. The server takes a request (`PostTaken`,
`RemoveTaken`) in one step and the screen hears of it in another (`Sent`, `Removed`), or
does not (`Lost` before the commit, `SendFails` and `RemoveFails` after it as well).
Other people write, remove, and delete the post. The thread can be left with everything
under way and opened again; the list is loaded once per visit.

`NewPost` is the window that publishes a post in two calls, between which it can be
closed, either call may go unheard, and the app be killed.

In each, `raced` is the disjunction of what the code gets wrong and the property
therefore excuses; every assignment to it says so.

### MCClient

Ten of these modules share no variable with another. `MCClient` instantiates them
over the same variables `v1`, `v2`, ...; `part`, chosen at the start, says whose they
are, and a behaviour is one of that part. One run so checks them all, and
`ClientProofs` reasons about each part as if it were alone. The properties of the
parts are conditions on `part`.

## 4. What the runs show

Bounds are constants in the `.cfg` files and appear as guards.

| run | question | bounds and why they are enough |
|---|---|---|
| `sessions_race` | Do refresh, log-out everywhere and deletion race safely? `RevokedStaysOut`, `EpochStaysOut`, `OnlyTheRevokedAreRefused`, `OnlyInFlightEscapes`, `DeletedChainEnds` | one user (keys of users never meet), two requests at once, three pairs (a login, its exchange, the exchange's exchange), four seconds with refresh tokens of three: every key can run out within the run; leeway one second |
| `sessions_logout` | Does log-out, racing refresh, end what it was given? `TypeOK`, `LogoutEnds`, `RefinesTokenLife` | two pairs, three seconds |
| `chat_socket` | Which sockets can a message reach, and does the open chat get its socket back? `TypeOK`, `WrongSocketOnlyWhileLoading`, `Reconnects` | two chats, three openings (A, B, A again, with all their chains overlapping), one message |
| `message_cache` | Do unqueued writers break the cache beyond what they must? `TypeOK`, `NoDuplicates`, `DroppedAloneIsGone`, `ClearedStaysClear` | two users, two messages, one further log-in or restart (so that the next user logs in while tasks of the first run); a page of one message, so that the history is shorter than the entry |
| `client_auth` | Is a log-out final on the device, does the device ever reuse a refresh token itself, can a queue wait on nobody, who is put out to the log-in form? `TypeOK`, `OnlyStaleAnswersReturn`, `NoSelfReuse`, `QueueHasRefresher`, `SessionKept` | one account, two calls at once (a refresher and one that queues, or a log-out beside a refresh), two pairs (a log-in and its exchange); `OneFailure` and `PassLasts`: of two answers that are back one is good, and the pass does not expire under a log-in or a deletion, so that its expiry under polls, refreshes, log-out and the start is what is explored |
| `client` | For each part of the client: `ShownIsRight`, `Accounted`, `OnePairUnlessTripped`, `NoneTwiceNoneMissing`, `NothingLeftBehind`, `GridIsTheAlbum`, `ListIsAPrefix`, `MarkIsTrue`, `ThreadIsTrue`, `TypeOK` | two of whatever there are two of (keys, calls, devices, set-ups, chats, albums, materials, loads, taps), because an overlap needs two; three messages with pages of two and four posts with pages of one, so that there is an older page and a repetition could happen; two presses of the microphone, and two messages being sent at once; three pairs, one more than the devices make; a limit of one file and one URL, so that every write evicts, and one download at a time (`OneDownload`); two comments to an answer and three texts, one's own or others', so that a list can be longer than an answer; three posts published |
| `group_keys` | Whence a row that does not open? `TypeOK`, `StaleOnlyIfOvertaken` | three founders and a newcomer, two group keys, a rotation, two busy clients, a failure or restart |
| `group_keys_live` | Does every member with a pair get the key? `OpeningHelps` | three founders, one key |
| `media_store` | Does a row ever name a deleted file, does a finished upload get lost, and which files does nobody delete? `TypeOK`, `DanglingOnlyIfShared`, `LeaksAreExplained`, `LostOnlyIfRaced` | two users, the chat, a post and an album of the first, three messages (two videos with previews, so that one can be forwarded as the other, and a document), two requests at a time, three requests and three files (an upload, its replacement or its deletion, and one that overlaps), a failure or restart |

Symmetry is used only where no liveness is checked: in the slots of `Sessions` and
`ClientAuth`, the users of `MessageCache`, the founders of `group_keys`, the requests
of `MediaStore` and both sets of `MCClient`. `Unraced` of `MCClient` cuts the search
at states where an excuse of the part's property has happened, since the property
says nothing from there on. Where the excuse can pass again its consequences are
explored: in `PostCard` all of them, in `Feed` while the list is short and a load is
free to put it right. An excuse of `PostThread` passes when the thread is opened anew,
with nothing left of the last visit but what the server has still to take; the run cuts
there as well, and what follows rests on the proof, which has no such bound.

Deadlock: `message_cache` stops when every message has been posted and deleted
and all starts are used up; a group whose key nobody holds any more, with the
bounds used up, is stuck as well; nothing is left to do in `media_store` when all
accounts are deleted, or in a part of `client` whose bounds are used up. Those four
modules are checked without deadlock checking, the others with it.

### Where the code does something else than its comments say

| run | what the repository says | what the code does |
|---|---|---|
| `chat_socket_doc_send` | `sendMessage` returns false if the message did not go out (`App.tsx` 768-769) | after the await the socket may be closing (the text is dropped, true returned) or still that of the previous chat |
| `group_keys_doc_rotate` | rows of a rotated pair do not lock the member out (`src/chats/repo.py` 199-203) | an upload overtaken by the rotation puts such a row back, for ever |
| `media_doc_lock` | the lock in `add_media` keeps two calls from overwriting each other's uploads (`src/posts/repo.py` 248) | the session answers with the post it loaded before the uploads, and the second call drops what the first one added |

The passing properties state how far the damage goes: a message reaches a wrong
socket only while `openChat` loads, a drop that ran alone holds, a cleared entry
does not come back through anybody else's messages, a row fails to open only if
a rotation overtook an upload, a row names a missing file only if that file was
forwarded, a post loses uploads only to an overlapping one.

Seen in the models and not made a run: a Redis that is silent for a moment
during a refresh makes the server revoke the whole family; a replayed token is
rejected by the service before the manager can revoke the family
(`src/auth/service.py` 177), which only racing requests still reach; two
overlapping `connectWS` calls leave a socket open that log-out does not close;
starting an existing group again gives its founder a new key at once while all
rows keep the old one; opening the open chat again makes `connectWS` close its own
working socket for ever (`App.tsx` 600, 687-690); nothing waits for the clearing
at log-out, and writes under way or a restart outlive it (`messageCache.ts`
17-18).

About files: forwarding copies the address, so that deleting the original or its
author's account takes the file from the copy; the files of documents are never
deleted (`delete_message`, `delete_user`), nor are other people's materials in a
deleted album or the picture of a chat that goes with its last member;
`delete_file` says that it never fails a request and catches only ClientErrors
(`src/s3/service.py` 61-63, 74); `MessageDbSchema` has no `file_name`
(`src/chats/schemas.py` 139-146), so that the names of documents are not stored;
the foreign key `comments.reply_to_id` has no ON DELETE, so that an account or a
comment somebody replied to cannot be deleted (`delete_user`,
`src/auth/repo.py` 133-136).

About sessions and caches: an evicted revocation key is gone and its token is
accepted again, although eviction is called safe because everything in Redis can be
restored (`docker-compose.prod.yaml` 83-85); a deleted message is written back by a
task that still holds it (`messageCache.ts` 99); an epoch key lives as long as a
refresh token while the verification accepts ten seconds more.

About the client's session: a refresh that is answered after the log-out stores its
tokens again (`ProfileScreen.tsx` 108 tells the person that a new log-in takes the password); a 5xx or a
body cut short from `/auth/refresh` logs the person out, and an answer that is lost
makes the next refresh a "reuse", which ends every session of the account; so does a
poll that refreshes with a pair just revoked. A wrong password at the deletion of the
account is a 401 and rotates the tokens first. `handleLogin` (`App.tsx` 895) never
writes the cached profile, so that the first start without a network shows the
log-in form; a second log-in can be sent while the first waits for its ticket; a
door that refuses getMe of the start itself (403) clears the profile, which
`App.tsx` 384-386 means to keep.

About the screens: `albums` is not cleared at log-out and the keys `album:` of the
data cache carry no user. Messages of older pages are not decrypted as the newest are
(`App.tsx` 746 against `ChatView.tsx` 194-206); `hasMore` is not reset when the chat
changes; a message sent into an empty chat and lost stays pending. A message that is committed
before the page of the history is cut and published after the socket has subscribed is
shown twice, since only the client's own numbers are compared (`App.tsx` 678-679); a
deletion whose event is published before that of its message leaves the message on the
screen (`src/chats/service.py` 262-264, 375-385). A draft goes along
into the next chat, text typed while a message or comment is sent is lost, a recording
goes on when the chat changes, and the button of the microphone asks to be let go to
send (`ChatView.tsx` 151, 452) where letting go stops it (440-454, 508-520).
`useCachedImage.ts` 13-14 says that a picture seen once is there at once from then on;
only those with the newest object URLs are. In a wide window a late load
of one album replaces the grid of the next. "Показать ещё" within the 350 ms of the
debounce appends a page of the new word to the old list, and a post that is deleted or
no longer saved while one reads makes the next page skip another. A card keeps the mark
it was born with, and two taps that cross on the server, which looks first and writes
then (`src/posts/repo.py` 121-161), leave it without a mark the card shows. A comment
that was sent when the thread was left, and not yet taken when it is opened again, is
missing from it; so are other people's that come after the list was loaded. `PostThread` hides a saved post behind `loading`, against `dataCache.ts`
128, and never shows the 51st comment. `CreatePostModal.tsx` 48 reports a post that was
published without its files as not published, and another try makes a second one;
when a closed window's request ends it closes the window opened since.

### Fairness

`chat_socket`: every call is answered, every socket that is told to close
closes, every timer fires (weak fairness per chain and action: nothing in the
code disables them for good). A handshake gets strong fairness: another chain's
timer may close a connecting socket, but timers take three seconds at least and
longer after failures, so that it cannot hit every handshake. Nothing is assumed
about the user, the network or the server: `Reconnects` speaks of chats that stay
open while the network stays up.

`group_keys_live`: what a client is about proceeds (weak), and members who can
open the group do so again and again (strong, since another task of the same
client disables it meanwhile). Failures are finite (`MaxFailures`): a call that
always fails hands over nothing. No fairness is assumed of the operations users
choose to do (start, add, rotate, restart).

## 5. What is proved

`SessionsProofs`, `ChatSocketProofs`, `GroupKeysProofs`, `MediaStoreProofs`,
`ClientAuthProofs`, `MessageCacheProofs`, `ConversationProofs` and `ClientProofs` prove, for
every value of the constants (of `MCClient` too: the bounds of its parts are constants
of their own, of which the proofs use only the ASSUMEs of the parts):

- `TypeCorrect` in each of the first seven: `Spec => []TypeOK`.

*Sessions.*

- `RevokedStaysOutHolds`, `EpochStaysOutHolds`: `RevokedStaysOut` and
  `EpochStaysOut` provided that Redis does not evict (`~Evicts`). Neither is
  inductive: the invariant adds that the key of each revoked token is still there,
  says REVOKED and lives at least until the token's expiry, that the epoch key
  carries the second of the last cut and outlives every token of an earlier
  second, and that tokens are not issued in the future (`KeyInv`).
- `OnlyTheRevokedAreRefusedHolds`: a token is refused as revoked only if it was
  revoked or cut off, or if Redis is silent; without any assumption on eviction, from
  the invariant that a status REVOKED or an epoch was always written by somebody.
- `OnlyInFlightEscapesHolds` (`~Evicts`): no request passes a verification with a
  token that was revoked or cut off by then and has not expired; who exchanges one
  after its revocation had passed the check before. `RequestStep` lists what a request can
  become in one step of the system, `HistoryGrows` that revocations and cuts stay.
- `DeletedChainEndsHolds`: a pair issued after its account was deleted is never
  exchanged, with or without eviction. The invariant `ChainInv` adds that the user of
  such a pair is gone for good, that no request past the service's check holds such a
  pair, and that a pair is younger than the one it was exchanged for (`GoneForGood`).
- `LogoutEndsHolds` (`~Evicts`): an action property of the step that answers, over
  two requests to Redis (that it stays so is `RevokedStaysOut`).
  `HalfLoggedOut` says that a log-out that has come to the access token has put the
  refresh token out of use, and `OutOfUseIsRefused` that this means refusal.
- `SessionsRefineTokenLife` (`~Evicts`): the refinement of `TokenLife`. Under the
  mapping every step of `Sessions` issues tokens, ends tokens, or stutters: a cut or
  the clock ends several at once, a log-out one, and no step revives one.

*Chat sockets, group keys.*

- `WrongSocketOnlyWhileLoadingHolds`: for any number of chats and openings.
- `StaleOnlyIfOvertakenHolds`: with the conjunct `Late`, that a wrapped key waiting
  for its upload and not for the published pair was overtaken.

*Stored files*, for any users, rows, requests in flight, files and failures.

- `DanglingOnlyIfSharedHolds`, `LostOnlyIfRacedHolds`: that no row names a deleted
  file depends on what every request in flight knows. The invariant `Inv` says that a
  request is about a row of its kind (`Sorts`), that an unforwarded file is named only
  by the row it was uploaded for (`Home`), that what an upload holds is in the bucket
  and known to nobody else (`HeldApart`), that what a request has read belongs to its
  row or to the account it deletes (`BaseOwn`) and is still there while an upload to
  a post may write it again (`PostBase`), and that a file about to be deleted is
  named neither by its row nor by such an upload (`TrashFree`). For the second
  theorem it adds that an upload to a post which nothing overlapped has read all that
  finished uploads stored (`PostKept`), and that two at once are recorded as
  overlapping (`PostRaced`).
- `LeaksAreExplainedHolds`, by a second invariant on top of it (`LeakInv`): an object
  is named by its row, excused, or carried by a request (`Explained`). That no step
  drops one unexcused needs that two uploads to one row are recorded (`Sole`), that an
  upload nothing overlapped has read all its row names (`ReadAll`) and what it read
  stays named (`PostStays`), that an upload is the owner's (`ByOwner`), that files are
  for rows that have an id (`Placed`), that only deletions have files to delete
  (`Rests`), and that the deletion of an account has listed all that is named by rows
  it is about to delete (`Listed`).

*Client authentication.*

- `QueueIsWoken`, `NoSelfReuseHolds`, `SignedOutStays`, `SessionIsKept` of
  `ClientAuth`, for any accounts, calls at once and pairs. `SignedOutStays` excuses the
  answers that were on their way at the log-out, be it of a refresh, a log-in, a profile
  or a ticket, and says that nothing else brings a session back; `NoSelfReuseHolds`
  excuses an answer that was lost and a refresh that outlived a log-out. The invariant `IInv` has a
  part for each: `SlotsSound` (in which place a call may carry what), `OneRefresher`
  (at most one slot refreshes, and one does if another queues), `SignedOut` (after a
  log-out, while no stale answer was applied, device and screen are empty and every
  call either carries nothing or is marked as of before), and `Unspent`: unless an
  answer was lost, the stored refresh token is unspent, or the slot that exchanged it
  is about to store the new one, and no other call could store a spent one.
  `NoSelfReuse` is not inductive without it, because the exchange and the storing of
  its result are two steps.

*The message cache.*

- `ClearedStays`: an action property, from the shapes of the tasks and from `Quiet`,
  which the property itself is about: no entry of a user, and no task that could write
  one. A message being decrypted is such a task only while `userIdRef` still names that
  user; after that it is cached for nobody, or for whoever logs in next. What a task of
  before the clearing writes after it is the excuse; that everything else, of other
  users and of later sessions, leaves the entry cleared is what it says.
- `NoMessageTwice`: the two things that are written, the tail of the history and an
  entry with a message appended, repeat nothing, and a drop that is about to write
  holds a selection of the entry it read (`NoTwice`).
- `DroppedIsGone`: a message whose deletion met no other task is in nothing that could
  write it, and a drop of it will still come by at every entry that has it (`Leaves`,
  `Dropping`).

These rest on what the filter of `dropCachedMessage` returns. It is a recursive
function (`Only`), and induction cannot be cited, so `LeastNatural` proves it in
first-order steps from the library's well-ordering of the naturals, and `OnlyIsDefined`
and `OnlyKeeps` use it: the result is a sequence over the same set, of messages that
are in the list and not dropped, and repeats nothing that the list does not repeat.

*The conversation*, in `ConversationProofs` and, with the client's variables in the
place of its own, in `ClientProofs` (`TalkIsWhole`; `SameTalk` says that the two
instances are one): unless one of the causes happened that the module names.

- `NoneTwiceNoneMissingHolds`. The property speaks of moments when nothing is on its
  way; the invariant `TalkInv` says, as long as `cause` is "none", what holds between
  them. `Loading`, always: nothing is sent, heard or deciphered before the history is
  shown (`Closed`); what is committed and not published is of this chat, each event once
  (`Committed`); and a served page has everything from its first message on, but for what
  is still to be published (`Served`). Once the history is shown, `Steady`: a message is
  in one place, the list, the deciphering or the queue, and there once (`Once`); an event
  is published once, that of a message before that of its deletion and only if the page
  has it not (`InLine`); a deleted message that is still anywhere is followed by an event,
  or awaited by the answer, that takes it out, or has not been published itself and will
  then be an excuse (`Leaving`); what was sent has one entry without a number, until its
  echo, of which there is one, takes its place (`Echoed`); and from any message that has
  come on all have or are about to, an older page asked for goes on below them, and without
  the button there is nothing below (`Gapless`).
- What it rests on are the lemmas about lists: `OnlySelects` (the result of `Only` are
  the items in the set, each by one place and in their order), `LastOfIsEnd` and
  `PageIsATail` (a page of the history is ordered, and is everything from its first
  message on, or everything if it is short).

*The other parts of the client*, in `ClientProofs`. Each is proved by an invariant of
the form `part = ... => ...`, since a behaviour of `MCClient` is one of its part.

- `OnePairOfTheClient` of `KeyPairs`. The invariant `Untripped` says, as long as
  nothing failed or overlapped: at most one set-up runs; a device that none works on is clean (both halves equal,
  none or the server's); with none running the server has all of one pair or nothing;
  and what the running one finds or leaves behind at each of its places (`Finds`,
  `Leaves`).
- `ListsShownRight` of `DataCache`, as long as one load runs at a time and none of its
  writes or of the clearings failed: overlapping loads can show an older answer over a
  newer one. `InOrder` has a part for each hazard: a call is
  about a key (`Keyed`); unless an overlap is recorded one call at most is at work, for
  the key on the screen and not beside a log-out (`Alone`), nothing saved, read or
  shown is newer than an answer that comes after it (`Ordered`), and a saved value
  that may still be shown is as new as what was shown (`Kept`).
- `IndexAccounts` of `MediaCache`. That the index lists no more than the limit holds
  always; that it accounts for what is stored, unless an overlap of sweep, flush,
  eviction, download or clearing, a failed write, or a kill of the app with changes not
  yet written was recorded. `Counted`: unless an overlap is recorded or a
  clearing runs, every file is in the stored index, in the changes no pass has taken
  yet or in the batch of the pass that runs, and each copy of the index (the stored
  one, the pass's, the sweep's) lists only files that are there; `Limited` that each
  copy that is or will be stored is finite and within the limit.
- `NothingStaysBehind` of `Composer`: quote and menu belong to the chat that is open, and
  a microphone that is on to the recorder the screen can stop (`Together`), unless it was
  pressed again before it was given or the chat was left during a touch. Draft, upload and
  recording do go along into the next chat.
- `GridEndsAsTheAlbum` of `Albums`, as long as no two loads overlapped (a late load of
  one album replaces the grid of the next), no album was left while a load, deletion or
  upload of it was under way, no answer was lost and nothing was marked in the midst of a
  deletion. By `Gridded`: unless excused, what is selected, and what the deletion has
  left to ask for, is in the grid, and once neither a load nor a deletion is under way the
  grid is the album.
- `FeedIsAPrefix` of `Feed`: unless an older answer came after that of a later load, a load
  failed, posts came or went after a page was read, an old page was shown, or more was
  asked for during a load or before the search. Then list and every page under way fit
  together: the list is the first posts that contain the word asked for, and a further
  page starts where the list ends (`FedInOrder`, `Asks`, `Starts`); loads of different
  words may overlap as long as they are answered in their order.
- `ThreadsEndTrue` of `PostThread` and `NewPost`. For the thread, unless one came back
  before a request of an earlier visit was taken, an answer was lost after the commit, or
  the list is a saved one or longer than one answer: a comment of one's own is shown if
  the server has it, and the other way round, apart from those whose answer is awaited,
  whatever others write or remove; what the server has still to take is always awaited
  or of a visit that is over. For the post: it lacks its files only at the place where
  they are sent.
- `MarkEndsTrue` of `PostCard`: for any number of taps under way the card is as many turns
  away from the server as there are requests it has not taken (`Marked`, `Even`). That
  needs that the server serves them one after the other: at most one has looked and not
  yet written. Two that crossed there, an older list, and a tap that failed after the
  server had taken it or beside another, are excused.
- `TypesAreKept`: the types of all ten parts (`PartTyped`). Not inductive as the modules
  state them, and the parts that are not say why: every load of `Albums` is for an album
  that exists, and there is none, nor anything marked, before one was opened
  (`GalleryTyped`, where a load that has none would be answered from no album); for a post
  being created there is still room under its bound (`FormTyped`); a page cut from what
  the server finds is a page of its posts (`PageIsOne`).

Assumptions are the named ASSUMEs of the modules (access tokens live no longer
than refresh tokens, bounds are numbers, a group has founders among the users,
there is a user, the tables have no id in common, every post, album and message
has an owner) and nothing else.

Only model-checked: liveness (`Reconnects`, `OpeningHelps`), which under fairness is
out of the reach of the prover.

## 6. What is not modelled, and why

Limits, lock-out and tickets with the quota of uploads, and the creation and
membership of chats on the server, are planned (section 2). Of posts, albums and
messages `MediaStore` models the rows and their files; the server's texts, likes,
comments, bookmarks and contacts are CRUD requests with one database session each, and
the client's view of them is in section 3. Of the gate only the pass is modelled, as
the client sees it. Media delivery keeps no state. Push, presence and the Android
stores are best effort and nothing depends on them. The rest of the interface,
deployment scripts and migrations are not programs with behaviour over time: rendering,
navigation, themes, downloads, read marks and the viewer. Registration, the change of
the passphrase of the backup and the upload forms, which do not refresh, are left out
of `ClientAuth` and `KeyPairs`. Cryptography is taken to work: a row opens with the pair
it was wrapped for, a signature cannot be forged.

Operators named `Fault` in their comments are plausible slips of the code
(a key that lives too short, a missing guard). No specification uses them; each
stands next to the definition it perturbs and shows that a property would notice.
