----------------------------- MODULE NativeIoe -----------------------------
(***************************************************************************)
(* The keyboard and the audio device of the native machine,                *)
(* am/src/native/ioe/input.c and audio.c.  SDL's event thread puts key     *)
(* codes into a ring under a lock, and the program takes them.  The        *)
(* program writes samples into a pipe that SDL's audio callback reads;     *)
(* count says how many there are.  It is volatile and not locked: each     *)
(* use in the C text is a load or a store of its own.                      *)
(***************************************************************************)
EXTENDS Integers, Sequences, SequencesExt, Null

CONSTANTS
  Scancode,        \* keys the program knows: numbers from 1
  KEY_QUEUE_LEN,
  KEYDOWN_MASK,    \* above every key
  PipeSize,
  MaxKeys, MaxBytes   \* bounds: key events, and bytes played

ASSUME KeyAssumption ==
  /\ KEY_QUEUE_LEN \in Nat \ {0}
  /\ KEYDOWN_MASK \in Nat \ {0} /\ Scancode \subseteq 1 .. KEYDOWN_MASK - 1

(* The variables of audio_write and of audio_play during a call; n and     *)
(* nread are NULL until they are assigned.                                 *)
Writer == [buf : Seq(Nat), nwrite : Nat, n : Nat \cup {NULL}, loaded : Int \cup {NULL}]
Player == [len : Nat, nread : Int \cup {NULL}, b : Nat, loaded : Int \cup {NULL},
           stream : Seq(Nat \cup {NULL})]

ASSUME AudioAssumption ==
  MaxBytes \in Nat /\ NULL \notin Int /\ NULL \notin Writer /\ NULL \notin Player

VARIABLES
  key_queue, key_f, key_r,
  struck,            \* history: how many codes were put in
  due,               \* history: the events a queue would hold that forgets all when full
  kbd,               \* the last event taken, with the one that was due (NULL: none)
  samples,           \* the pipe
  count,
  playing,           \* SDL calls audio_play
  writer,            \* audio_write: [buf, nwrite, n, loaded] (NULL: not called)
  player,            \* audio_play: [len, nread, b, stream, loaded] (NULL: not running)
  wrote, played,     \* history: bytes handed to audio_write, and played
  lost,              \* history: a change of count was overwritten
  partial,           \* history: a write took a part of the buffer only
  grown              \* history: count was stored between the two loads of a callback
keyvars == <<key_queue, key_f, key_r, struck, due, kbd>>
audiovars == <<samples, count, playing, writer, player, wrote, played, lost, partial, grown>>
ioevars == <<keyvars, audiovars>>

IoeInit ==
  /\ key_queue = [i \in 0 .. KEY_QUEUE_LEN - 1 |-> 0] /\ key_f = 0 /\ key_r = 0
  /\ struck = 0 /\ due = <<>> /\ kbd = NULL
  /\ samples = <<>> /\ count = 0 /\ playing = FALSE /\ writer = NULL /\ player = NULL
  /\ wrote = 0 /\ played = <<>> /\ lost = FALSE /\ partial = FALSE /\ grown = FALSE

(* A key event, of a key the program knows. *)
event_thread(key, keydown) ==
  /\ struck < MaxKeys /\ struck' = struck + 1
  /\ key_queue' = [key_queue EXCEPT ![key_r] = IF keydown THEN key + KEYDOWN_MASK ELSE key]
  /\ key_r' = (key_r + 1) % KEY_QUEUE_LEN
  /\ due' = IF Len(due) + 1 = KEY_QUEUE_LEN THEN <<>> ELSE Append(due, <<key, keydown>>)
  /\ UNCHANGED <<key_f, kbd, audiovars>>

Code_Bug == key_queue[(key_f + 1) % KEY_QUEUE_LEN]
Code == key_queue[key_f]

AM_KEY_NONE == <<0, FALSE>>

(* __am_input_keybrd *)
input_keybrd ==
  /\ IF key_f # key_r
     THEN /\ kbd' = [got |-> <<Code % KEYDOWN_MASK, Code >= KEYDOWN_MASK>>,
                     due |-> IF due = <<>> THEN AM_KEY_NONE ELSE Head(due)]
          /\ key_f' = (key_f + 1) % KEY_QUEUE_LEN
     ELSE /\ kbd' = [got |-> AM_KEY_NONE, due |-> IF due = <<>> THEN AM_KEY_NONE ELSE Head(due)]
          /\ UNCHANGED key_f
  /\ due' = IF due = <<>> THEN due ELSE Tail(due)
  /\ UNCHANGED <<key_queue, key_r, struck, audiovars>>

----------------------------------------------------------------------------
(* __am_audio_ctrl: the program starts the sound; SDL goes on if it does.  *)
audio_ctrl ==
  /\ writer = NULL
  /\ count' = 0 /\ lost' = (lost \/ count # 0)
  /\ playing' \in {playing, TRUE}
  /\ UNCHANGED <<samples, writer, player, wrote, played, partial, grown, keyvars>>

audio_write(len) ==
  /\ writer = NULL /\ wrote + len <= MaxBytes
  /\ writer' = [buf |-> [i \in 1 .. len |-> wrote + i], nwrite |-> 0, n |-> NULL, loaded |-> NULL]
  /\ wrote' = wrote + len
  /\ UNCHANGED <<samples, count, playing, player, played, lost, partial, grown, keyvars>>

(* write(): the pipe takes all, a part, or nothing of the whole buffer,    *)
(* each time round.                                                        *)
write(n) ==
  /\ writer # NULL /\ writer.n = NULL /\ writer.nwrite < Len(writer.buf)
  /\ n <= Len(writer.buf) /\ Len(samples) + n <= PipeSize
  /\ samples' = samples \o SubSeq(writer.buf, 1, n)
  /\ writer' = [writer EXCEPT !.n = n]
  /\ partial' = (partial \/ n \in 1 .. Len(writer.buf) - 1)
  /\ UNCHANGED <<count, playing, player, wrote, played, lost, grown, keyvars>>

(* The callback has found count < len, and is about to load it again.      *)
Between == player # NULL /\ player.nread = NULL

(* count += n, also of n = 0; nwrite += n *)
write_count ==
  /\ writer # NULL /\ writer.n # NULL
  /\ IF writer.loaded = NULL
     THEN writer' = [writer EXCEPT !.loaded = count] /\ UNCHANGED <<count, lost, grown>>
     ELSE /\ count' = writer.loaded + writer.n
          /\ lost' = (lost \/ count # writer.loaded)
          /\ grown' = (grown \/ Between)
          /\ writer' = [writer EXCEPT !.nwrite = @ + writer.n, !.n = NULL, !.loaded = NULL]
  /\ UNCHANGED <<samples, playing, player, wrote, played, partial, keyvars>>

write_end ==
  /\ writer # NULL /\ writer.n = NULL /\ writer.nwrite >= Len(writer.buf)
  /\ writer' = NULL
  /\ UNCHANGED <<samples, count, playing, player, wrote, played, lost, partial, grown, keyvars>>

Few_Bug(len) == count = 0
Few(len) == count < len

(* The variables with nread assigned, or not yet. *)
Callback(len, nread) ==
  [len |-> len, nread |-> nread, b |-> 0, loaded |-> NULL,
   stream |-> IF nread = NULL THEN <<>> ELSE [i \in 1 .. nread |-> NULL]]

(* SDL's callback for len bytes, up to the test of count. *)
audio_play(len) ==
  /\ playing /\ player = NULL
  /\ player' = Callback(len, IF Few(len) THEN NULL ELSE len)
  /\ UNCHANGED <<samples, count, playing, writer, wrote, played, lost, partial, grown, keyvars>>

(* nread = count, which is loaded a second time. *)
play_nread ==
  /\ Between
  /\ player' = Callback(player.len, count)
  /\ UNCHANGED <<samples, count, playing, writer, wrote, played, lost, partial, grown, keyvars>>

(* read() of nread bytes, each time round and each time to the beginning   *)
(* of the stream.  What is read past its len bytes is not played.          *)
read_samples ==
  /\ player # NULL /\ player.nread # NULL /\ player.b < player.nread /\ samples # <<>>
  /\ LET n == IF Len(samples) < player.nread THEN Len(samples) ELSE player.nread
     IN  /\ samples' = SubSeq(samples, n + 1, Len(samples))
         /\ player' = [player EXCEPT !.b = @ + n,
              !.stream = [i \in DOMAIN @ |-> IF i <= n /\ i <= player.len THEN samples[i] ELSE @[i]]]
  /\ UNCHANGED <<count, playing, writer, wrote, played, lost, partial, grown, keyvars>>

(* count -= nread, and the end of the callback; what is missing is silence.*)
play_count ==
  /\ player # NULL /\ player.nread # NULL /\ player.b >= player.nread
  /\ IF player.loaded = NULL
     THEN player' = [player EXCEPT !.loaded = count] /\ UNCHANGED <<count, played, lost>>
     ELSE /\ count' = player.loaded - player.nread
          /\ lost' = (lost \/ count # player.loaded)
          /\ played' = played \o player.stream
          /\ player' = NULL
  /\ UNCHANGED <<samples, playing, writer, wrote, partial, grown, keyvars>>

KeyNext == input_keybrd \/ \E key \in Scancode, keydown \in BOOLEAN : event_thread(key, keydown)

AudioNext ==
  \/ \E n \in 1 .. MaxBytes : audio_write(n) \/ audio_play(n)
  \/ \E n \in 0 .. MaxBytes : write(n)
  \/ audio_ctrl \/ write_count \/ write_end \/ play_nread \/ read_samples \/ play_count

IoeSpec == IoeInit /\ [][KeyNext \/ AudioNext]_ioevars

----------------------------------------------------------------------------
(* The program gets the key events as they were struck, in their order and *)
(* each once.  Nothing tests for a full ring, so that an event that takes  *)
(* its last place empties it: then that event and all that waited are      *)
(* lost, but no old code comes back, and none is out of turn later.        *)
KeysKept ==
  /\ Len(due) = (key_r - key_f) % KEY_QUEUE_LEN
  /\ kbd # NULL => kbd.got = kbd.due

InHand == IF player = NULL \/ Between THEN <<>> ELSE SubSeq(player.stream, 1, player.b)

(* The callback writes past its stream only if count was stored between    *)
(* its two loads of count.  Unless an update of count is lost, count never *)
(* promises more than the pipe holds, and the callback does not wait for   *)
(* bytes that are not there.  If every write fits besides, the bytes that  *)
(* are played are those written, each in its place; a byte is missing only *)
(* if a callback took more than its stream holds.                          *)
AudioKept ==
  /\ player # NULL /\ ~Between /\ ~grown => player.nread <= player.len
  /\ ~lost => /\ player = NULL => count <= Len(samples)
              /\ player # NULL /\ ~Between => player.nread - player.b <= Len(samples)
  /\ ~lost /\ ~partial =>
       LET all == played \o InHand \o samples
       IN  /\ Len(all) <= wrote
           /\ \A i \in 1 .. Len(all) : all[i] = i \/ (grown /\ all[i] = NULL)
=============================================================================
