--------------------------------- MODULE Sd ---------------------------------
(***************************************************************************)
(* The kernel's disk, src/kernel/src/dev/dev_sd.c, over the disk of the    *)
(* native machine, am/src/native/ioe/disk.c (the qemu one differs in that  *)
(* its size is fixed).  Reads and writes of bytes go block by block        *)
(* through one buffer, sd->buf, which all callers share; a block that is   *)
(* written in part is read first.                                          *)
(***************************************************************************)
EXTENDS Integers, Sequences, SequencesExt, Null

CONSTANTS
  Caller,       \* who calls sd_read and sd_write
  blksz,
  Image,        \* the disk image at the start: a sequence of bytes
  MaxRequests   \* bound: requests made

(* The bytes there are: those of the image, the ones a request writes, and *)
(* what the buffer holds before its first use.  A request is the call of   *)
(* one of the two functions, with its variables and where it stands.       *)
Byte == ToSet(Image) \cup ({"new"} \X Nat \X Nat) \cup {NULL}
Request == [write : BOOLEAN, offset : Nat, count : Nat, pos : Nat, pc : {"loop", "copy", "store"},
            from : Nat, st : Nat, data : Seq(Byte)]

ASSUME SdAssumption ==
  /\ blksz \in Nat \ {0}
  /\ Image \in Seq(ToSet(Image))
  /\ MaxRequests \in Nat
  /\ NULL \notin Request

VARIABLES
  image,
  disk,       \* "none" before sd_init, "absent", "present", or "panic"
  buf,        \* sd->buf
  request,    \* a caller's request (NULL: none)
  made,       \* requests so far
  ref,        \* history: what the image should be
  got,        \* history: the last read, with what it should have given
  overlap,    \* history: two requests have been under way at once
  touched     \* history: the blocks that writes were about
sdvars == <<image, disk, buf, request, made, ref, got, overlap, touched>>

SdInit ==
  /\ image = Image /\ ref = Image
  /\ disk = "none"
  /\ buf = [i \in 1 .. blksz |-> NULL]
  /\ request = [p \in Caller |-> NULL]
  /\ made = 0 /\ got = NULL /\ overlap = FALSE /\ touched = {}

(* __am_disk_init: there may be no image. *)
sd_init ==
  /\ disk = "none"
  /\ disk' \in {"absent", "present"}
  /\ UNCHANGED <<image, buf, request, made, ref, got, overlap, touched>>

blkcnt == (Len(Image) + blksz - 1) \div blksz

(* sd_read and sd_write.  Data to write is told apart by the request. *)
Call(p, write, offset, count) ==
  /\ request[p] = NULL /\ made < MaxRequests
  /\ made' = made + 1
  /\ \/ disk = "absent" /\ disk' = "panic" /\ UNCHANGED <<request, overlap, touched>>
     \/ /\ disk = "present" /\ UNCHANGED disk
        /\ request' = [request EXCEPT ![p] =
             [write |-> write, offset |-> offset, count |-> count, pos |-> 0, pc |-> "loop",
              from |-> offset, st |-> offset - (offset % blksz),
              data |-> [i \in 1 .. count |-> IF write THEN <<"new", made, i>> ELSE NULL]]]
        /\ overlap' = (overlap \/ \E q \in Caller : request[q] # NULL)
        /\ touched' = IF write THEN touched \cup (offset \div blksz) .. ((offset + count - 1) \div blksz)
                                ELSE touched
  /\ UNCHANGED <<image, buf, ref, got>>

sd_read(p) == \E offset \in 0 .. blkcnt * blksz - 1 : \E count \in 1 .. blkcnt * blksz - offset :
                Call(p, FALSE, offset, count)
sd_write(p) == \E offset \in 0 .. blkcnt * blksz - 1 : \E count \in 1 .. blkcnt * blksz - offset :
                 Call(p, TRUE, offset, count)

(* How much of the current block the request is about. *)
Part(r) == LET n == blksz - (r.offset - r.st)
           IN  IF n > r.count - r.pos THEN r.count - r.pos ELSE n

Set(p, r) == request' = [request EXCEPT ![p] = r]

Advance_Bug(r) == [r EXCEPT !.pos = @ + Part(r), !.offset = @ + blksz, !.st = r.st + blksz, !.pc = "loop"]
Advance(r) == [r EXCEPT !.pos = @ + Part(r), !.offset = r.st + blksz, !.st = r.st + blksz, !.pc = "loop"]

(* __am_disk_blkio, reading: the assert wants all of the block. *)
blk_read(p) ==
  LET r == request[p] IN
  /\ r # NULL /\ disk = "present"
  /\ r.pc = "loop" /\ r.pos < r.count /\ (r.write => Part(r) < blksz)
  /\ IF r.st + blksz <= Len(image)
     THEN /\ buf' = SubSeq(image, r.st + 1, r.st + blksz)
          /\ Set(p, [r EXCEPT !.pc = "copy"])
          /\ UNCHANGED disk
     ELSE disk' = "panic" /\ UNCHANGED <<buf, request>>
  /\ UNCHANGED <<image, made, ref, got, overlap, touched>>

(* memcpy out of the buffer, and the end of the turn. *)
copy_out(p) ==
  LET r == request[p] IN
  /\ r # NULL /\ disk = "present"
  /\ r.pc = "copy" /\ ~r.write
  /\ Set(p, [Advance(r) EXCEPT !.data = [i \in 1 .. r.count |->
       IF i \in r.pos + 1 .. r.pos + Part(r) THEN buf[r.offset - r.st + i - r.pos] ELSE @[i]]])
  /\ UNCHANGED <<image, disk, buf, made, ref, got, overlap, touched>>

(* memcpy into the buffer, whether or not the block was read. *)
copy_in(p) ==
  LET r == request[p] IN
  /\ r # NULL /\ disk = "present" /\ r.write
  /\ r.pc = "copy" \/ (r.pc = "loop" /\ r.pos < r.count /\ Part(r) = blksz)
  /\ LET o == r.offset - r.st
     IN  buf' = [i \in 1 .. blksz |-> IF i \in o + 1 .. o + Part(r) THEN r.data[r.pos + i - o] ELSE buf[i]]
  /\ Set(p, [r EXCEPT !.pc = "store"])
  /\ UNCHANGED <<image, disk, made, ref, got, overlap, touched>>

Stored(img, from, data) ==
  [i \in 1 .. (IF from + Len(data) > Len(img) THEN from + Len(data) ELSE Len(img)) |->
     IF i \in from + 1 .. from + Len(data) THEN data[i - from] ELSE img[i]]

(* Writing: all of the block, which may make the image longer. *)
blk_write(p) ==
  LET r == request[p] IN
  /\ r # NULL /\ disk = "present"
  /\ r.pc = "store"
  /\ image' = Stored(image, r.st, buf)
  /\ Set(p, Advance(r))
  /\ UNCHANGED <<disk, buf, made, ref, got, overlap, touched>>

return(p) ==
  LET r == request[p] IN
  /\ r # NULL /\ disk = "present"
  /\ r.pc = "loop" /\ r.pos >= r.count
  /\ Set(p, NULL)
  /\ IF r.write THEN ref' = Stored(ref, r.from, r.data) /\ UNCHANGED got
     ELSE /\ got' = IF overlap THEN NULL
                    ELSE [data |-> r.data, want |-> [i \in 1 .. r.count |-> ref[r.from + i]]]
          /\ UNCHANGED ref
  /\ UNCHANGED <<image, disk, buf, made, overlap, touched>>

SdNext ==
  \/ sd_init
  \/ \E p \in Caller : sd_read(p) \/ sd_write(p) \/ blk_read(p) \/ copy_out(p) \/ copy_in(p)
                         \/ blk_write(p) \/ return(p)

SdSpec == SdInit /\ [][SdNext]_sdvars

----------------------------------------------------------------------------
(* As long as callers do not overlap, the disk is an array of bytes: a     *)
(* write changes the bytes it names, across the ends of blocks, and leaves *)
(* the rest of the blocks it stores alone; a read gives what was written   *)
(* last.  Requests that overlap may mix in the one shared buffer; but the  *)
(* blocks that no write was about keep their bytes even then.              *)
DiskExact ==
  /\ ~overlap =>
       /\ got # NULL => got.data = got.want
       /\ (disk = "present" /\ \A p \in Caller : request[p] = NULL) => image = ref
  /\ \A i \in 1 .. Len(Image) : (i - 1) \div blksz \notin touched => image[i] = Image[i]
=============================================================================
