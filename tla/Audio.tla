------------------------------- MODULE Audio -------------------------------
(***************************************************************************)
(* The audio path: the AM driver (platform/nemu/ioe/audio.c) copies bytes  *)
(* into a ring and moves wptr; NEMU's device (device/audio.c) plays them   *)
(* from a callback on a thread of SDL and moves rptr.  Neither side locks. *)
(* Bytes are numbered in the order the guest plays them.                   *)
(***************************************************************************)
LOCAL INSTANCE Integers
LOCAL INSTANCE Sequences

CONSTANTS
    CONFIG_SB_SIZE,   \* bytes of the ring
    Lens,             \* lengths of the buffers the guest plays
    AskLen,           \* bytes a callback asks for
    MaxBytes          \* bound on the bytes played by the guest
ASSUME AudioAssumption == /\ CONFIG_SB_SIZE \in Nat \ {0} /\ MaxBytes \in Nat /\ AskLen \in Nat \ {0}
                          /\ Lens \subseteq 1 .. CONFIG_SB_SIZE

VARIABLES
    sbuf, reg_wptr, reg_rptr, opened,     \* the device
    drv, len, wptr, i,                    \* __am_audio_play: its place and locals
    cb, cb_wptr, cb_rptr, stream,         \* sdl_audio_callback: its place and locals
    queued,                               \* history: bytes handed over
    played,                               \* history: bytes played, in order
    filled                                \* history: wptr has caught up with rptr
device_vars == <<sbuf, reg_wptr, reg_rptr, opened>>
drv_vars == <<drv, len, wptr, i, queued, filled>>
cb_vars == <<cb, cb_wptr, cb_rptr, stream, played>>
audio_vars == <<sbuf, reg_wptr, reg_rptr, opened, drv, len, wptr, i, cb, cb_wptr, cb_rptr, stream, queued, played, filled>>

AudioInit ==
    /\ sbuf = [k \in 0 .. CONFIG_SB_SIZE - 1 |-> 0]
    /\ reg_wptr = 0 /\ reg_rptr = 0 /\ opened = FALSE
    /\ drv = "idle" /\ len = 0 /\ wptr = 0 /\ i = 0
    /\ cb = "idle" /\ cb_wptr = 0 /\ cb_rptr = 0 /\ stream = 0
    /\ queued = 0 /\ played = <<>> /\ filled = FALSE

\* Reading reg_count, which the handler computes from the pointers.
reg_count == (reg_wptr + CONFIG_SB_SIZE - reg_rptr) % CONFIG_SB_SIZE
has_room(n) == CONFIG_SB_SIZE - reg_count >= n

\* Writing reg_init opens the device and starts the callbacks.
__am_audio_ctrl ==
    /\ ~opened /\ drv = "idle" /\ opened' = TRUE
    /\ UNCHANGED <<sbuf, reg_wptr, reg_rptr, drv_vars, cb_vars>>
PlayEnter(n) ==
    /\ drv = "idle" /\ queued + n <= MaxBytes
    /\ drv' = "wait" /\ len' = n
    /\ UNCHANGED <<device_vars, wptr, i, queued, filled, cb_vars>>
PlayWait ==
    /\ drv = "wait" /\ has_room(len)
    /\ drv' = "write" /\ wptr' = reg_wptr /\ i' = 0
    /\ UNCHANGED <<device_vars, len, queued, filled, cb_vars>>
\* One outb; the two chunks of the code are the same addresses.
PlayByte ==
    /\ drv = "write" /\ i < len
    /\ LET first_chunk == CONFIG_SB_SIZE - wptr
       IN  sbuf' = [sbuf EXCEPT ![IF i < first_chunk THEN wptr + i ELSE i - first_chunk] = queued + i + 1]
    /\ i' = i + 1
    /\ UNCHANGED <<reg_wptr, reg_rptr, opened, drv, len, wptr, queued, filled, cb_vars>>
PlayPublish ==
    /\ drv = "write" /\ i = len
    /\ reg_wptr' = (wptr + len) % CONFIG_SB_SIZE
    /\ drv' = "idle" /\ queued' = queued + len
    /\ filled' = (filled \/ reg_wptr' = reg_rptr)
    /\ UNCHANGED <<sbuf, reg_rptr, opened, len, wptr, i, cb_vars>>
AudioDriver == PlayWait \/ PlayByte \/ PlayPublish

available == (cb_wptr + CONFIG_SB_SIZE - cb_rptr) % CONFIG_SB_SIZE
\* Variant: a callback that cannot be filled plays silence only.
CopyAllOrNothing == IF AskLen <= available THEN AskLen ELSE 0
to_copy == IF AskLen <= available THEN AskLen ELSE available
CallbackEnter ==
    /\ opened /\ cb = "idle"
    /\ cb' = "copy" /\ cb_wptr' = reg_wptr /\ cb_rptr' = reg_rptr /\ stream' = 0
    /\ UNCHANGED <<device_vars, drv_vars, played>>
CallbackByte ==
    /\ cb = "copy" /\ stream < to_copy
    /\ played' = Append(played, sbuf[(cb_rptr + stream) % CONFIG_SB_SIZE])
    /\ stream' = stream + 1
    /\ UNCHANGED <<device_vars, drv_vars, cb, cb_wptr, cb_rptr>>
CallbackReturn ==
    /\ cb = "copy" /\ stream = to_copy
    /\ reg_rptr' = (cb_rptr + to_copy) % CONFIG_SB_SIZE
    /\ cb' = "idle"
    /\ UNCHANGED <<sbuf, reg_wptr, opened, drv_vars, cb_wptr, cb_rptr, stream, played>>
sdl_audio_callback == CallbackEnter \/ CallbackByte \/ CallbackReturn

AudioNext == __am_audio_ctrl \/ (\E n \in Lens : PlayEnter(n)) \/ AudioDriver \/ sdl_audio_callback

\* audio.c on both sides: what is played is what was handed over, in order,
\* nothing twice, torn or skipped, however the callback interleaves with the
\* copying; until the guest fills the ring to the last byte: room is
\* "freespace >= len", so wptr catches up with rptr and a full ring reads as an
\* empty one.
AudioInOrder == ~filled => Len(played) <= queued /\ \A k \in DOMAIN played : played[k] = k
\* Once the device is open, the driver always gets out of its polling loop and
\* the callback catches up with it.
AudioDrains == opened ~> (filled \/ (drv = "idle" /\ Len(played) = queued))
=============================================================================
