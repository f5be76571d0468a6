-------------------------------- MODULE Card --------------------------------
(***************************************************************************)
(* The SD card reader, ios/sdio/Card.cpp: the requests that Device_Init    *)
(* and Device_BlockTransfer have outstanding at IOS, which answers them in *)
(* the order in which they come, and whether the card is selected.         *)
(* Requests that are made and waited for in one expression are one of the  *)
(* object "temporary".  What the blocks hold is not modelled.              *)
(***************************************************************************)
EXTENDS Naturals, Sequences, SequencesExt

CONSTANT MaxCount   \* bound on the blocks of a transfer

VARIABLES
  pc,        \* what is waited for, "idle", "halted" or "gone"
  left,      \* blocks that Device_BlockTransfer has left
  unsynced,  \* the Requests with ~m_synced
  line,      \* what IOS has not answered, with the Request of each
  block,     \* m_cmd_block of each Request, of which the command and the result
  address,   \* m_relative_card_address, 0 until a reset
  reserved,  \* m_block_buffer is not null
  selected,  \* the card is (at the device)
  refused    \* the last transfer of any blocks was, for its buffer
cardVars == <<pc, left, unsynced, line, block, address, reserved, selected, refused>>

Locals == {"reset", "status", "clock", "cmd 1", "cmd 2", "cmd 3", "cmd 4"}
Objects == Locals \cup {"m_request", "temporary"}
cmd_request == <<"cmd 1", "cmd 2", "cmd 3", "cmd 4">>

\* Commands.  The address that CMD7 selects is in the upper half of its argument.
CMD7(a) == [cmd |-> "CMD7", address |-> a]
Plain(cmd) == [cmd |-> cmd, address |-> 0]
Select   == CMD7(address)
Deselect == CMD7(0)
SetBlockLength == CMD7(0)     \* CMD7, of the length of a block: below 2^16
AppCommand  == Plain("CMD55")
SetBusWidth == Plain("ACMD6")
Transfer    == Plain("data")

\* A Card may have anything in m_block_buffer before ReserveBlockBuffer.
CardInit ==
  /\ pc = "idle" /\ left = 0 /\ unsynced = {} /\ line = <<>>
  /\ block = [r \in Objects |-> [command |-> Plain("none"), result |-> "OK"]]
  /\ address = 0 /\ reserved \in BOOLEAN /\ selected = FALSE /\ refused = FALSE

\* Requests are made with New or with a constructor, in this order.  New
\* destroys what the object was: ~Request halts if that is not synced.
Send(place, sent) ==
  LET stops == {i \in DOMAIN sent : sent[i][1] \in unsynced}
      made  == IF stops = {} THEN sent ELSE SubSeq(sent, 1, Min(stops) - 1)
  IN  /\ line' = line \o made
      /\ unsynced' = unsynced \cup {made[i][1] : i \in DOMAIN made}
      /\ pc' = IF stops = {} THEN place ELSE "halted"

\* Sync: the reply to r is in its queue.
Waits(r) == r \in unsynced => \A i \in DOMAIN line : line[i][1] # r
Synced(r) == Waits(r) /\ unsynced' = unsynced \ {r}
SyncAndSend(r, place, sent) ==
  /\ Waits(r)
  /\ line' = line \o sent
  /\ unsynced' = (unsynced \ {r}) \cup {sent[i][1] : i \in DOMAIN sent}
  /\ pc' = place
Fails(r) == block[r].result = "ERROR"

\* Device_Init returns when r has synced, and its requests are destroyed.
Returns(r) ==
  /\ Synced(r)
  /\ pc' = IF unsynced' \cap Locals = {} THEN "idle" ELSE "halted"
  /\ UNCHANGED line

Kept == UNCHANGED <<left, block, reserved, selected, refused>>

-----------------------------------------------------------------------------
(* Device_Init *)

DeviceInit ==
  /\ pc = "idle"
  /\ Send("reset", << <<"reset", Plain("reset")>>, <<"status", Plain("status")>> >>)
  /\ Kept /\ UNCHANGED address

SyncReset ==
  /\ pc = "reset"
  /\ \/ Fails("reset") /\ Returns("reset") /\ UNCHANGED address
     \/ ~Fails("reset") /\ address' = 1 /\ SyncAndSend("reset", "status", <<>>)
  /\ Kept

\* There may be no card, or none that has a memory.
SyncStatus ==
  /\ pc = "status"
  /\ \/ Returns("status")
     \/ ~Fails("status") /\ SyncAndSend("status", "read", << <<"temporary", Plain("read")>> >>)
  /\ Kept /\ UNCHANGED address

\* HcReg::Mask
SyncRead ==
  /\ pc = "read"
  /\ \/ Fails("temporary") /\ Returns("temporary")
     \/ ~Fails("temporary") /\ SyncAndSend("temporary", "write", << <<"temporary", Plain("write")>> >>)
  /\ Kept /\ UNCHANGED address

SyncWrite ==
  /\ pc = "write"
  /\ \/ Fails("temporary") /\ Returns("temporary")
     \/ ~Fails("temporary") /\ SyncAndSend("temporary", "send", <<>>)
  /\ Kept /\ UNCHANGED address

SendCommands ==
  /\ pc = "send"
  /\ Send("clock", << <<"clock", Plain("clock")>>, <<"cmd 1", Select>>, <<"cmd 2", SetBlockLength>>,
                      <<"cmd 3", AppCommand>>, <<"cmd 4", SetBusWidth>>, <<"m_request", Deselect>> >>)
  /\ Kept /\ UNCHANGED address

SyncCommands(r, next) ==
  /\ pc = r
  /\ IF Fails(r) \/ next = "idle" THEN Returns(r) ELSE SyncAndSend(r, next, <<>>)
  /\ Kept /\ UNCHANGED address

-----------------------------------------------------------------------------
(* Device_BlockTransfer, of an aligned buffer or of another *)

DeviceBlockTransfer(count) ==
  /\ pc = "idle" /\ address # 0
  /\ left' = count
  /\ pc' = IF count = 0 THEN "idle" ELSE "previous"
  /\ UNCHANGED <<unsynced, line, block, address, reserved, selected, refused>>

SyncPrevious(aligned) ==
  /\ pc = "previous"
  /\ refused' = ~(reserved \/ aligned)
  /\ SyncAndSend("m_request", IF refused' THEN "idle" ELSE "select", << <<"m_request", Select>> >>)
  /\ UNCHANGED <<left, block, address, reserved, selected>>

\* Mutant: what Select answers is not looked at.
SelectTrusted == FALSE
SelectFails == Fails("m_request")

SyncSelect ==
  /\ pc = "select"
  /\ IF SelectFails THEN SyncAndSend("m_request", "idle", << <<"m_request", Deselect>> >>)
     ELSE SyncAndSend("m_request", "data", << <<"m_request", Transfer>> >>)
  /\ Kept /\ UNCHANGED address

\* Mutant: a transfer that fails returns.
ReturnLast(done) == IF done = "error" THEN <<>> ELSE << <<"m_request", Deselect>> >>
DeselectLast(done) == << <<"m_request", Deselect>> >>

SyncTransfer ==
  /\ pc = "data"
  /\ \/ /\ Fails("m_request")
        /\ SyncAndSend("m_request", "idle", DeselectLast("error")) /\ UNCHANGED left
     \/ /\ ~Fails("m_request") /\ left' = left - 1
        /\ IF left' = 0 THEN SyncAndSend("m_request", "idle", DeselectLast("OK"))
           ELSE SyncAndSend("m_request", "data", << <<"m_request", Transfer>> >>)
  /\ UNCHANGED <<block, address, reserved, selected, refused>>

-----------------------------------------------------------------------------
\* GetStatus, in Device_Available.
DeviceAvailable ==
  /\ pc = "idle"
  /\ Send("available", << <<"temporary", Plain("status")>> >>)
  /\ Kept /\ UNCHANGED address
SyncAvailable ==
  /\ pc = "available" /\ SyncAndSend("temporary", "idle", <<>>)
  /\ Kept /\ UNCHANGED address

ReserveBlockBuffer ==
  /\ pc = "idle" /\ ~reserved /\ reserved' = TRUE
  /\ UNCHANGED <<pc, left, unsynced, line, block, address, selected, refused>>

\* ~Card
Destroy ==
  /\ pc = "idle" /\ SyncAndSend("m_request", "gone", <<>>)
  /\ Kept /\ UNCHANGED address

\* IOS and the card.
Answer ==
  /\ line # <<>>
  /\ LET r == Head(line)[1]  c == Head(line)[2]
     IN \E answer \in {"OK", "ERROR"} :
          /\ block' = [block EXCEPT ![r] = [command |-> c, result |-> answer]]
          /\ selected' = IF c.cmd = "CMD7" /\ answer = "OK" THEN c.address # 0
                         ELSE selected
  /\ line' = Tail(line)
  /\ UNCHANGED <<pc, left, unsynced, address, reserved, refused>>

CardNext ==
  \/ DeviceInit \/ SyncReset \/ SyncStatus \/ SyncRead \/ SyncWrite \/ SendCommands
  \/ SyncCommands("clock", "cmd 1") \/ SyncCommands("cmd 1", "cmd 2")
  \/ SyncCommands("cmd 2", "cmd 3") \/ SyncCommands("cmd 3", "cmd 4")
  \/ SyncCommands("cmd 4", "idle")
  \/ \E count \in 0 .. MaxCount : DeviceBlockTransfer(count)
  \/ \E aligned \in BOOLEAN : SyncPrevious(aligned)
  \/ SyncSelect \/ SyncTransfer
  \/ DeviceAvailable \/ SyncAvailable \/ ReserveBlockBuffer \/ Destroy
  \/ Answer

CardSpec == CardInit /\ [][CardNext]_cardVars

-----------------------------------------------------------------------------
\* The card is asked for blocks only while it is selected, whatever failed
\* before (Card.cpp:90-146).
SelectedForData ==
  [][Answer /\ Head(line)[2] = Transfer => selected]_cardVars

\* When a call has returned, and IOS has answered all of it, the card is not
\* selected any more, if it could be deselected; a transfer that was refused
\* for its buffer is the exception (Card.cpp:103-155).
LeavesDeselected ==
  pc = "idle" /\ line = <<>> /\ ~refused /\ selected
    => block["m_request"] = [command |-> Deselect, result |-> "ERROR"]

\* No Request is destroyed, or made anew, before its reply: "_PELI_ASSERT(m_synced)"
\* (Request.hpp:26).
RequestsSynced == pc # "halted"
=============================================================================
