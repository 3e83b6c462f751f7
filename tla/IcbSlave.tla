----------------------------- MODULE IcbSlave -----------------------------
(* The register file of the accelerator on the peripheral bus,
   src/rtl/acc/icb_slave.v.  The seven parameter registers are a function; START
   and DONE have rules of their own.                                         *)
EXTENDS Naturals

CONSTANTS Params          \* IN_ADDR, W3_ADDR, W1_ADDR, OUT_ADDR, MAPSIZE, ICH, OCH

ASSUME ParamsAssumption == "START" \notin Params /\ "DONE" \notin Params

VARIABLES icb_cmd_ready, icb_rsp_valid, icb_rsp_rdata,
          params,         \* the parameter registers
          START, DONE

slaveVars == <<icb_cmd_ready, icb_rsp_valid, icb_rsp_rdata, params, START, DONE>>

SlaveInit ==
  /\ icb_cmd_ready = FALSE /\ icb_rsp_valid = FALSE /\ icb_rsp_rdata = 0
  /\ params = [r \in Params |-> 0]
  /\ START = 0 /\ DONE = 0

\* A command is a record [read, addr, wdata]; it is taken in this clock.
taken(cmd_valid) == cmd_valid /\ icb_cmd_ready
write(cmd_valid, cmd, reg) == taken(cmd_valid) /\ ~cmd.read /\ cmd.addr = reg

CmdReady(cmd_valid) ==
  icb_cmd_ready' = (~taken(cmd_valid) /\ (cmd_valid \/ icb_cmd_ready))

Parameters(cmd_valid, cmd) ==
  params' = [r \in Params |-> IF write(cmd_valid, cmd, r) THEN cmd.wdata ELSE params[r]]

\* A START of exactly 1 is a pulse; any other value stays.
StartHeld(cmd_valid, cmd) ==
  START' = IF write(cmd_valid, cmd, "START") THEN cmd.wdata ELSE START
Start(cmd_valid, cmd) ==
  START' = CASE write(cmd_valid, cmd, "START") -> cmd.wdata
             [] ~write(cmd_valid, cmd, "START") /\ START = 1 -> 0
             [] OTHER -> START

\* A write to DONE wins over a job that ends in the same clock.
DoneSticky(cmd_valid, cmd, acc_done) ==
  DONE' = IF acc_done THEN 1 ELSE DONE
DoneForgotten(cmd_valid, cmd, acc_done) ==
  DONE' = CASE write(cmd_valid, cmd, "DONE") -> cmd.wdata
            [] taken(cmd_valid) /\ ~write(cmd_valid, cmd, "DONE") -> DONE
            [] ~taken(cmd_valid) /\ acc_done -> 1
            [] OTHER -> DONE
DoneReg(cmd_valid, cmd, acc_done) ==
  DONE' = CASE write(cmd_valid, cmd, "DONE") -> cmd.wdata
            [] ~write(cmd_valid, cmd, "DONE") /\ acc_done -> 1
            [] OTHER -> DONE

RspValid(cmd_valid, rsp_ready) ==
  icb_rsp_valid' = (taken(cmd_valid) \/ (icb_rsp_valid /\ ~rsp_ready))

Register(addr) == CASE addr = "START" -> START
                    [] addr = "DONE" -> DONE
                    [] addr \in Params -> params[addr]

\* The data register is loaded by a read and cleared by every other clock; a
\* read of an address that is no register leaves it alone.
RdataUnguarded(cmd_valid, cmd) ==
  icb_rsp_rdata' = IF cmd.read /\ cmd.addr \in Params \cup {"START", "DONE"}
                   THEN Register(cmd.addr) ELSE 0
Rdata(cmd_valid, cmd) ==
  icb_rsp_rdata' = IF taken(cmd_valid) /\ cmd.read
                   THEN IF cmd.addr \in Params \cup {"START", "DONE"}
                        THEN Register(cmd.addr) ELSE icb_rsp_rdata
                   ELSE 0

acc_start == START % 2 = 1        \* repvgg_acc_top.v:132 keeps bit 0 of START

\* One clock edge; rsp_ready and the command come from the bus, acc_done from
\* main_fsm.
SlaveClock(cmd_valid, cmd, rsp_ready, acc_done) ==
  /\ CmdReady(cmd_valid)
  /\ Parameters(cmd_valid, cmd)
  /\ Start(cmd_valid, cmd)
  /\ DoneReg(cmd_valid, cmd, acc_done)
  /\ RspValid(cmd_valid, rsp_ready)
  /\ Rdata(cmd_valid, cmd)
==========================================================================
