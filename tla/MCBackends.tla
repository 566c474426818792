----------------------------- MODULE MCBackends -----------------------------
(***************************************************************************)
(* Buffers of 16 bytes.  Inputs lie at the bottom, outputs above them or,  *)
(* for the element-wise and the row operations, in place; weights at 0 and *)
(* biases at the top of their buffer.                                      *)
(***************************************************************************)
EXTENDS Backends

\* Bytes with the extremes of INT8, equal neighbours and both signs.
Bytes1 == <<5, -128, 127, -3, 0, 90, -90, 7, 7, -1, 64, -64, 31, 2, -20, 100>>
Bytes2 == <<-128, -128, 127, 127, 1, -1, 3, -7, 12, 50, -50, 99, 0, 0, 1, -2>>
Buffer(bytes) == [a \in 0 .. 15 |-> bytes[a + 1]]

MCMemories == {<<Buffer(Bytes1), Buffer(Bytes2)>>, <<Buffer(Bytes2), Buffer(Bytes1)>>}

MCZeroCmd ==
    [opcode |-> 0, act_in_addr |-> 0, act_out_addr |-> 0, weight_addr |-> 0, bias_addr |-> 0,
     in_h |-> 0, in_w |-> 0, in_c |-> 0, out_k |-> 0, filt_r |-> 0, filt_s |-> 0,
     stride_h |-> 0, stride_w |-> 0, pad_h |-> 0, pad_w |-> 0, out_h |-> 0, out_w |-> 0,
     quant_shift |-> 0, act_mode |-> 0]

\* y and x are (in, filter, stride, pad).
Windowed(op, addr, y, x, c, k, q, mode) ==
    [MCZeroCmd EXCEPT
        !.opcode = op, !.act_in_addr = addr[1], !.act_out_addr = addr[2], !.bias_addr = 12,
        !.in_h = y[1], !.in_w = x[1], !.in_c = c, !.out_k = k,
        !.filt_r = y[2], !.filt_s = x[2], !.stride_h = y[3], !.stride_w = x[3],
        !.pad_h = y[4], !.pad_w = x[4],
        !.out_h = Ref!RefExtent(y[1], y[4], y[2], y[3]),
        !.out_w = Ref!RefExtent(x[1], x[4], x[2], x[3]),
        !.quant_shift = q, !.act_mode = mode]

Plain(op, addr, h, w, c, q, mode) ==
    [MCZeroCmd EXCEPT
        !.opcode = op, !.act_in_addr = addr[1], !.act_out_addr = addr[2], !.bias_addr = 12,
        !.in_h = h, !.in_w = w, !.in_c = c, !.quant_shift = q, !.act_mode = mode]

MCCmds ==
    { Windowed(1, <<0, 8>>, <<2, 2, 1, 0>>, <<2, 1, 1, 0>>, 2, 2, 5, 0),
      Windowed(1, <<1, 7>>, <<2, 2, 2, 1>>, <<3, 3, 1, 1>>, 1, 1, 0, 2),
      Windowed(1, <<0, 12>>, <<1, 1, 1, 0>>, <<2, 1, 1, 0>>, 2, 2, 3, 1),
      Plain(2, <<0, 6>>, 2, 2, 3, 4, 0), Plain(2, <<0, 10>>, 1, 3, 2, 0, 2),
      Plain(2, <<2, 4>>, 2, 1, 1, 1, 1),
      Plain(3, <<0, 0>>, 2, 3, 0, 0, 0), Plain(3, <<4, 9>>, 1, 5, 0, 0, 0), Plain(3, <<1, 3>>, 1, 1, 0, 0, 0),
      Plain(4, <<0, 0>>, 6, 0, 0, 0, 1), Plain(4, <<0, 8>>, 5, 1, 0, 6, 1),
      Plain(4, <<3, 3>>, 4, 1, 0, 2, 2), Plain(4, <<9, 1>>, 3, 1, 0, 8, 3),
      Plain(5, <<0, 0>>, 2, 3, 0, 4, 0), Plain(5, <<2, 11>>, 1, 5, 0, 6, 0),
      Plain(5, <<1, 1>>, 2, 2, 0, 13, 0), Plain(5, <<6, 6>>, 1, 1, 0, 0, 0),
      Windowed(6, <<0, 8>>, <<2, 2, 1, 0>>, <<3, 2, 1, 0>>, 1, 0, 0, 0),
      Windowed(6, <<0, 10>>, <<2, 2, 1, 0>>, <<2, 1, 1, 0>>, 2, 0, 1, 0),
      Windowed(6, <<1, 7>>, <<2, 3, 2, 1>>, <<3, 2, 2, 1>>, 1, 0, 1, 0),
      Windowed(6, <<1, 7>>, <<3, 2, 2, 1>>, <<2, 3, 1, 1>>, 1, 0, 0, 0) }

MCCmd == MCCmds \cup {MCZeroCmd}
=============================================================================
