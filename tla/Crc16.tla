------------------------------- MODULE Crc16 -------------------------------
(***************************************************************************)
(* The CRC of a packet: a register of two bytes through which the bytes of *)
(* the packet go, by way of two tables.                                    *)
(***************************************************************************)
EXTENDS Naturals, Sequences
LOCAL INSTANCE Bitwise
LOCAL INSTANCE SequencesExt

Byte == 0..255

auchCRCHi == <<
    \h00, \hC1, \h81, \h40, \h01, \hC0, \h80, \h41, \h01, \hC0, \h80, \h41, \h00, \hC1, \h81, \h40,
    \h01, \hC0, \h80, \h41, \h00, \hC1, \h81, \h40, \h00, \hC1, \h81, \h40, \h01, \hC0, \h80, \h41,
    \h01, \hC0, \h80, \h41, \h00, \hC1, \h81, \h40, \h00, \hC1, \h81, \h40, \h01, \hC0, \h80, \h41,
    \h00, \hC1, \h81, \h40, \h01, \hC0, \h80, \h41, \h01, \hC0, \h80, \h41, \h00, \hC1, \h81, \h40,
    \h01, \hC0, \h80, \h41, \h00, \hC1, \h81, \h40, \h00, \hC1, \h81, \h40, \h01, \hC0, \h80, \h41,
    \h00, \hC1, \h81, \h40, \h01, \hC0, \h80, \h41, \h01, \hC0, \h80, \h41, \h00, \hC1, \h81, \h40,
    \h00, \hC1, \h81, \h40, \h01, \hC0, \h80, \h41, \h01, \hC0, \h80, \h41, \h00, \hC1, \h81, \h40,
    \h01, \hC0, \h80, \h41, \h00, \hC1, \h81, \h40, \h00, \hC1, \h81, \h40, \h01, \hC0, \h80, \h41,
    \h01, \hC0, \h80, \h41, \h00, \hC1, \h81, \h40, \h00, \hC1, \h81, \h40, \h01, \hC0, \h80, \h41,
    \h00, \hC1, \h81, \h40, \h01, \hC0, \h80, \h41, \h01, \hC0, \h80, \h41, \h00, \hC1, \h81, \h40,
    \h00, \hC1, \h81, \h40, \h01, \hC0, \h80, \h41, \h01, \hC0, \h80, \h41, \h00, \hC1, \h81, \h40,
    \h01, \hC0, \h80, \h41, \h00, \hC1, \h81, \h40, \h00, \hC1, \h81, \h40, \h01, \hC0, \h80, \h41,
    \h00, \hC1, \h81, \h40, \h01, \hC0, \h80, \h41, \h01, \hC0, \h80, \h41, \h00, \hC1, \h81, \h40,
    \h01, \hC0, \h80, \h41, \h00, \hC1, \h81, \h40, \h00, \hC1, \h81, \h40, \h01, \hC0, \h80, \h41,
    \h01, \hC0, \h80, \h41, \h00, \hC1, \h81, \h40, \h00, \hC1, \h81, \h40, \h01, \hC0, \h80, \h41,
    \h00, \hC1, \h81, \h40, \h01, \hC0, \h80, \h41, \h01, \hC0, \h80, \h41, \h00, \hC1, \h81, \h40>>

auchCRCLo == <<
    \h00, \hC0, \hC1, \h01, \hC3, \h03, \h02, \hC2, \hC6, \h06, \h07, \hC7, \h05, \hC5, \hC4, \h04,
    \hCC, \h0C, \h0D, \hCD, \h0F, \hCF, \hCE, \h0E, \h0A, \hCA, \hCB, \h0B, \hC9, \h09, \h08, \hC8,
    \hD8, \h18, \h19, \hD9, \h1B, \hDB, \hDA, \h1A, \h1E, \hDE, \hDF, \h1F, \hDD, \h1D, \h1C, \hDC,
    \h14, \hD4, \hD5, \h15, \hD7, \h17, \h16, \hD6, \hD2, \h12, \h13, \hD3, \h11, \hD1, \hD0, \h10,
    \hF0, \h30, \h31, \hF1, \h33, \hF3, \hF2, \h32, \h36, \hF6, \hF7, \h37, \hF5, \h35, \h34, \hF4,
    \h3C, \hFC, \hFD, \h3D, \hFF, \h3F, \h3E, \hFE, \hFA, \h3A, \h3B, \hFB, \h39, \hF9, \hF8, \h38,
    \h28, \hE8, \hE9, \h29, \hEB, \h2B, \h2A, \hEA, \hEE, \h2E, \h2F, \hEF, \h2D, \hED, \hEC, \h2C,
    \hE4, \h24, \h25, \hE5, \h27, \hE7, \hE6, \h26, \h22, \hE2, \hE3, \h23, \hE1, \h21, \h20, \hE0,
    \hA0, \h60, \h61, \hA1, \h63, \hA3, \hA2, \h62, \h66, \hA6, \hA7, \h67, \hA5, \h65, \h64, \hA4,
    \h6C, \hAC, \hAD, \h6D, \hAF, \h6F, \h6E, \hAE, \hAA, \h6A, \h6B, \hAB, \h69, \hA9, \hA8, \h68,
    \h78, \hB8, \hB9, \h79, \hBB, \h7B, \h7A, \hBA, \hBE, \h7E, \h7F, \hBF, \h7D, \hBD, \hBC, \h7C,
    \hB4, \h74, \h75, \hB5, \h77, \hB7, \hB6, \h76, \h72, \hB2, \hB3, \h73, \hB1, \h71, \h70, \hB0,
    \h50, \h90, \h91, \h51, \h93, \h53, \h52, \h92, \h96, \h56, \h57, \h97, \h55, \h95, \h94, \h54,
    \h9C, \h5C, \h5D, \h9D, \h5F, \h9F, \h9E, \h5E, \h5A, \h9A, \h9B, \h5B, \h99, \h59, \h58, \h98,
    \h88, \h48, \h49, \h89, \h4B, \h8B, \h8A, \h4A, \h4E, \h8E, \h8F, \h4F, \h8D, \h4D, \h4C, \h8C,
    \h44, \h84, \h85, \h45, \h87, \h47, \h46, \h86, \h82, \h42, \h43, \h83, \h41, \h81, \h80, \h40>>

-----------------------------------------------------------------------------
\* The two tables together are one of CRC-16/MODBUS: eight shifts to the right,
\* with the polynomial \hA001 for every bit that falls out.
Shifted == [r \in 0..65535 |-> IF r % 2 = 1 THEN (r \div 2) ^^ \hA001 ELSE r \div 2]
ASSUME TablesAreModbus ==
  \A i \in Byte :
    FoldLeft(LAMBDA r, n : Shifted[r], i, <<1, 2, 3, 4, 5, 6, 7, 8>>)
      = 256 * auchCRCLo[i + 1] + auchCRCHi[i + 1]

-----------------------------------------------------------------------------
Initial == [hi |-> 255, lo |-> 255]

\* One byte through the register.
Pass(crc, byte) ==
  LET uIndex == (crc.hi ^^ byte) + 1
  IN  [hi |-> crc.lo ^^ auchCRCHi[uIndex], lo |-> auchCRCLo[uIndex]]

CRC16(message) == FoldLeft(Pass, Initial, message)

\* recieve_data_packet's test: the CRC of all but the last two bytes is in them.
IsIntact(packet) ==
  LET n == Len(packet)
  IN  CRC16(SubSeq(packet, 1, n - 2)) = [hi |-> packet[n - 1], lo |-> packet[n]]

\* The packet a sender makes of a body.
WithCrc(body) == body \o <<CRC16(body).hi, CRC16(body).lo>>
=============================================================================
