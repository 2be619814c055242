---------------------------- MODULE MCControlConn ----------------------------
(***************************************************************************)
(* ControlConn with a header of two bytes, a tag of one, ciphertexts of at *)
(* most four, so that two full records do not fit in `pending` together.   *)
(* The scripts: up to four records of every length after an accepted       *)
(* upgrade, early payloads in one record and in two, and every refusal.    *)
(***************************************************************************)
EXTENDS ControlConn

Part(kind, length) == [kind |-> kind, length |-> length]
Accepted(records) ==
    <<Part("Switching", 2), Part("Response", 0)>> \o [k \in 1 .. Len(records) |-> Part("Record", records[k])]

Plain == UNION {[1 .. n -> {0, 1, 3}] : n \in 1 .. 4} \cup {<<1, 0, 0, 3, 3>>}

Script(ps, e) ==
    [parts |-> ps,
     starts |-> [k \in 1 .. Len(ps) + 1 |-> MapThenSumSet(LAMBDA j : PartSize(ps[j]), 1 .. k - 1)],
     early |-> e]

MCScripts ==
    {Script(Accepted(r), 0) : r \in Plain}
    \cup {Script(Accepted(r), 2) :
             r \in {<<2>>, <<3, 1>>, <<1, 1, 3>>, <<0, 2, 0, 1>>, <<1, 3, 3>>}}
    \cup {Script(Accepted(<<2, 3, 3, 2, 1>>), 6)}
    \cup {Script(p, 0) :
             p \in {<<Part("Refusal", 2)>>, <<Part("Switching", 9)>>,
                    <<Part("Switching", 2), Part("Error", 0)>>,
                    <<Part("Switching", 2), Part("Error", 2)>>,
                    Accepted(<<1>>) \o <<Part("Error", 1)>>,
                    Accepted(<<1, 4>>)}}

MCBUF == [fw |-> 9, host |-> 12]
=============================================================================
