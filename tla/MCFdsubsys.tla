----------------------------- MODULE MCFdsubsys -----------------------------
EXTENDS Fdsubsys

MCSize == [i \in 0..3 |-> i + 1]
R(c, ps, pl) == [cmd |-> c, params |-> ps, payload |-> pl]

MCRequests ==
    {R(0, <<>>, <<>>), R(1, <<1, 0, 0, 1>>, <<7, 8>>), R(2, <<2, 0, 1, 1>>, <<>>),
     R(2, <<1, 2, 0, 1>>, <<>>), R(3, <<>>, <<>>), R(6, <<>>, <<>>),
     R(12, <<80, 0, 0, 2>>, <<5, 6>>), R(31, <<0, 0>>, <<>>), R(32, <<0>>, <<>>),
     R(35, <<1>>, <<>>), R(37, <<>>, <<>>), R(38, <<0, 255>>, <<>>)}

=============================================================================
