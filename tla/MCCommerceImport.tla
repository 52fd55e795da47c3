--------------------------- MODULE MCCommerceImport ---------------------------
EXTENDS CommerceImport, TLC

CONSTANTS m1, m2

\* The buyer opens; the seller, who is local, delivers; the buyer verifies;
\* the seller may dispute before or after that.
MCChainOf ==
    (m1 :> <<"opened">>)
        @@ (m2 :> <<"opened", "delivered", "verified">>)

MCLocalSteps ==
    {<<"opened", "delivered">>, <<"delivered", "disputed">>,
     <<"verified", "disputed">>}

=============================================================================
