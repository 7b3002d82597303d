------------------------------- MODULE MCWeb -------------------------------
(* One page or two of each part of the site, with the commands that differ in *)
(* their stores, their controls or what becomes of them.                      *)
EXTENDS WebPending, TLC

MCScenarios ==
    {[pages |-> {{"cart"}, {"checkout"}}, acts |-> {"set quantity", "order"}, commands |-> 2],
     [pages |-> {{"orders"}, {"wallet"}}, acts |-> {"cancel", "withdraw"}, commands |-> 2],
     [pages |-> {{"wallet"}, {"account"}}, acts |-> {"withdrawal cancel", "buyer ticket"}, commands |-> 2],
     [pages |-> {{"product"}, {"account"}}, acts |-> {"add to cart", "buyer read"}, commands |-> 2],
     [pages |-> {{"sellerOps", "sellerBusiness"}}, acts |-> {"order state", "offer"}, commands |-> 2],
     [pages |-> {{"sellerBusiness"}}, acts |-> {"seller read", "new offer"}, commands |-> 1],
     [pages |-> {{"supportView"}}, acts |-> {"decide", "unavailability", "reply"}, commands |-> 2],
     [pages |-> {{"supportView"}}, acts |-> {"sla"}, commands |-> 1],
     [pages |-> {{"adminOps"}}, acts |-> {"credit"}, commands |-> 2],
     [pages |-> {{"adminSellers"}}, acts |-> {"review", "activate"}, commands |-> 1],
     [pages |-> {{"outcomes"}}, acts |-> {"outcome"}, commands |-> 2],
     [pages |-> {{"retention"}}, acts |-> {"purge"}, commands |-> 2],
     [pages |-> {{"training"}}, acts |-> {"train"}, commands |-> 1]}

\* The page of the departure from the documents.
MCAdminPage == {[pages |-> {{"adminOps"}}, acts |-> {"credit"}, commands |-> 2]}

Symmetry == Permutations(Keys) \cup Permutations(Flights)
=============================================================================
