----------------------------- MODULE MCPrinters -----------------------------
\* Two printers, of which one has Jobs, and files that Load refuses.
EXTENDS Printers

Given(tenths) ==
  [tenths |-> tenths, dpi |-> 203, left |-> 0, right |-> 0, supportsCut |-> TRUE,
   defaultCut |-> "full", max |-> 0]

OfModel(name) ==
  [name |-> name, transport |-> "network", model |-> "epson-tm-m30ii", profile |-> <<>>]
OfProfile(name, tenths) ==
  [name |-> name, transport |-> "network", model |-> "", profile |-> <<Given(tenths)>>]

Config(entries_) ==
  [address |-> ":8080", store |-> "bbolt", attempts |-> 5, backoff |-> 5, printers |-> entries_]

Good == Config(<<OfModel("kitchen"), OfProfile("bar", 480)>>)

MCConfigs ==
  { Good,
    Config(<<OfModel("kitchen"), OfProfile("bar", 480), OfProfile("kitchen", 125)>>),
    Config(<<OfModel("kitchen"), OfProfile("bar", 0)>>),
    Config(<<OfModel("")>>),
    [Good EXCEPT !.store = "redis"], [Good EXCEPT !.address = ""],
    [Good EXCEPT !.attempts = 0], [Good EXCEPT !.backoff = 0] }

MCName == <<"bar", "kitchen">>
=============================================================================
