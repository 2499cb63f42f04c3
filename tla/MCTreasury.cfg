SPECIFICATION Spec
CONSTANTS
   User = {"u"}
   Special = {"temp"}
   Temp = "temp"
   Lifetime <- MCLifetime
   Referrer <- MCReferrer
   Registrar <- MCRegistrar
   Buyback = "u"
   Designer = "u"
   CoreIssuer = "u"
   NoIssuer = NoIssuer
   Percent <- MCPercent
   Threshold = 2
   Fees = {0, 3}
   Amounts = {2}
   Rate = 1
   Pay = 2
   Blocks = 1
   Proportion = 500
   Funds = 4
   MaxSupply = 5
   NewMax = {5}
   Configurations = {TRUE, FALSE}
INVARIANTS TypeOK   SupplyWithinMax
