--------------------------- MODULE MCCustomerReply ---------------------------
(* Small instances of CustomerReply: texts and answers that reach every case *)
(* of the extraction, of the validation and of the handler.                  *)
EXTENDS CustomerReply

Today    == Message({}, "part", <<"today", 0>>)
Tomorrow == Message({}, "part", <<"tomorrow", 0>>)
Friday   == Message({}, "part", <<"weekday", 1>>)
TooMuch  == Message({}, "excess", <<"tomorrow", 0>>)
Sorry    == Message({}, "none", <<"tomorrow", 0>>)
Stop     == Message({"opt out"}, "none", NoWord)
Wrong    == Message({"dispute"}, "part", NoWord)
Obey     == Message({"injection", "dispute"}, "part", <<"iso", 1>>)

AllMessages == {Today, Tomorrow, Friday, TooMuch, Sorry, Stop, Wrong, Obey}

Promise(d)   == Object("promise_to_pay", "part", d, "high")
Unsure       == Object("promise_to_pay", "part", 1, "low")
Undated      == Object("promise_to_pay", "part", NoDay, "high")
Claim        == Object("payment_claim", "none", NoDay, "high")
Broken       == Object("promise_to_pay", "not positive", 1, "high")
NotANumber   == Object("promise_to_pay", "nan", 1, "high")
AllAnswers   == {Fails, Shapeless, Promise(0), Promise(1), Promise(9), Unsure, Undated, Claim, Broken, NotANumber}
=============================================================================
