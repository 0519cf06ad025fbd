--------------------------- MODULE MCAppointments ---------------------------
(***************************************************************************)
(* A form filled in on a Friday, for the Monday or the Tuesday past the    *)
(* weekend, in days of two hours.  The busy ranges of others start before  *)
(* the window, end after it, touch, and contain each other.                *)
(***************************************************************************)
EXTENDS Appointments

MCOutside == {{<<17, 19>>, <<19, 20>>, <<21, 23>>}, {<<18, 21>>, <<19, 20>>}}
NobodyElse == {{}}

With(secret, key, calendar, inline) ==
    [secret |-> secret, key |-> key, calendar |-> calendar, inline |-> inline]
MCConfigs ==
    {With(TRUE, TRUE, TRUE, TRUE), With(TRUE, TRUE, TRUE, FALSE), With(TRUE, TRUE, FALSE, TRUE),
     With(FALSE, TRUE, TRUE, FALSE), With(TRUE, FALSE, TRUE, FALSE)}
CalendarOn == {With(TRUE, TRUE, TRUE, TRUE)}
=============================================================================
